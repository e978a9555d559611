------------------------------ MODULE ToolGate ------------------------------
(***************************************************************************)
(* What stands between a tool call of the model and its execution:         *)
(* RuntimeSDK._handle_tool_completion (runtime/sdk.py), the registry of    *)
(* questions to the human (runtime/approval_registry.py), and the approval *)
(* callback, which no file of the repository defines: it is modelled from  *)
(* the usage the registry documents (register, then wait_for_decision).    *)
(*                                                                         *)
(* One session.  The calls of a prompt are handled one after the other;    *)
(* prompts follow each other and may use a tool id again.  Clicks of the   *)
(* human, timeouts, the end of a connection and the prompt timeout come at *)
(* any await.  A PendingApproval is kept under its id after it has left    *)
(* the registry: the waiter holds it.                                      *)
(***************************************************************************)
EXTENDS Naturals

CONSTANTS
    Tools,    \* tool ids
    NoTool    \* no call is being handled

ASSUME GateAssumption == NoTool \notin Tools

VARIABLES
    manual,     \* session.permission_mode = "manual"
    callback,   \* on_tool_approval is given
    completed,  \* completed_tools, of the prompt
    stage,      \* the await the call is suspended at
    tool,       \* its tool id
    entry,      \* approved and resolved of the last PendingApproval of an id
    listed,     \* keys of ApprovalRegistry._pending
    runs,       \* history: how often the prompt ran the tool
    delivered,  \* history: how many tool.completed the client got of it
    consented,  \* history: tools whose last question a click approved
    refused,    \* history: tools a question of which was answered by a refusal
    abandoned   \* history: tools whose last wait was cancelled

call == <<completed, stage, tool>>
registry == <<entry, listed>>
history == <<runs, delivered, consented, refused, abandoned>>
gateVars == <<manual, callback, completed, stage, tool, entry, listed,
          runs, delivered, consented, refused, abandoned>>

\* danger, secret, selfmod   a detector of the immune system runs
\* ask_...                   the callback waits for a decision
\* announcing                tool.permission.required is being sent
\* executing                 the tool runs
\* report_...                tool.completed is being sent
Asking == {"ask_danger", "ask_selfmod", "ask_manual"}
Reporting == {"report_refusal", "report_success", "report_error"}
Stages == {"none", "danger", "secret", "selfmod", "announcing", "executing"}
            \union Asking \union Reporting

Decisions == {"approved", "rejected"}

GateInit ==
    /\ manual \in BOOLEAN
    /\ callback \in BOOLEAN
    /\ completed = {}
    /\ stage = "none"
    /\ tool = NoTool
    /\ entry = [t \in Tools |-> "rejected"]
    /\ listed = {}
    /\ runs = [t \in Tools |-> 0]
    /\ delivered = [t \in Tools |-> 0]
    /\ consented = {}
    /\ refused = {}
    /\ abandoned = {}

-----------------------------------------------------------------------------
(* ApprovalRegistry *)

\* The callback: register replaces whatever is there, then the wait begins.
Ask(question) ==
    /\ stage' = question
    /\ entry' = [entry EXCEPT ![tool] = "pending"]
    /\ listed' = listed \union {tool}
    /\ consented' = consented \ {tool}
    /\ abandoned' = abandoned \ {tool}
    /\ UNCHANGED <<completed, tool, runs, delivered, refused>>

Waits(t) == stage \in Asking /\ tool = t

\* Mutant: a second click overrules the first.
ClickOverrules(t, decision) ==
    /\ t \in listed
    /\ entry' = [entry EXCEPT ![t] = decision]
    /\ consented' = IF Waits(t) /\ decision = "approved" THEN consented \union {t} ELSE consented
    /\ refused' = IF Waits(t) /\ decision = "rejected" THEN refused \union {t} ELSE refused
    /\ UNCHANGED <<manual, callback, call, listed, runs, delivered, abandoned>>

\* approve, reject: the first decision counts.
Click(t, decision) ==
    /\ t \in listed
    /\ entry[t] = "pending"
    /\ entry' = [entry EXCEPT ![t] = decision]
    /\ consented' = IF Waits(t) /\ decision = "approved" THEN consented \union {t} ELSE consented
    /\ refused' = IF Waits(t) /\ decision = "rejected" THEN refused \union {t} ELSE refused
    /\ UNCHANGED <<manual, callback, call, listed, runs, delivered, abandoned>>

\* discard, "forget a resolved approval": it forgets an open one as well, and its waiter
\* can then only time out.
Discard(t) ==
    /\ t \in listed
    /\ listed' = listed \ {t}
    /\ UNCHANGED <<manual, callback, call, entry, history>>

\* clear_session: pending approvals are refused and wake their waiters.
ClearSession ==
    LET pending == {t \in listed : entry[t] = "pending"} IN
    /\ listed # {}
    /\ listed' = {}
    /\ entry' = [t \in Tools |-> IF t \in pending THEN "rejected" ELSE entry[t]]
    /\ refused' = refused \union {t \in pending : Waits(t)}
    /\ UNCHANGED <<manual, callback, call, runs, delivered, consented, abandoned>>

-----------------------------------------------------------------------------
(* RuntimeSDK._handle_tool_completion *)

\* Mutant: an id that was handled in this prompt is handled again.
StartCallUnguarded(t) ==
    /\ stage = "none"
    /\ stage' = "danger"
    /\ tool' = t
    /\ UNCHANGED <<manual, callback, completed, registry, history>>

\* A repeated id returns at once.
StartCall(t) ==
    /\ stage = "none"
    /\ t \notin completed
    /\ stage' = "danger"
    /\ tool' = t
    /\ UNCHANGED <<manual, callback, completed, registry, history>>

GoOn(next) == stage' = next /\ UNCHANGED <<completed, tool, registry, history>>

\* The call is over but for its report.
Refuse ==
    /\ completed' = completed \union {tool}
    /\ stage' = "report_refusal"
    /\ UNCHANGED tool

Permitted == IF manual THEN "announcing" ELSE "executing"

\* A threat that was halted ends the call; one of high severity is asked about,
\* when there is anybody to ask.
ScreenDanger(threat) ==
    /\ stage = "danger"
    /\ CASE threat = "halted" -> Refuse /\ UNCHANGED <<registry, history>>
         [] threat = "high" /\ callback -> Ask("ask_danger")
         [] threat = "none" \/ (threat = "high" /\ ~callback) -> GoOn("secret")
    /\ UNCHANGED <<manual, callback>>

ScreenSecret(threat) ==
    /\ stage = "secret"
    /\ IF threat THEN Refuse /\ UNCHANGED <<registry, history>> ELSE GoOn("selfmod")
    /\ UNCHANGED <<manual, callback>>

\* Every threat is asked about in turn; threat: there is a further one.
ScreenSelfmod(threat) ==
    /\ stage = "selfmod"
    /\ IF threat /\ callback THEN Ask("ask_selfmod") ELSE GoOn(Permitted)
    /\ UNCHANGED <<manual, callback>>

\* Mutant: without a callback the call goes through.
AnnouncedUnasked ==
    /\ stage = "announcing"
    /\ IF callback THEN Ask("ask_manual") ELSE GoOn("executing")
    /\ UNCHANGED <<manual, callback>>

\* The client knows of the question before it is registered.
Announced ==
    /\ stage = "announcing"
    /\ IF callback THEN Ask("ask_manual") ELSE Refuse /\ UNCHANGED <<registry, history>>
    /\ UNCHANGED <<manual, callback>>

AfterApproval ==
    CASE stage = "ask_danger" -> "secret"
      [] stage = "ask_selfmod" -> "selfmod"
      [] stage = "ask_manual" -> "executing"

\* The waiter resumes.
Decided ==
    /\ stage \in Asking
    /\ entry[tool] \in Decisions
    /\ IF entry[tool] = "approved"
         THEN GoOn(AfterApproval)
         ELSE Refuse /\ UNCHANGED <<registry, history>>
    /\ UNCHANGED <<manual, callback>>

\* Mutant: the timeout leaves the approval as it is.
WaitTimesOutUnresolved ==
    /\ stage \in Asking
    /\ Refuse
    /\ UNCHANGED <<manual, callback, registry, history>>

\* The timeout of wait_for_decision.  It wins over a click that came in before
\* the waiter has resumed.
WaitTimesOut ==
    /\ stage \in Asking
    /\ Refuse
    /\ entry' = [entry EXCEPT ![tool] = IF @ = "pending" THEN "rejected" ELSE @]
    /\ UNCHANGED <<manual, callback, listed, history>>

Execute(ok) ==
    /\ stage = "executing"
    /\ completed' = completed \union {tool}
    /\ runs' = [runs EXCEPT ![tool] = @ + 1]
    /\ stage' = IF ok THEN "report_success" ELSE "report_error"
    /\ UNCHANGED <<manual, callback, tool, registry, delivered, consented, refused, abandoned>>

\* Mutant: the locals of the call outlive it.
ReportKeepsTool ==
    /\ stage \in Reporting
    /\ stage' = "none"
    /\ delivered' = [delivered EXCEPT ![tool] = @ + 1]
    /\ UNCHANGED <<manual, callback, completed, tool, registry, runs, consented, refused, abandoned>>

Report ==
    /\ stage \in Reporting
    /\ stage' = "none"
    /\ tool' = NoTool
    /\ delivered' = [delivered EXCEPT ![tool] = @ + 1]
    /\ UNCHANGED <<manual, callback, completed, registry, runs, consented, refused, abandoned>>

\* Mutant: a report that cannot be sent is dropped.
ReportRaisesSilently ==
    /\ stage = "report_success"
    /\ stage' = "none"
    /\ tool' = NoTool
    /\ UNCHANGED <<manual, callback, completed, registry, history>>

\* Sending the success raises inside the try: the run is reported as an error.
ReportRaises ==
    /\ stage = "report_success"
    /\ GoOn("report_error")
    /\ UNCHANGED <<manual, callback>>

\* The prompt is over: its set of completed tools goes with it.
EndPrompt ==
    /\ stage' = "none"
    /\ tool' = NoTool
    /\ completed' = {}
    /\ runs' = [t \in Tools |-> 0]
    /\ delivered' = [t \in Tools |-> 0]
    /\ consented' = {}
    /\ refused' = {}
    /\ UNCHANGED <<manual, callback, registry>>

PromptReturns ==
    /\ stage = "none"
    /\ completed # {}
    /\ EndPrompt
    /\ UNCHANGED abandoned

\* The prompt timeout, or an exception out of the call: a pending question stays
\* in the registry.
PromptCut ==
    /\ stage # "none"
    /\ EndPrompt
    /\ abandoned' = IF stage \in Asking THEN abandoned \union {tool} ELSE abandoned

GateNext ==
    \/ \E t \in Tools :
         \/ StartCall(t)
         \/ Discard(t)
         \/ \E decision \in Decisions : Click(t, decision)
    \/ ClearSession
    \/ \E threat \in {"none", "high", "halted"} : ScreenDanger(threat)
    \/ \E threat \in BOOLEAN : ScreenSecret(threat) \/ ScreenSelfmod(threat)
    \/ Announced
    \/ Decided
    \/ WaitTimesOut
    \/ \E ok \in BOOLEAN : Execute(ok)
    \/ Report
    \/ ReportRaises
    \/ PromptReturns
    \/ PromptCut

GateSpec == GateInit /\ [][GateNext]_gateVars

-----------------------------------------------------------------------------
(* Properties *)

\* The types of the variables; a tool is in hand exactly while a call is handled.
GateTypeOK ==
    /\ manual \in BOOLEAN
    /\ callback \in BOOLEAN
    /\ completed \subseteq Tools
    /\ stage \in Stages
    /\ tool \in Tools \union {NoTool}
    /\ stage = "none" <=> tool = NoTool
    /\ entry \in [Tools -> Decisions \union {"pending"}]
    /\ listed \subseteq Tools
    /\ runs \in [Tools -> Nat]
    /\ delivered \in [Tools -> Nat]
    /\ consented \subseteq Tools
    /\ refused \subseteq Tools
    /\ abandoned \subseteq Tools

\* In manual mode no tool runs but on the human's word to its last question: not
\* on an answer to an earlier question or prompt, not on a timeout, not for want
\* of anybody to ask.
ManualRunsAreApproved ==
    manual => \A t \in Tools : runs[t] > 0 => t \in consented

\* A call that was once refused, by a click or by the end of the connection, does
\* not run, whatever clicks follow.
RefusalIsFinal == \A t \in refused : runs[t] = 0

\* A tool id runs at most once in a prompt ("guard against double-emit").
RunsOnce == \A t \in Tools : runs[t] <= 1

\* "Emits tool.completed exactly once per tool_id": a call that returned has
\* delivered one, also when the sending of its success failed.
DeliveredOnce ==
    \A t \in Tools :
        /\ delivered[t] <= 1
        /\ stage = "none" /\ t \in completed => delivered[t] = 1

\* "a late approve/reject is detected as a no-op rather than silently succeeding
\* after the SDK moved on": a click that is accepted has somebody waiting for it.
\* The exception is a wait that was cancelled (see the README).
LateClickIsNoOp ==
    [][\A t \in Tools, decision \in Decisions :
         Click(t, decision) => Waits(t) \/ t \in abandoned]_gateVars
=============================================================================
