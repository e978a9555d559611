----------------------------- MODULE AgentLoop -----------------------------
(***************************************************************************)
(* The agent loop: RuntimeSDK._stream_llm (runtime/sdk.py), one coroutine  *)
(* per prompt, and the LoopSafetyMonitor (runtime/loop_safety.py) that all *)
(* of them share: a RuntimeSDK serves many sessions (it keeps a lock for   *)
(* each), its monitor is one, and every prompt resets it when it begins.   *)
(* Prompts of one session exclude each other (SessionLifecycle), so each   *)
(* prompt here belongs to a session of its own.                            *)
(*                                                                         *)
(* A turn is one request to the model.  Of its answer the model keeps what *)
(* the loop decides by: the commands it calls (one value for the list of   *)
(* input ids), the length of its text, and whether the text claims that    *)
(* the task is done.  The conversation itself is left out, and with it     *)
(* what only adds messages to it: the stall counter, the checkpoint (which *)
(* is taken and restored within one turn) and the repeated-command nudge.  *)
(* The SDK gives the monitor no token counts, so its token budget never    *)
(* moves.                                                                  *)
(***************************************************************************)
EXTENDS Integers, Sequences, FiniteSets

CONSTANTS
    Prompts,
    Commands,             \* what the tool calls of a turn may be
    TextLengths,          \* lengths of the text of a turn
    MaxTurns,             \* LoopSafetyConfig.max_turns
    MaxWall,              \* LoopSafetyConfig.max_wall_time_seconds, in ticks
    RepetitionWindow,     \* LoopSafetyConfig.repetition_window
    RepetitionThreshold,  \* LoopSafetyConfig.repetition_threshold
    HardTurns,            \* max_turns of _stream_llm
    NudgeLimit,           \* bound of _text_only_nudges
    ReadonlyBudget,       \* _readonly_tool_round_budget
    NoCommand             \* a turn without tool calls

ASSUME LoopAssumption ==
    /\ TextLengths \subseteq Nat
    /\ 0 \in TextLengths
    /\ MaxTurns \in Nat \ {0}
    /\ MaxWall \in Nat \ {0}
    /\ RepetitionWindow \in Nat \ {0}
    /\ RepetitionThreshold \in Nat \ {0}
    /\ HardTurns \in Nat
    /\ NudgeLimit \in Nat
    /\ ReadonlyBudget \in Nat \ {0}
    /\ NoCommand \notin Commands

VARIABLES
    mon,         \* RuntimeSDK._loop_monitor
    turn,        \* turn: requests made by the prompt
    needsFile,   \* _prompt_requires_file
    nudges,      \* _text_only_nudges
    rounds,      \* _readonly_tool_rounds
    asked,       \* _readonly_nudge_sent
    prev,        \* _prev_input_ids, _prev_text_len
    phase,       \* the await the prompt is suspended at
    closings,    \* history: assistant.completed and session.failed events sent
    ended        \* history: how the last run of the prompt ended

budgets == <<needsFile, nudges, rounds, asked>>
history == <<closings, ended>>
vars == <<mon, turn, needsFile, nudges, rounds, asked, prev, phase, closings, ended>>

\* preparing  before the first turn (screening of the prompt, retrieval, planning)
\* screening  the context is screened for overflow
\* streaming  the model answers
\* tools      the tools of the turn run, one after the other
\* between    the turn is over, its stream is being closed
\* stopping   the client is told that the loop was stopped
\* answering  the client is told that the answer is complete
\* closing    the same, done; the stream is being closed
Phases == {"idle", "preparing", "screening", "streaming", "tools", "between",
           "stopping", "answering", "closing"}

Observation == [calls : Commands \union {NoCommand}, text : TextLengths]
Nothing == [calls |-> NoCommand, text |-> 0]

-----------------------------------------------------------------------------
(* LoopSafetyMonitor *)

\* _start_time is kept as the time since then.  Of _snapshots, only the last
\* repetition_window are ever looked at.
FreshMonitor == [snaps |-> <<>>, reps |-> 0, state |-> "normal", reason |-> "none",
                 warned |-> FALSE, elapsed |-> 0]

\* Of two turns' texts, neither is longer than the other by more than a tenth.
Similar(S) == \A a, b \in S : a > 0 /\ 10 * a <= 11 * b

\* _detect_repetition, of the last turns.
DetectRepetition(snaps) ==
    LET n == Len(snaps)
        toolful == {i \in 1..n : snaps[i].calls # NoCommand}
        lastTool == CHOOSE i \in toolful : \A j \in toolful : j <= i
        sameCalls == {i \in toolful : snaps[i].calls = snaps[lastTool].calls}
        lastThree == (n - 2)..n
    IN  /\ n >= RepetitionThreshold
        /\ \/ /\ Cardinality(toolful) >= RepetitionThreshold
              /\ Cardinality(sameCalls) >= RepetitionThreshold
           \/ /\ n >= 3
              /\ lastThree \intersect toolful = {}
              /\ Similar({snaps[i].text : i \in lastThree})
           \/ Cardinality({i \in toolful : snaps[i].text = 0}) >= RepetitionThreshold

\* Mutant: the limit counts the turns since the last reset.
LimitReachedSinceReset(m, turnNum) == Len(m.snaps) >= MaxTurns \/ m.elapsed >= MaxWall

LimitReached(m, turnNum) == turnNum >= MaxTurns \/ m.elapsed >= MaxWall

\* Four fifths of a limit are spent.
NearLimit(m, turnNum) == 5 * turnNum >= 4 * MaxTurns \/ 5 * m.elapsed >= 4 * MaxWall

Warn(m, turnNum) ==
    IF m.state = "normal" /\ ~m.warned /\ NearLimit(m, turnNum)
      THEN [m EXCEPT !.state = "warning", !.warned = TRUE]
      ELSE m

\* check_turn: the monitor after turn turnNum - 1 was seen to be seen.
CheckTurn(m, turnNum, seen) ==
    LET all == Append(m.snaps, seen)
        full == Len(all) >= RepetitionWindow
        snaps == IF full THEN SubSeq(all, Len(all) - RepetitionWindow + 1, Len(all)) ELSE all
        repeats == full /\ DetectRepetition(snaps)
        noted == [m EXCEPT !.snaps = snaps]
    IN  IF LimitReached(m, turnNum)
          THEN [noted EXCEPT !.state = "stopped", !.reason = "limit"]
        ELSE IF repeats /\ m.reps + 1 >= RepetitionThreshold
          THEN [noted EXCEPT !.reps = @ + 1, !.state = "stopped", !.reason = "repetition"]
        ELSE IF repeats
          THEN [noted EXCEPT !.reps = @ + 1, !.state = "warning"]
        ELSE IF full /\ m.state = "warning" /\ ~m.warned
          THEN Warn([noted EXCEPT !.reps = 0, !.state = "normal"], turnNum)
        ELSE Warn(noted, turnNum)

-----------------------------------------------------------------------------
(* RuntimeSDK._stream_llm *)

Init ==
    /\ mon = FreshMonitor
    /\ turn = [p \in Prompts |-> 0]
    /\ needsFile = [p \in Prompts |-> FALSE]
    /\ nudges = [p \in Prompts |-> 0]
    /\ rounds = [p \in Prompts |-> 0]
    /\ asked = [p \in Prompts |-> FALSE]
    /\ prev = [p \in Prompts |-> Nothing]
    /\ phase = [p \in Prompts |-> "idle"]
    /\ closings = [p \in Prompts |-> 0]
    /\ ended = [p \in Prompts |-> "none"]

GoTo(p, next) == phase' = [phase EXCEPT ![p] = next]

ToolsDisabled(p) == rounds[p] >= ReadonlyBudget

\* The coroutine is over, and its locals with it.
Leave(p, how) ==
    /\ GoTo(p, "idle")
    /\ turn' = [turn EXCEPT ![p] = 0]
    /\ needsFile' = [needsFile EXCEPT ![p] = FALSE]
    /\ nudges' = [nudges EXCEPT ![p] = 0]
    /\ rounds' = [rounds EXCEPT ![p] = 0]
    /\ asked' = [asked EXCEPT ![p] = FALSE]
    /\ prev' = [prev EXCEPT ![p] = Nothing]
    /\ ended' = [ended EXCEPT ![p] = how]
    /\ UNCHANGED mon

\* Mutant: the monitor is not reset for a new prompt.
BeginKeepsMonitor(p, file) ==
    /\ phase[p] = "idle"
    /\ GoTo(p, "preparing")
    /\ mon' = [mon EXCEPT !.elapsed = 0]
    /\ needsFile' = [needsFile EXCEPT ![p] = file]
    /\ closings' = [closings EXCEPT ![p] = 0]
    /\ ended' = [ended EXCEPT ![p] = "none"]
    /\ UNCHANGED <<turn, nudges, rounds, asked, prev>>

\* submit_prompt has the session's lock and the model is reachable.  The
\* monitor starts afresh, whoever else it is watching.
Begin(p, file) ==
    /\ phase[p] = "idle"
    /\ GoTo(p, "preparing")
    /\ mon' = FreshMonitor
    /\ needsFile' = [needsFile EXCEPT ![p] = file]
    /\ closings' = [closings EXCEPT ![p] = 0]
    /\ ended' = [ended EXCEPT ![p] = "none"]
    /\ UNCHANGED <<turn, nudges, rounds, asked, prev>>

\* The client is told of a refused prompt (prompt injection) or of an overflow.
Refuse(p) ==
    /\ phase[p] \in {"preparing", "screening"}
    /\ Leave(p, "returned")
    /\ closings' = [closings EXCEPT ![p] = @ + 1]

\* The head of the loop.  What the previous turn did is consumed.
NextTurn(p) ==
    LET checked == CheckTurn(mon, turn[p] + 1, prev[p])
        stops == checked.state = "stopped"
    IN  /\ phase[p] \in {"preparing", "between"}
        /\ mon' = checked
        /\ prev' = [prev EXCEPT ![p] = Nothing]
        /\ turn' = [turn EXCEPT ![p] = IF stops THEN @ ELSE @ + 1]
        /\ GoTo(p, IF stops \/ turn[p] + 1 > HardTurns THEN "stopping" ELSE "screening")
        /\ UNCHANGED <<budgets, history>>

\* Mutant: the loop is not left after the stop was reported.
StopGoesOn(p) ==
    /\ phase[p] = "stopping"
    /\ GoTo(p, "screening")
    /\ closings' = [closings EXCEPT ![p] = @ + 1]
    /\ UNCHANGED <<mon, turn, budgets, prev, ended>>

\* The stop was reported, assistant.completed included.
Stop(p) ==
    /\ phase[p] = "stopping"
    /\ Leave(p, "returned")
    /\ closings' = [closings EXCEPT ![p] = @ + 1]

\* The request goes out.  Without tools, the model is asked once to write the
\* answer.
Request(p) ==
    /\ phase[p] = "screening"
    /\ GoTo(p, "streaming")
    /\ asked' = [asked EXCEPT ![p] = @ \/ ToolsDisabled(p)]
    /\ UNCHANGED <<mon, turn, needsFile, nudges, rounds, prev, history>>

\* Mutant: the monitor is not reset when the budget is spent.
CountToolRoundKeepsMonitor(p) ==
    /\ rounds' = IF needsFile[p] \/ ToolsDisabled(p) THEN rounds ELSE [rounds EXCEPT ![p] = @ + 1]
    /\ UNCHANGED mon

\* A tool round of a read-only prompt; the one that spends the budget gives the
\* monitor a fresh start.
CountToolRound(p) ==
    /\ rounds' = IF needsFile[p] \/ ToolsDisabled(p) THEN rounds ELSE [rounds EXCEPT ![p] = @ + 1]
    /\ mon' = IF rounds' # rounds /\ rounds'[p] = ReadonlyBudget THEN FreshMonitor ELSE mon

\* The model calls tools.  It cannot when it was offered none.
StreamTools(p, c, t) ==
    /\ phase[p] = "streaming"
    /\ ~ToolsDisabled(p)
    /\ CountToolRound(p)
    /\ prev' = [prev EXCEPT ![p] = [calls |-> c, text |-> t]]
    /\ GoTo(p, "tools")
    /\ UNCHANGED <<turn, needsFile, nudges, asked, history>>

\* The stream ends with no finish_reason in its last chunk, or its calls lack a
\* name or an id: the turn is dropped, after its tool round was counted.
StreamLost(p, called, t) ==
    /\ phase[p] = "streaming"
    /\ called => ~ToolsDisabled(p)
    /\ IF called THEN CountToolRound(p) ELSE UNCHANGED <<rounds, mon>>
    /\ prev' = [prev EXCEPT ![p] = [calls |-> NoCommand, text |-> t]]
    /\ GoTo(p, "between")
    /\ UNCHANGED <<turn, needsFile, nudges, asked, history>>

Nudge(p) ==
    /\ nudges' = [nudges EXCEPT ![p] = @ + 1]
    /\ GoTo(p, "between")

\* Mutant: a model that only thinks is nudged for ever.
StreamEmptyAlwaysNudges(p) ==
    /\ phase[p] = "streaming"
    /\ prev' = [prev EXCEPT ![p] = Nothing]
    /\ Nudge(p)
    /\ UNCHANGED <<mon, turn, needsFile, rounds, asked, history>>

\* Neither text nor tool calls.
StreamEmpty(p) ==
    /\ phase[p] = "streaming"
    /\ prev' = [prev EXCEPT ![p] = Nothing]
    /\ IF nudges[p] < NudgeLimit THEN Nudge(p) ELSE UNCHANGED nudges /\ GoTo(p, "answering")
    /\ UNCHANGED <<mon, turn, needsFile, rounds, asked, history>>

\* Text alone.  It is the answer of a read-only prompt; of a prompt that asks for
\* a file it is one when it says so, or when the nudges are used up.
StreamText(p, t, done) ==
    /\ phase[p] = "streaming"
    /\ t > 0
    /\ prev' = [prev EXCEPT ![p] = [calls |-> NoCommand, text |-> t]]
    /\ IF needsFile[p] /\ ~done /\ nudges[p] < NudgeLimit
         THEN Nudge(p)
         ELSE UNCHANGED nudges /\ GoTo(p, "answering")
    /\ UNCHANGED <<mon, turn, needsFile, rounds, asked, history>>

\* Mutant: the checkpoint to roll back to is the one of the previous turn.
RunToolsRollsBack(p) ==
    /\ phase[p] = "tools"
    /\ GoTo(p, "between")
    /\ turn' \in {turn, [turn EXCEPT ![p] = @ - 1]}
    /\ UNCHANGED <<mon, budgets, prev, history>>

\* The tools have run.  A failed one restores the checkpoint of this same turn.
RunTools(p) ==
    /\ phase[p] = "tools"
    /\ GoTo(p, "between")
    /\ UNCHANGED <<mon, turn, budgets, prev, history>>

Answer(p) ==
    /\ phase[p] = "answering"
    /\ GoTo(p, "closing")
    /\ closings' = [closings EXCEPT ![p] = @ + 1]
    /\ UNCHANGED <<mon, turn, budgets, prev, ended>>

Return(p) ==
    /\ phase[p] = "closing"
    /\ Leave(p, "returned")
    /\ UNCHANGED closings

\* An exception, or the prompt timeout, at any await.  submit_prompt sends
\* session.failed, unless the sending fails too.
Cut(p) ==
    /\ phase[p] # "idle"
    /\ Leave(p, "raised")
    /\ closings' \in {closings, [closings EXCEPT ![p] = @ + 1]}

Tick ==
    /\ mon.elapsed < MaxWall
    /\ mon' = [mon EXCEPT !.elapsed = @ + 1]
    /\ UNCHANGED <<turn, budgets, prev, phase, history>>

\* The await of prompt p ends.
Progress(p) ==
    \/ Refuse(p)
    \/ NextTurn(p)
    \/ Stop(p)
    \/ Request(p)
    \/ \E c \in Commands, t \in TextLengths : StreamTools(p, c, t)
    \/ \E called \in BOOLEAN, t \in TextLengths : StreamLost(p, called, t)
    \/ StreamEmpty(p)
    \/ \E t \in TextLengths, done \in BOOLEAN : StreamText(p, t, done)
    \/ RunTools(p)
    \/ Answer(p)
    \/ Return(p)
    \/ Cut(p)

Next ==
    \/ Tick
    \/ \E p \in Prompts : (\E file \in BOOLEAN : Begin(p, file)) \/ Progress(p)

Spec == Init /\ [][Next]_vars

\* Every await ends: the streams have read timeouts, and the whole prompt runs
\* under wait_for.  Neither time nor new prompts are obliged to come.
FairSpec == Spec /\ \A p \in Prompts : WF_vars(Progress(p))

-----------------------------------------------------------------------------
(* Properties *)

\* The types of the variables.
TypeOK ==
    /\ mon \in [snaps : Seq(Observation), reps : Nat, state : {"normal", "warning", "stopped"},
                reason : {"none", "limit", "repetition"}, warned : BOOLEAN, elapsed : 0..MaxWall]
    /\ turn \in [Prompts -> Nat]
    /\ needsFile \in [Prompts -> BOOLEAN]
    /\ nudges \in [Prompts -> 0..NudgeLimit]
    /\ rounds \in [Prompts -> 0..ReadonlyBudget]
    /\ asked \in [Prompts -> BOOLEAN]
    /\ prev \in [Prompts -> Observation]
    /\ phase \in [Prompts -> Phases]
    /\ closings \in [Prompts -> Nat]
    /\ ended \in [Prompts -> {"none", "returned", "raised"}]

\* No prompt makes max_turns requests, however often others, or its own read-only
\* budget, reset the monitor under it.
TurnsBounded == \A p \in Prompts : turn[p] < MaxTurns

\* A loop that returns has closed the turn for the client exactly once, and
\* before that it has not: no path out of the loop leaves the client waiting,
\* none closes twice, nothing is streamed after the close.
ClosedOnce ==
    \A p \in Prompts :
        /\ ended[p] = "returned" => closings[p] = 1
        /\ phase[p] \notin {"idle", "closing"} => closings[p] = 0

\* p leaves the loop at its head.
Stops(p) == phase[p] \in {"preparing", "between"} /\ phase'[p] = "stopping"

\* What the monitor finds by itself at the head of p's loop, with no verdict behind it.
FindsToStop(p) == CheckTurn([mon EXCEPT !.state = "normal"], turn[p] + 1, prev[p]).state = "stopped"

\* "Each LiveSession owns exactly one RuntimeSDK": a prompt that is stopped under a verdict
\* that was there before would be stopped without it: it has reached a limit, or repeats
\* itself.  It holds while prompts run one at a time, and not beyond: the monitor is
\* everybody's (see the README).
StoppedForItself ==
    [][\A p \in Prompts : Stops(p) /\ mon.state = "stopped" => FindsToStop(p)]_vars

\* "Reset gives the forced text-only turn a clean safety budget": once its tool
\* budget is spent, a read-only prompt gets the turn to answer in, unless its
\* turns or its time are up.  It too holds while prompts run one at a time.
ForcedAnswerRuns ==
    [][\A p \in Prompts :
         Stops(p) /\ ToolsDisabled(p) /\ ~asked[p] => LimitReached(mon, turn[p] + 1)]_vars

\* Every prompt ends, whatever the model answers and the tools do.
PromptsEnd == \A p \in Prompts : phase[p] # "idle" ~> phase[p] = "idle"

\* "a sequence of different bash commands is not flagged as a loop": turns that
\* all call tools, each with another command, do not stop a prompt for
\* repetition.  The code does not keep this (see the README).
DifferentCommandsAreNoLoop ==
    [][\A p \in Prompts :
         Stops(p) /\ ~LimitReached(mon, turn[p] + 1)
            => \E i, j \in DOMAIN mon'.snaps :
                   \/ mon'.snaps[i].calls = NoCommand
                   \/ i # j /\ mon'.snaps[i].calls = mon'.snaps[j].calls]_vars
=============================================================================
