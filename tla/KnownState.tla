----------------------------- MODULE KnownState -----------------------------
(***************************************************************************)
(* runtime/session_state.py and runtime/state_manager.py: two managers     *)
(* that keep the state of the work in the same file LAST_KNOWN_STATE.md.   *)
(* An update loads the state, changes a field and writes all of it back.   *)
(* What to_markdown writes, from_markdown reads back in part.  StateManager*)
(* also keeps texts in Hindsight, and asks there first.                    *)
(***************************************************************************)
EXTENDS Naturals, FiniteSets

CONSTANTS
    Items,         \* entries of list fields
    MaxTexts       \* bound: texts retained by Hindsight

ASSUME KnownAssumption == MaxTexts \in Nat

VARIABLES
    text,      \* LAST_KNOWN_STATE.md, as the fields it holds
    texts,     \* what Hindsight retained
    editors,   \* history: the managers that edited the file
    diverged,  \* history: an edit began from something else than the file
    told       \* history: the entries added to each field

knownVars == <<text, texts, editors, diverged, told>>

Managers == {"SessionStateManager", "StateManager"}

\* A field for each way a field can fare: read back by both, by one, by none, and
\* never written.
StateFields == {"key_decisions", "todo_items", "constraints", "environment"}
Blank == [f \in StateFields |-> {}]

ToMarkdown(state) == [state EXCEPT !.environment = {}]

\* Mutant: the decisions are not read back.
ReadsNoDecisions(m) == IF m = "SessionStateManager" THEN {"todo_items"} ELSE {}

\* The fields from_markdown of a manager reconstructs.
Reads(m) == IF m = "SessionStateManager" THEN {"key_decisions", "todo_items"}
                                         ELSE {"key_decisions"}

FromMarkdown(m, md) == [f \in StateFields |-> IF f \in Reads(m) THEN md[f] ELSE {}]

KnownInit ==
    /\ text = Blank /\ texts = {}
    /\ editors = {} /\ diverged = FALSE
    /\ told = Blank

\* The texts an edit may begin from: the file; for StateManager what Hindsight
\* recalls, one of what it has, unless it has none, or fails.
Loadable(m) == IF m = "StateManager" THEN texts \union {text} ELSE {text}

\* StateManager retains the text as well; when that fails nobody hears of it.
SaveState(m, state) ==
    /\ text' = ToMarkdown(state)
    /\ \/ UNCHANGED texts
       \/ /\ m = "StateManager" /\ Cardinality(texts) < MaxTexts
          /\ texts' = texts \union {ToMarkdown(state)}

\* Lists are extended.
UpdateState(m, f, x) ==
    \E md \in Loadable(m) :
        /\ SaveState(m, [FromMarkdown(m, md) EXCEPT ![f] = @ \union {x}])
        /\ editors' = editors \union {m}
        /\ diverged' = (diverged \/ md # text)
        /\ told' = [told EXCEPT ![f] = @ \union {x}]

\* A snapshot of a state that was loaded before, or of a new one.
SaveFullSnapshot(fresh) ==
    LET m == "SessionStateManager" IN
    /\ SaveState(m, IF fresh THEN Blank ELSE FromMarkdown(m, text))
    /\ editors' = editors \union {m}
    /\ diverged' = (diverged \/ fresh)
    /\ UNCHANGED told

\* The file is opened for writing, and the process dies.
SaveCut ==
    /\ text' = Blank /\ diverged' = TRUE
    /\ UNCHANGED <<texts, editors, told>>

KnownNext ==
    \/ \E m \in Managers, f \in StateFields, x \in Items : UpdateState(m, f, x)
    \/ \E fresh \in BOOLEAN : SaveFullSnapshot(fresh)
    \/ SaveCut

KnownSpec == KnownInit /\ [][KnownNext]_knownVars

-----------------------------------------------------------------------------

KnownTypeOK ==
    /\ text \in [StateFields -> SUBSET Items]
    /\ texts \subseteq [StateFields -> SUBSET Items] /\ Cardinality(texts) <= MaxTexts
    /\ editors \subseteq Managers /\ diverged \in BOOLEAN
    /\ told \in [StateFields -> SUBSET Items]

\* Whatever the two managers edit in turn: decisions stay in the file, and so do open
\* items as long as only SessionStateManager edits it, unless an edit began from another
\* text than the file.
ReadFieldsSurvive ==
    ~diverged => /\ told.key_decisions \subseteq text.key_decisions
                 /\ "StateManager" \notin editors => told.todo_items \subseteq text.todo_items

\* Expected from "Incrementally update state fields": an update keeps the others.
UpdatesKeepFields == ~diverged => \A f \in {"key_decisions", "constraints"} : told[f] \subseteq text[f]
=============================================================================
