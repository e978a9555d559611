------------------------------- MODULE LoopGuard -------------------------------
(***************************************************************************)
(* runtime/loop_guard.py: ToolCallLoopGuard, which counts how often a tool *)
(* call is among the last ones, with the same arguments.                   *)
(***************************************************************************)
EXTENDS Integers, Sequences, FiniteSets

CONSTANTS
    GuardedCalls,     \* tool calls, as their name and the hash of their arguments
    window_size, warning_threshold, block_threshold,
    MaxGuarded        \* bound: calls recorded

ASSUME GuardAssumption ==
    /\ window_size \in Nat \ {0} /\ MaxGuarded \in Nat
    /\ warning_threshold \in 1..block_threshold /\ block_threshold \in 1..window_size

VARIABLES
    window,      \* _calls
    phase,       \* _phase
    recorded     \* every call recorded, since the guard is in use

guardVars == <<window, phase, recorded>>

GuardInit == window = <<>> /\ phase = "normal" /\ recorded = <<>>

\* Mutant: the window holds one call too many.
SlidLate(calls) == SubSeq(calls, IF Len(calls) > window_size + 1 THEN 2 ELSE 1, Len(calls))

Slid(calls) == SubSeq(calls, IF Len(calls) > window_size THEN 2 ELSE 1, Len(calls))
Identical(calls, c) == Cardinality({i \in 1..Len(calls) : calls[i] = c})

PhaseOf(count) == IF count >= block_threshold THEN "blocked"
                  ELSE IF count >= warning_threshold THEN "warning" ELSE "normal"

\* Mutant: a call is counted before it is in the window.
RecordCallAfter(c) ==
    /\ Len(recorded) < MaxGuarded
    /\ window' = Slid(Append(window, c)) /\ phase' = PhaseOf(Identical(window, c) + 1)
    /\ recorded' = Append(recorded, c)

\* record_call: the oldest call leaves the window before the identical ones are counted.
RecordCall(c) ==
    /\ Len(recorded) < MaxGuarded
    /\ window' = Slid(Append(window, c)) /\ phase' = PhaseOf(Identical(window', c))
    /\ recorded' = Append(recorded, c)

\* reset, and reset_guard.
ResetGuard == window' = <<>> /\ phase' = "normal" /\ recorded' = <<>>

GuardNext == (\E c \in GuardedCalls : RecordCall(c)) \/ ResetGuard
GuardSpec == GuardInit /\ [][GuardNext]_guardVars

-----------------------------------------------------------------------------
GuardTypeOK == Len(window) <= window_size /\ phase \in {"normal", "warning", "blocked"}

\* The phase says how often the last call is among the last window_size of all that were
\* recorded since the reset, the call itself included.
PhaseIsHonest ==
    LET n == Len(recorded)
        last == {i \in 1..n : i > n - window_size}
    IN  phase = IF n = 0 THEN "normal" ELSE PhaseOf(Cardinality({i \in last : recorded[i] = recorded[n]}))
=============================================================================
