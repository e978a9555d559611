---------------------------- MODULE MemoryTiers ----------------------------
(***************************************************************************)
(* memory/memory_system.py and memory/persistence.py: a tier is a list in  *)
(* memory and, but for the sensory one, a table on disk.  Every write to   *)
(* the disk is made best-effort, the two decay independently (memory when  *)
(* asked, disk in a thread), and a restart reads back the newest rows,     *)
(* newest first.  Entries are numbered in the order they were made.        *)
(***************************************************************************)
EXTENDS Integers, Sequences, FiniteSets, Selection

CONSTANTS
    Capacity,      \* per tier, as in DEFAULT_CONFIGS
    LoadLimit,     \* per tier on disk: rows read back
    MaxEntries,    \* bound: entries made
    MaxRestarts    \* bound: restarts of the process

Tiers == {"sensory", "working", "long_term", "procedural"}
OnDisk == Tiers \ {"sensory"}
Decays == {"sensory", "working"}

\* No more is read back than a tier holds.
ASSUME MemoryAssumption ==
    /\ Capacity \in [Tiers -> Nat \ {0}]
    /\ LoadLimit \in [OnDisk -> Nat] /\ \A t \in OnDisk : LoadLimit[t] <= Capacity[t]
    /\ MaxEntries \in Nat /\ MaxRestarts \in Nat

VARIABLES
    mem,       \* tiers: per tier its entries; disk: the rows; made: entries so far;
               \* split: history, what memory and disk were made to differ by
    expired,   \* entries whose expires_at has passed
    decaying,  \* the decay thread runs
    stopped,   \* its stop event is set, and is never cleared
    boots      \* restarts so far

memoryVars == <<mem, expired, decaying, stopped, boots>>

MemoryInit ==
    /\ mem = [tiers |-> [t \in Tiers |-> <<>>], disk |-> [t \in OnDisk |-> {}],
              made |-> 0, split |-> {}]
    /\ expired = {} /\ boots = 0
    /\ decaying = TRUE /\ stopped = FALSE

Room(m) == m.made < MaxEntries

\* Mutant: what makes room leaves memory only.
PrunedInMemory(m, t, done) ==
    IF Len(m.tiers[t]) < Capacity[t] THEN m
    ELSE LET excess == Len(m.tiers[t]) - Capacity[t] + 1 IN
         [m EXCEPT !.tiers[t] = SubSeq(@, excess + 1, Len(@))]

\* Mutant: room is made only once the tier is over its capacity.
PrunedTooLate(m, t, done) ==
    IF Len(m.tiers[t]) <= Capacity[t] THEN m
    ELSE LET excess == Len(m.tiers[t]) - Capacity[t]
             gone == Range(SubSeq(m.tiers[t], 1, excess))
             kept == [m EXCEPT !.tiers[t] = SubSeq(@, excess + 1, Len(@))]
         IN  IF t \notin OnDisk THEN kept ELSE [kept EXCEPT !.disk[t] = @ \ gone]

\* The front of the list makes room, in memory and, if that does not fail, on disk.
Pruned(m, t, done) ==
    IF Len(m.tiers[t]) < Capacity[t] THEN m
    ELSE LET excess == Len(m.tiers[t]) - Capacity[t] + 1
             gone == Range(SubSeq(m.tiers[t], 1, excess))
             kept == [m EXCEPT !.tiers[t] = SubSeq(@, excess + 1, Len(@))]
         IN  IF t \notin OnDisk THEN kept
             ELSE IF done THEN [kept EXCEPT !.disk[t] = @ \ gone]
             ELSE [kept EXCEPT !.split = @ \union {<<t, e>> : e \in gone}]

\* add: prune, append, save.  A save or a delete that fails is swallowed.
Added(m, t, pruned, saved) ==
    LET e == m.made + 1
        p == [Pruned(m, t, pruned) EXCEPT !.tiers[t] = Append(@, e), !.made = e]
    IN  IF t \notin OnDisk THEN p
        ELSE IF saved THEN [p EXCEPT !.disk[t] = @ \union {e}]
        ELSE [p EXCEPT !.split = @ \union {<<t, e>>}]

Kept == UNCHANGED <<expired, decaying, stopped, boots>>

\* add_long_term_memory, add_procedural_memory, and the others when nothing is passed on.
\* (A skill_id is put on the entry after it was saved: it never reaches the disk.)
Add(t, pruned, saved) == Room(mem) /\ mem' = Added(mem, t, pruned, saved) /\ Kept

\* An entry that draws enough attention, or is significant enough, is copied to the next
\* tier as a new one.
AddAndTransfer(t, pruned, saved) ==
    LET next == IF t = "sensory" THEN "working" ELSE "long_term" IN
    /\ t \in Decays /\ Room(mem) /\ Room(Added(mem, t, pruned, saved))
    /\ mem' = Added(Added(mem, t, pruned, saved), next, pruned, saved)
    /\ Kept

\* run_contemplation looks at what get_recent_long_term and the procedural tier return
\* and saves an insight, to the procedural tier when it found many.
Contemplate(t, pruned, saved) ==
    /\ t \in {"long_term", "procedural"}
    /\ mem.tiers["long_term"] # <<>> \/ mem.tiers["procedural"] # <<>>
    /\ Add(t, pruned, saved)

Expires(e) ==
    /\ e \in UNION {Range(mem.tiers[t]) : t \in Decays} \union mem.disk["working"]
    /\ expired' = expired \union {e}
    /\ UNCHANGED <<mem, decaying, stopped, boots>>

Marked(m, t, es) == [m EXCEPT !.split = @ \union {<<t, e>> : e \in es}]

\* decay_sensory and decay_working: in memory only.
DecayMemory(t) ==
    LET es == Range(mem.tiers[t]) \intersect expired IN
    /\ t \in Decays
    /\ mem' = Marked([mem EXCEPT !.tiers[t] = Only(@, Range(@) \ expired)], t, es)
    /\ UNCHANGED <<expired, decaying, stopped, boots>>

\* The thread, every 30 seconds: on disk only.
DecayDisk ==
    LET es == mem.disk["working"] \intersect expired IN
    /\ decaying
    /\ mem' = Marked([mem EXCEPT !.disk["working"] = @ \ es], "working", es)
    /\ UNCHANGED <<expired, decaying, stopped, boots>>

StopDecayScheduler ==
    /\ decaying' = FALSE /\ stopped' = TRUE
    /\ UNCHANGED <<mem, expired, boots>>

\* A thread that is started after a stop finds the event set, and ends.
StartDecayScheduler ==
    /\ decaying' = ~stopped
    /\ UNCHANGED <<mem, expired, stopped, boots>>

Newest(es, n) ==
    LET byAge == Only([k \in 1..MaxEntries |-> MaxEntries + 1 - k], es)
    IN  SubSeq(byAge, 1, IF Len(byAge) < n THEN Len(byAge) ELSE n)

\* A new MemorySystem on the same file reads tier after tier, expired rows as well.  The
\* first that cannot be read ends it with a warning: the rest start empty.
Loads == {{}, {"working"}, {"working", "long_term"}, OnDisk}

RestartMemory(loaded) ==
    LET read == [t \in Tiers |-> IF t \in loaded THEN Newest(mem.disk[t], LoadLimit[t]) ELSE <<>>]
        unread(t) == mem.disk[t] \ Range(read[t])
    IN
    /\ boots < MaxRestarts /\ boots' = boots + 1
    /\ mem' = [mem EXCEPT !.tiers = read,
                          !.split = {pair \in OnDisk \X (1..MaxEntries) : pair[2] \in unread(pair[1])}]
    /\ decaying' = TRUE /\ stopped' = FALSE
    /\ UNCHANGED expired

MemoryNext ==
    \/ \E t \in Tiers, pruned, saved \in BOOLEAN :
           Add(t, pruned, saved) \/ AddAndTransfer(t, pruned, saved) \/ Contemplate(t, pruned, saved)
    \/ \E e \in 1..MaxEntries : Expires(e)
    \/ \E t \in Decays : DecayMemory(t)
    \/ \E loaded \in Loads : RestartMemory(loaded)
    \/ DecayDisk \/ StopDecayScheduler \/ StartDecayScheduler

MemorySpec == MemoryInit /\ [][MemoryNext]_memoryVars

-----------------------------------------------------------------------------

MemoryTypeOK ==
    /\ \A t \in Tiers : mem.tiers[t] \in Seq(1..MaxEntries) /\ Len(mem.tiers[t]) <= Capacity[t]
    /\ mem.disk \in [OnDisk -> SUBSET (1..MaxEntries)]
    /\ mem.made \in 0..MaxEntries /\ mem.split \subseteq Tiers \X (1..MaxEntries)
    /\ expired \subseteq 1..MaxEntries
    /\ decaying \in BOOLEAN /\ stopped \in BOOLEAN /\ boots \in 0..MaxRestarts

\* Memory and disk hold the same entries of a tier, but for those that a failed write, a
\* decay on one side, or the limit or a failed read at a restart set apart: pruning, transfers and restarts
\* in any order make no other difference.
DiskFollowsMemory ==
    \A t \in OnDisk : \A e \in 1..MaxEntries :
        (e \in Range(mem.tiers[t])) # (e \in mem.disk[t]) => <<t, e>> \in mem.split

\* "Remove oldest entries to make room" (memory_system.py): what is kept of a tier is
\* never older than what was pruned from it, of the entries that were there together.
PrunesTheOldest ==
    [][\A t \in Tiers :
          boots' = boots /\ ~(\E e \in Range(mem.tiers[t]) : e \in expired) =>
              \A gone \in Range(mem.tiers[t]) \ Range(mem'.tiers[t]) :
                  \A kept \in Range(mem.tiers[t]) \intersect Range(mem'.tiers[t]) : gone < kept]_memoryVars
=============================================================================
