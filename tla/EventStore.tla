----------------------------- MODULE EventStore -----------------------------
(***************************************************************************)
(* store/event_store.py: the append-only table of events, its sequence     *)
(* numbers per session, its full-text index, and clients that page through *)
(* the events of a session.  Every operation opens a connection of its own *)
(* and is one transaction; the process may be restarted between any two.   *)
(***************************************************************************)
EXTENDS Naturals, Sequences, FiniteSets, Selection

CONSTANTS
    LogSessions,   \* session ids
    LogTypes,      \* types of events
    Page,          \* the limit a client reads with
    HardCap,       \* the cap of get_events, 10000 in the code
    MaxRows        \* bound: events inserted

ASSUME LogAssumption == Page \in Nat \ {0} /\ HardCap \in Nat \ {0} /\ MaxRows \in Nat \ {0}

VARIABLES
    rows,      \* table events, by id: [id, session, seq, type]
    lastId,    \* AUTOINCREMENT
    fts,       \* rowids in events_fts
    opened,    \* init was called in this process
    seen       \* history, per session: the seqs a paging client was given

logVars == <<rows, lastId, fts, opened, seen>>

\* What the table can hold.
EventRows == [id : 1..MaxRows, session : LogSessions, seq : 1..MaxRows, type : LogTypes]

Of(s) == Only(rows, {r \in EventRows : r.session = s})
Cursor(s) == IF seen[s] = <<>> THEN 0 ELSE Last(seen[s])

\* A database may hold events of a version that had no index.
LogInit ==
    /\ \E s \in LogSessions, ty \in LogTypes, old \in {0, 1} :
           /\ rows = IF old = 0 THEN <<>> ELSE <<[id |-> 1, session |-> s, seq |-> 1, type |-> ty]>>
           /\ lastId = old
    /\ fts = {} /\ opened = FALSE
    /\ seen = [s \in LogSessions |-> <<>>]

\* init, and after a restart again: an index with fewer entries than there are
\* events is dropped, and not filled.
EnsureDb ==
    /\ ~opened
    /\ opened' = TRUE
    /\ fts' = IF Cardinality(fts) < Len(rows) THEN {} ELSE fts
    /\ UNCHANGED <<rows, lastId, seen>>

\* Mutant: the number of the event follows from how many there are in all.
NextSeqOfAll(s) == Len(rows) + 1

\* COALESCE(MAX(seq), 0) + 1
NextSeq(s) == Max({0} \union {r.seq : r \in Range(Of(s))}) + 1

AppendEvent(s, ty) ==
    /\ opened /\ lastId < MaxRows
    /\ lastId' = lastId + 1
    /\ rows' = Append(rows, [id |-> lastId + 1, session |-> s, seq |-> NextSeq(s), type |-> ty])
    /\ fts' = fts \union {lastId + 1}
    /\ UNCHANGED <<opened, seen>>

\* Ordered by seq, the lowest first.
GetEvents(s, since, limit) ==
    LET after == Only(Of(s), {r \in EventRows : r.seq > since})
    IN SubSeq(after, 1, Min({limit, HardCap, Len(after)}))

\* A client reads on from the last event it has.
Poll(s) ==
    LET got == GetEvents(s, Cursor(s), Page) IN
    /\ opened /\ got # <<>>
    /\ seen' = [seen EXCEPT ![s] = @ \o [i \in DOMAIN got |-> got[i].seq]]
    /\ UNCHANGED <<rows, lastId, fts, opened>>

\* The rows are gone before their ids are selected for the index: it keeps them.
\* The client begins anew.
DeleteSession(s) ==
    /\ opened /\ Of(s) # <<>>
    /\ rows' = Only(rows, {r \in EventRows : r.session # s})
    /\ seen' = [seen EXCEPT ![s] = <<>>]
    /\ UNCHANGED <<lastId, fts, opened>>

\* The process ends and will start again; what was committed stays.
ProcessEnds ==
    /\ opened /\ opened' = FALSE
    /\ UNCHANGED <<rows, lastId, fts, seen>>

\* The join with events drops entries whose row is gone.
SearchEvents == {r \in Range(rows) : r.id \in fts}

LogNext ==
    \/ \E s \in LogSessions, ty \in LogTypes : AppendEvent(s, ty)
    \/ \E s \in LogSessions : Poll(s) \/ DeleteSession(s)
    \/ EnsureDb \/ ProcessEnds

LogSpec == LogInit /\ [][LogNext]_logVars

-----------------------------------------------------------------------------

LogTypeOK ==
    /\ rows \in Seq(EventRows)
    /\ lastId \in 0..MaxRows /\ fts \subseteq 1..lastId
    /\ opened \in BOOLEAN
    /\ seen \in [LogSessions -> Seq(1..MaxRows)]

\* Across restarts and deletions of other sessions, a client that pages through a
\* session with the last seq it has gets every event once, in order.
PagingMissesNothing ==
    \A s \in LogSessions :
        /\ \A i \in DOMAIN seen[s] : seen[s][i] = i
        /\ \A i \in DOMAIN Of(s) : Of(s)[i].seq = i
        /\ Len(seen[s]) <= Len(Of(s))
=============================================================================
