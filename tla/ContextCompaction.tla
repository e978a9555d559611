--------------------------- MODULE ContextCompaction ---------------------------
(***************************************************************************)
(* What happens to a history that grows too long: context_curator.py       *)
(* watches its size, conversation_compressor.py replaces old events by     *)
(* summaries, and context_compactor.py builds four tiers from it or picks  *)
(* the messages that are close to a query.  A message has a role, a size   *)
(* in tokens, and matters or does not: it holds what must be preserved,    *)
(* and is what the query is about.                                         *)
(***************************************************************************)
EXTENDS Integers, Sequences, FiniteSetsExt, Functions, Selection

CONSTANTS
    Sizes,        \* tokens of a message
    MaxTokens,    \* max_tokens
    RecentTokens, \* recent_tokens
    RecentCount,  \* messages kept raw by the compactor: 10
    PerKind,      \* messages a summary quotes: 5
    TopK,         \* top_k
    MaxHistory,   \* bound: messages
    MaxResults    \* bound: results kept of each kind

ASSUME CompactionAssumption ==
    /\ Sizes \subseteq Nat \ {0}
    /\ {MaxTokens, RecentTokens, RecentCount, PerKind, TopK, MaxHistory, MaxResults} \subseteq Nat

VARIABLES
    messages,    \* the history
    used,        \* _current_tokens, as recorded last
    snapshots,   \* what the curator's snapshots said
    tiers,       \* the messages in each tier of the last compaction
    compactions, \* compaction_history
    cache,       \* messages whose embedding is cached
    result       \* what the last call of compress or semantic_compress returned

compactionVars == <<messages, used, snapshots, tiers, compactions, cache, result>>

Messages == [role : {"user", "assistant"}, size : Sizes, matters : BOOLEAN]
\* What of a message its embedding depends on.
Text(m) == <<m.role, m.matters>>
NoResult == [kept |-> <<>>, summaries |-> {}, trimmed |-> 0, relevant |-> {}, raised |-> FALSE]
NoTiers == [recent |-> {}, summary |-> {}, memory |-> {}]

CompactionInit ==
    /\ messages = <<>> /\ used = 0 /\ snapshots = <<>> /\ tiers = NoTiers /\ compactions = 0
    /\ cache = {} /\ result = NoResult

Before(history, i) == FoldLeft(LAMBDA n, m : n + m.size, 0, SubSeq(history, 1, i - 1))
Total(history) == Before(history, Len(history) + 1)

AddMessage(m) ==
    /\ Len(messages) < MaxHistory /\ messages' = Append(messages, m)
    /\ result' = NoResult
    /\ UNCHANGED <<used, snapshots, tiers, compactions, cache>>

(***************************************************************************)
(* ContextCurator.                                                         *)
(***************************************************************************)

RecordUsage ==
    /\ used' = Total(messages) /\ result' = NoResult
    /\ UNCHANGED <<messages, snapshots, tiers, compactions, cache>>

ShouldCompact == 4 * used > 3 * MaxTokens

\* get_snapshot, and get_context_status of the same usage.
UsageStatus ==
    LET percent == (100 * used) \div MaxTokens IN
    IF percent >= 95 THEN "critical" ELSE IF percent >= 85 THEN "compress"
    ELSE IF percent >= 75 THEN "checkpoint" ELSE IF percent >= 60 THEN "warning" ELSE "healthy"

GetSnapshot ==
    /\ Len(snapshots) < MaxResults
    /\ snapshots' = Append(snapshots, [compaction_needed |-> ShouldCompact, status |-> UsageStatus])
    /\ result' = NoResult
    /\ UNCHANGED <<messages, used, tiers, compactions, cache>>

(***************************************************************************)
(* ConversationCompressor.compress, on indices of the history.             *)
(***************************************************************************)

\* recent_start: the loop counts recent_tokens from the first event on, not from the last,
\* and what comes after them is kept.
Cut(history) == Max({1} \union {i \in 1..Len(history) : Before(history, i) < RecentTokens})

\* Mutant: the last group is forgotten.
RunsForgetLast(history, end) ==
    {r \in (1..end) \X (1..end) :
        LET same(i) == history[i].role = history[r[1]].role IN
        /\ r[1] <= r[2] /\ r[2] < end /\ \A i \in r[1]..r[2] : same(i)
        /\ r[1] = 1 \/ ~same(r[1] - 1)
        /\ ~same(r[2] + 1)}

\* _group_events: runs of one role and type; a later run replaces the one of its key.
Runs(history, end) ==
    {r \in (1..end) \X (1..end) :
        LET same(i) == history[i].role = history[r[1]].role IN
        /\ r[1] <= r[2] /\ \A i \in r[1]..r[2] : same(i)
        /\ r[1] = 1 \/ ~same(r[1] - 1)
        /\ r[2] = end \/ ~same(r[2] + 1)}
Groups(history, end) ==
    {r \in Runs(history, end) :
        ~\E later \in Runs(history, end) :
            later[1] > r[1] /\ history[later[1]].role = history[r[1]].role}

FirstOf(S, n) == {i \in S : Cardinality({j \in S : j < i}) < n}
Mattering(history, S) == {i \in S : history[i].matters}

\* _create_summary_events: an event for each group.
Summaries(history, end) == {[from |-> r[1], to |-> r[2]] : r \in Groups(history, end)}

\* _compress_old_events takes the text of a preserved element for a dictionary, which is an
\* AttributeError: a group that holds one is never summed up.
CannotBeSummed(history, end) == \E r \in Groups(history, end) : Mattering(history, r[1]..r[2]) # {}

Span(a, b) == [i \in 1..(b - a + 1) |-> a + i - 1]

\* _trim_events: the first events that fit, and a note of where it stopped.
Trimmed(history, budget) ==
    LET fits == Max({0} \union {i \in 1..Len(history) : Before(history, i + 1) <= budget})
    IN  [NoResult EXCEPT !.kept = Span(1, fits), !.trimmed = Len(history) - fits]

Compressed(history, budget) ==
    LET cut == Cut(history) IN
    IF Total(history) <= budget THEN [NoResult EXCEPT !.kept = Span(1, Len(history))]
    ELSE IF cut = 1 THEN Trimmed(history, budget)
    ELSE IF CannotBeSummed(history, cut - 1) THEN [NoResult EXCEPT !.raised = TRUE]
    ELSE [NoResult EXCEPT !.kept = Span(cut, Len(history)), !.summaries = Summaries(history, cut - 1)]

Compress ==
    /\ result' = Compressed(messages, MaxTokens)
    /\ UNCHANGED <<messages, used, snapshots, tiers, compactions, cache>>

(***************************************************************************)
(* ContextCompactor.                                                       *)
(***************************************************************************)

\* compact_context: the last messages raw, of the older ones the first of each role, and
\* of all that are worth remembering the first.
CompactContext ==
    /\ used > MaxTokens /\ compactions < MaxResults /\ compactions' = compactions + 1
    /\ LET n == Len(messages)
           older == 1..(n - RecentCount)
           of(role) == {i \in older : messages[i].role = role}
       IN  tiers' = [recent |-> {i \in 1..n : i > n - RecentCount},
                     summary |-> FirstOf(of("user"), PerKind) \union FirstOf(of("assistant"), PerKind),
                     memory |-> FirstOf(Mattering(messages, 1..n), PerKind)]
    /\ result' = NoResult
    /\ UNCHANGED <<messages, used, snapshots, cache>>

\* The positions of the messages most similar to the query, ties in the order they are in.
MostRelevant(scores, k) ==
    {i \in 1..Len(scores) : Cardinality({j \in 1..Len(scores) :
        scores[j] > scores[i] \/ (scores[j] = scores[i] /\ j < i)}) < k}

\* semantic_compress: a message whose embedding fails has no vector, and the positions of
\* the vectors after it are taken for positions in the history.
SemanticCompress(queryUp, down) ==
    LET n == Len(messages)
        embedded == IF queryUp THEN {i \in 1..n : Text(messages[i]) \in cache \/ i \notin down} ELSE {}
        vectors == Only(Span(1, n), embedded)
        scores == [v \in 1..Len(vectors) |-> IF messages[vectors[v]].matters THEN 1 ELSE 0]
    IN
    /\ n > 0
    /\ result' = [NoResult EXCEPT !.relevant = IF embedded = {} THEN 1..n ELSE MostRelevant(scores, TopK)]
    /\ cache' = cache \union {Text(messages[i]) : i \in embedded}
    /\ UNCHANGED <<messages, used, snapshots, tiers, compactions>>

CompactionNext ==
    \/ \E m \in Messages : AddMessage(m)
    \/ RecordUsage \/ GetSnapshot \/ Compress \/ CompactContext
    \* One embedding fails, or none, or all.
    \/ \E queryUp \in BOOLEAN, i \in 0..Len(messages) :
          SemanticCompress(queryUp, {i}) \/ SemanticCompress(queryUp, 1..Len(messages))

CompactionSpec == CompactionInit /\ [][CompactionNext]_compactionVars

-----------------------------------------------------------------------------
CompactionTypeOK ==
    /\ Range(messages) \subseteq Messages /\ used \in Nat /\ Len(snapshots) <= MaxResults
    /\ tiers.recent \intersect tiers.summary = {}
    /\ compactions \in 0..MaxResults /\ cache \subseteq {Text(m) : m \in Messages}
    /\ result.relevant \subseteq 1..Len(messages)

\* Between the summaries and the events that are kept nothing falls out, when a compression
\* returns: the kept events begin where the last summary ends, and summaries overlap neither
\* them nor each other.
NoGapAtTheCut ==
    LET s == result.summaries IN
    /\ s # {} => result.kept[1] = Max({x.to : x \in s}) + 1 /\ Last(result.kept) = Len(messages)
    /\ \A x, y \in s : x # y => x.to < y.from \/ y.to < x.from

\* conversation_compressor.py:3: "Automatically summarizes older conversation messages while
\* preserving" decisions, code and errors.  A history that holds them can be compressed.
WhatMattersIsCompressed == ~result.raised

\* conversation_compressor.py:199: "Extract elements that must be preserved".  What must be
\* preserved is kept, or the call does not return as if it were.
PreservedSurvives ==
    result.kept # <<>> /\ result.trimmed = 0 =>
        Mattering(messages, 1..Len(messages)) \subseteq Range(result.kept)

\* conversation_compressor.py:323: events are trimmed from the beginning.
TrimmedFromTheBeginning ==
    result.trimmed > 0 /\ result.kept # <<>> => Last(result.kept) = Len(messages)

\* context_compactor.py: the messages that are close to the query are those that stay.
CloseStays ==
    result.relevant # {} =>
        \A i \in result.relevant, j \in 1..Len(messages) \ result.relevant : messages[j].matters => messages[i].matters
=============================================================================
