------------------------------- MODULE Skills -------------------------------
(***************************************************************************)
(* skills/: SkillRegistry, a table of skills with a SKILL.md file each,    *)
(* SkillManager, which creates, selects, runs and maintains them, and      *)
(* SkillExecutor, which runs the steps of one.  What two skills have in    *)
(* common (triggers, words, steps) is the topics they share; a name is a   *)
(* prefix and the words it was made from.                                  *)
(***************************************************************************)
EXTENDS Integers, Sequences, SequencesExt, FiniteSets, FiniteSetsExt, Functions, Selection

CONSTANTS
    Slugs,        \* what names are made from
    Subjects,     \* the sets of topics a new skill can be about
    Threshold,    \* similarity_threshold, in percent
    PruneAfter,   \* runs a skill is judged after
    MinRate,      \* min_success_rate, in percent
    MaxActive,    \* max_active_skills
    MaxSkills,    \* bound: skills ever created
    MaxUses,      \* bound: runs of one skill
    MaxTorn       \* bound: files a process died before, not yet repaired

ASSUME SkillAssumption ==
    {Threshold, PruneAfter, MinRate, MaxActive, MaxSkills, MaxUses, MaxTorn} \subseteq Nat

VARIABLES
    skills,    \* the table, last updated first
    files,     \* the names that have a SKILL.md
    torn,      \* the names whose row was changed by a process that died before the file
    running,   \* ids the selection that is executed has still to run
    newId      \* the id of the next skill

skillVars == <<skills, files, torn, running, newId>>

\* success_pattern_ and anti_pattern_ are one kind of prefix.
Kinds == {"", "pattern"}
SkillNames == Kinds \X Slugs

Skill(id, name, topics) ==
    [id |-> id, name |-> name, topics |-> topics, uses |-> 0, good |-> 0, rated |-> <<0, 0>>,
     active |-> TRUE, failed |-> FALSE, improved |-> FALSE]

SkillInit == skills = <<>> /\ files = {} /\ torn = {} /\ running = <<>> /\ newId = 1

Ids(table) == {s.id : s \in Range(table)}
Names(table) == {s.name : s \in Range(table)}
Row(table, id) == CHOOSE s \in Range(table) : s.id = id
Others(table, id) == Only(table, {s \in Range(table) : s.id # id})

\* update: the row is now the last updated.  Of the run counts nothing is written.
Updated(table, row) ==
    IF row.id \in Ids(table) THEN <<row>> \o Others(table, row.id) ELSE table

\* The row where it was.
InPlace(table, row) == [i \in 1..Len(table) |-> IF table[i].id = row.id THEN row ELSE table[i]]

\* What create, update and delete do to the file, after the commit; a process that dies
\* in between leaves the file as it was.
Dies(name) ==
    Cardinality(torn \union {name}) <= MaxTorn /\ files' = files /\ torn' = torn \union {name}
Wrote(name) == \/ files' = files \union {name} /\ torn' = torn \ {name}
               \/ name \notin files /\ Dies(name)

\* create: INSERT OR REPLACE, and a row of the same name makes way, whatever its id.
Create(name, topics) ==
    /\ newId <= MaxSkills /\ newId' = newId + 1
    /\ skills' = <<Skill(newId, name, topics)>> \o Only(skills, {s \in Range(skills) : s.name # name})
    /\ Wrote(name)
    /\ UNCHANGED running

\* create_skill: a known name is rewritten in place.
CreateSkill(slug, topics) ==
    LET name == <<"", slug>> IN
    IF name \in Names(skills)
    THEN LET row == CHOOSE s \in Range(skills) : s.name = name IN
         /\ skills' = Updated(skills, [row EXCEPT !.topics = topics])
         /\ Wrote(name) /\ UNCHANGED <<running, newId>>
    ELSE Create(name, topics)

\* _lesson_to_skill, _recommendation_to_skill and _pattern_to_skill: all look for the
\* name without a prefix, and a pattern is then created under the one with it.
FromReflection(prefix, slug, topics) ==
    /\ <<"", slug>> \notin Names(skills)
    /\ Create(<<prefix, slug>>, topics)

\* SkillExecutor.execute: the first step that fails ends it.  A step is "done", "failed",
\* or "malformed", which raises where nothing catches it.
FirstFailure(outcomes) == SelectInSeq(outcomes, LAMBDA o : o # "done")

\* _execute_step of a conditional and of a loop: the first step that fails ends it with a
\* failure, and without steps it is done.
Nested(outcomes) == IF FirstFailure(outcomes) = 0 THEN "done" ELSE "failed"

\* What a skill is about after an improvement: improve_skill replaces the fields it is
\* given, improve_from_reflection gives it the old ones and the new, and
\* improve_from_execution leaves them.
Improvements(row) == Subjects \union {row.topics \union s : s \in Subjects \union {{}}}

\* The three improvements: the history gets an entry, and so do the failures when the
\* run it learns from had one.
Improve(id, topics, outcomes) ==
    LET row == Row(skills, id)
        better == [row EXCEPT !.topics = topics, !.improved = TRUE,
                              !.failed = @ \/ FirstFailure(outcomes) # 0]
    IN
    /\ id \in Ids(skills) /\ topics \in Improvements(row) /\ better # row
    /\ skills' = Updated(skills, better) /\ Wrote(row.name)
    /\ UNCHANGED <<running, newId>>

\* delete: the row, then its file.
Delete(id) ==
    LET name == Row(skills, id).name IN
    /\ id \in Ids(skills) /\ skills' = Others(skills, id)
    /\ \/ files' = files \ {name} /\ torn' = torn \ {name}
       \/ Dies(name)
    /\ UNCHANGED <<running, newId>>

(***************************************************************************)
(* Selection and execution.                                                *)
(***************************************************************************)

\* select_skills: the active skills that match, the best first.
Select(chosen) ==
    /\ running = <<>> /\ chosen # {}
    /\ chosen \subseteq {s.id : s \in {r \in Range(skills) : r.active}}
    /\ \E order \in SetToAllKPermutations(chosen) : Len(order) = Cardinality(chosen) /\ running' = order
    /\ UNCHANGED <<skills, files, torn, newId>>

\* The executor reports failures in a result nobody looks at: only what is raised counts
\* as a failure of the skill.
Succeeded(outcomes) ==
    FirstFailure(outcomes) = 0 \/ outcomes[FirstFailure(outcomes)] # "malformed"

\* record_usage: the counts, then in a second statement the rate that follows from them.
RecordUsage(id, success) ==
    LET row == Row(skills, id)
        good == row.good + (IF success THEN 1 ELSE 0)
        used == [row EXCEPT !.uses = @ + 1, !.good = good, !.rated = <<good, row.uses + 1>>]
    IN  IF id \notin Ids(skills) THEN UNCHANGED skills
        ELSE row.uses < MaxUses /\ skills' = Updated(skills, used)

\* execute_selected, one skill of it: the selection goes on whatever became of it.
ExecuteSkill(outcomes) ==
    /\ running # <<>> /\ running' = Tail(running)
    /\ RecordUsage(Head(running), Succeeded(outcomes))
    /\ UNCHANGED <<files, torn, newId>>

\* A process that dies between the two statements, or anywhere in a run.
SkillCrash ==
    /\ running # <<>>
    /\ \/ skills' = skills
       \/ LET id == Head(running)  row == Row(skills, id) IN
          /\ id \in Ids(skills) /\ row.uses < MaxUses
          /\ \E good \in {0, 1} :
                skills' = InPlace(skills, [row EXCEPT !.uses = @ + 1, !.good = @ + good])
    /\ running' = <<>>
    /\ UNCHANGED <<files, torn, newId>>

(***************************************************************************)
(* Maintenance.                                                            *)
(***************************************************************************)

Similar(a, b) ==
    LET all == a.topics \union b.topics IN
    all # {} /\ 100 * Cardinality(a.topics \intersect b.topics) >= Threshold * Cardinality(all)

\* success_rate: 0 before the first run.  The order of the two rates.
RateBelow(a, b) ==
    LET n(r) == IF r[2] = 0 THEN 1 ELSE r[2] IN a.rated[1] * n(b.rated) < b.rated[1] * n(a.rated)
SameRate(a, b) == ~RateBelow(a, b) /\ ~RateBelow(b, a)
UsedMore(a, b) == a.uses > b.uses \/ (a.uses = b.uses /\ RateBelow(b, a))

Position(table, s) == SelectInSeq(table, LAMBDA r : r.id = s.id)

\* The primary of a group: used most, then the best, then the skill the group was formed
\* for and after it the one that comes first in the list.
Primary(table, a, duplicates) ==
    LET order(s) == IF s.id = a.id THEN 0 ELSE Position(table, s) IN
    CHOOSE p \in duplicates \union {a} :
        \A s \in (duplicates \union {a}) \ {p} :
            UsedMore(p, s) \/ (~UsedMore(s, p) /\ order(p) < order(s))

\* Mutant: a duplicate stays in the list and is grouped again, also as a primary.
DuplicatesAgain(table) ==
    LET group(a) ==
            LET duplicates == {b \in Range(table) \ {a} : Similar(a, b)}
                primary == Primary(table, a, duplicates)
            IN  [primary |-> primary.id,
                 rest |-> {s.id : s \in (duplicates \union {a}) \ {primary}}]
    IN  [i \in 1..Len(table) |-> group(table[i])]

\* find_duplicates: groups, in the order of the list; a duplicate is in no later group,
\* but a primary may be the duplicate of a later one.
Grouped(table, found, a) ==
    LET duplicates == {b \in Range(table) \ {a} : b.id \notin found.merged /\ Similar(a, b)}
        primary == Primary(table, a, duplicates)
        rest == {s.id : s \in (duplicates \union {a}) \ {primary}}
    IN  IF a.id \in found.merged \/ duplicates = {} THEN found
        ELSE [merged |-> found.merged \union rest,
              groups |-> Append(found.groups, [primary |-> primary.id, rest |-> rest])]
Duplicates(table) ==
    FoldLeft(LAMBDA found, a : Grouped(table, found, a), [merged |-> {}, groups |-> <<>>], table).groups

\* merge_duplicates: the primary gets the topics of its group, and the others go.  The
\* run counts are added up in memory, and update writes none of them.
TopicsOf(t, id) == IF id \in Ids(t) THEN Row(t, id).topics ELSE {}
MergeGroup(t, g) ==
    LET topics == UNION {TopicsOf(t, id) : id \in g.rest \union {g.primary}}
        kept == IF g.primary \in Ids(t)
                THEN Updated(t, [Row(t, g.primary) EXCEPT !.topics = topics]) ELSE t
    IN  Only(kept, {s \in Range(kept) : s.id \notin g.rest})
Merge(table, groups) == FoldLeft(MergeGroup, table, groups)

Active(table) == Only(table, {s \in Range(table) : s.active})
Deduplicated(table) == Merge(table, Duplicates(Active(table)))

\* prune_inactive_skills: those that fail too often, then the worst of the rest.
Archive(t, s) == Updated(t, [s EXCEPT !.active = FALSE])
Pruned(table) ==
    LET poor == {s \in Range(table) : /\ s.active /\ s.uses >= PruneAfter
                                      /\ 100 * s.rated[1] < MinRate * s.rated[2]}
        judged == FoldLeft(Archive, table, Only(table, poor))
        active == Active(judged)
        worse(a, b) == \/ RateBelow(a, b) \/ (SameRate(a, b) /\ a.uses < b.uses)
                       \/ (SameRate(a, b) /\ a.uses = b.uses /\ Position(active, a) < Position(active, b))
        excess == {s \in Range(active) :
                      Cardinality({b \in Range(active) : worse(b, s)}) < Len(active) - MaxActive}
    IN  FoldLeft(Archive, judged, Only(active, excess))

\* The skills that failed, and have no history yet.
ImproveOne(t, s) == Updated(t, [s EXCEPT !.improved = TRUE])
ImprovedAll(table) ==
    FoldLeft(ImproveOne, table, Only(table, {s \in Range(table) : s.active /\ s.failed /\ ~s.improved}))

\* Every row that was touched writes its file, every row that went takes its file along.
Maintain(table) ==
    /\ table # skills /\ skills' = table
    /\ LET touched == {s.name : s \in Range(table) \ Range(skills)}
           gone == Names(skills) \ Names(table)
       IN  files' = (files \union touched) \ gone /\ torn' = torn \ (touched \union gone)
    /\ UNCHANGED <<running, newId>>

Deduplicate == Maintain(Deduplicated(skills))
RunMaintenance == Maintain(ImprovedAll(Pruned(Deduplicated(skills))))

SkillNext ==
    \/ \E slug \in Slugs, topics \in Subjects :
          \/ CreateSkill(slug, topics)
          \/ \E prefix \in Kinds : FromReflection(prefix, slug, topics)
    \/ \E id \in Ids(skills) :
          \/ \E topics \in Improvements(Row(skills, id)), steps \in {<<"done">>, <<"failed">>} :
                Improve(id, topics, steps)
          \/ Delete(id)
    \/ \E chosen \in SUBSET Ids(skills) : Select(chosen)
    \/ \E steps \in {<<"malformed">>, <<"done", Nested(<<"done", "failed">>)>>} : ExecuteSkill(steps)
    \/ SkillCrash \/ Deduplicate \/ RunMaintenance

SkillSpec == SkillInit /\ [][SkillNext]_skillVars

-----------------------------------------------------------------------------
SkillTypeOK ==
    /\ \A s \in Range(skills) : /\ s.id \in 1..MaxSkills /\ s.name \in SkillNames
                                /\ s.good <= s.uses /\ s.uses <= MaxUses /\ s.active \in BOOLEAN
    /\ files \subseteq SkillNames /\ torn \subseteq SkillNames
    /\ newId \in 1..(MaxSkills + 1)
    /\ Cardinality(Ids(skills)) = Len(skills) /\ Cardinality(Names(skills)) = Len(skills)

\* A skill of the table has its SKILL.md and every SKILL.md its skill, but for those a
\* process died between: creation over an old name, merges and deletions included.
FilesFollowSkills == files \ torn = Names(skills) \ torn

\* Maintenance forgets no topic: what an active skill is about before, some skill is about
\* after, through groups that share skills and primaries that are merged in turn.
Topics(table) == UNION {s.topics : s \in Range(table)}
NothingForgotten == [][Deduplicate \/ RunMaintenance => Topics(skills) = Topics(skills)']_skillVars

\* registry.py:520: of the merged skills the usage stats are summed.
StatsAreSummed ==
    [][Deduplicate => MapThenSumSet(LAMBDA s : s.uses, Range(skills))
                      = MapThenSumSet(LAMBDA s : s.uses, Range(skills)')]_skillVars
=============================================================================
