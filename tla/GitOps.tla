------------------------------- MODULE GitOps -------------------------------
(***************************************************************************)
(* gitops/engine.py: GitOpsEngine, and git_integration.py: GitIntegration, *)
(* two front ends to one repository.  A file is a version, 0 when it is    *)
(* not there; git itself is modelled by what its commands do to the        *)
(* commits, the branches, the index and the work tree.                     *)
(***************************************************************************)
EXTENDS Naturals, Sequences, FiniteSets, FiniteSetsExt

CONSTANTS
    GitFiles, Branches,
    FirstBranch,   \* the branch the repository starts with
    MaxVersions,   \* bound: contents a file is given by edits
    MaxCommits,    \* bound: commits
    MaxSnapshots   \* bound: snapshots in the log

ASSUME GitAssumption == FirstBranch \in Branches /\ MaxVersions \in Nat /\ MaxCommits \in Nat \ {0}

VARIABLES
    commits,    \* the commits made, in order: [tree, first parent, past]
    branches,   \* per branch the commit it is at, 0 when there is none
    current,    \* the branch that is checked out
    index, work,
    unmerged,   \* files in conflict
    merging,    \* the commit that is being merged, as a set
    snapshots   \* _snapshot_log: [commit, made], and the work tree it was taken of

gitVars == <<commits, branches, current, index, work, unmerged, merging, snapshots>>

\* What a file with conflict markers holds.
ConflictMarks == MaxVersions + 1
Trees == [GitFiles -> 0..ConflictMarks]
NoFiles == [f \in GitFiles |-> 0]

\* A repository with one commit, of no files.
GitInit ==
    /\ commits = <<[tree |-> NoFiles, first |-> 0, past |-> {}]>>
    /\ branches = [b \in Branches |-> IF b = FirstBranch THEN 1 ELSE 0]
    /\ current = FirstBranch
    /\ index = NoFiles /\ work = NoFiles
    /\ unmerged = {} /\ merging = {} /\ snapshots = <<>>

\* A commit and everything before it.
Past(c) == commits[c].past \union {c}

HeadCommit == branches[current]
HeadTree == commits[HeadCommit].tree
Dirty == work # index \/ index # HeadTree

\* Whoever works in the tree: the agent's tools, or a person.
Edit(f, v) ==
    /\ v # work[f] /\ work' = [work EXCEPT ![f] = v]
    /\ UNCHANGED <<commits, branches, current, index, unmerged, merging, snapshots>>

\* add, stage_file.
AddFile(f) ==
    /\ index' = [index EXCEPT ![f] = work[f]] /\ unmerged' = unmerged \ {f}
    /\ UNCHANGED <<commits, branches, current, work, merging, snapshots>>

\* Mutant: only files git knows of are staged (add -u).
AllStagedUntrackedLeft == [f \in GitFiles |-> IF index[f] = 0 THEN 0 ELSE work[f]]

\* add -A.
AllStaged == work

\* add_all, stage_all.
AddAll ==
    /\ index' = AllStaged /\ unmerged' = {}
    /\ UNCHANGED <<commits, branches, current, work, merging, snapshots>>

\* git commit of an index: refused while there are conflicts, or nothing to commit.
Committable(staged, conflicts) == conflicts = {} /\ (staged # HeadTree \/ merging # {})

CommitOf(staged) ==
    /\ commits' = Append(commits, [tree |-> staged, first |-> HeadCommit,
                                   past |-> UNION {Past(c) : c \in merging \union {HeadCommit}}])
    /\ branches' = [branches EXCEPT ![current] = Len(commits) + 1]
    /\ merging' = {}

\* commit_changes and commit of the engine: they stage the given files, or everything,
\* and commit what is staged, whoever staged it.  A hook may refuse, and then it stays
\* staged.
CommitChanges(files, refused) ==
    LET staged == IF files = {} THEN AllStaged
                  ELSE [f \in GitFiles |-> IF f \in files THEN work[f] ELSE index[f]]
        conflicts == IF files = {} THEN {} ELSE unmerged \ files
    IN
    /\ index' = staged /\ unmerged' = conflicts
    /\ IF Committable(staged, conflicts) /\ ~refused
       THEN Len(commits) < MaxCommits /\ CommitOf(staged)
       ELSE UNCHANGED <<commits, branches, merging>>
    /\ UNCHANGED <<current, work, snapshots>>

\* GitIntegration.commit stages nothing.
CommitStaged ==
    /\ Committable(index, unmerged) /\ Len(commits) < MaxCommits
    /\ CommitOf(index)
    /\ UNCHANGED <<current, index, work, unmerged, snapshots>>

\* create_snapshot: the exit code of the commit is not looked at; HEAD is recorded, be it
\* the new commit or the old.
CreateSnapshot(refused) ==
    LET ok == Committable(AllStaged, {}) /\ ~refused
        of(c) == [commit |-> c, of |-> work, made |-> ok \/ AllStaged = HeadTree]
    IN
    /\ Dirty \/ unmerged # {}
    /\ Len(snapshots) < MaxSnapshots
    /\ index' = AllStaged /\ unmerged' = {}
    /\ IF ok THEN /\ Len(commits) < MaxCommits /\ CommitOf(AllStaged)
                  /\ snapshots' = Append(snapshots, of(Len(commits) + 1))
       ELSE /\ snapshots' = Append(snapshots, of(HeadCommit))
            /\ UNCHANGED <<commits, branches, merging>>
    /\ UNCHANGED <<current, work>>

\* git checkout: what differs between the two commits is replaced, and must be clean.
Differs(c) == {f \in GitFiles : commits[c].tree[f] # HeadTree[f]}
CanMoveTo(c) == merging = {} /\ \A f \in Differs(c) : index[f] = HeadTree[f] /\ work[f] = index[f]
MoveTo(c) ==
    LET moved(tree) == [f \in GitFiles |-> IF f \in Differs(c) THEN commits[c].tree[f] ELSE tree[f]]
    IN  index' = moved(index) /\ work' = moved(work)

\* create_branch of the engine: checkout -b, from a branch or from where we are.
CreateBranch(b, base) ==
    /\ branches[b] = 0 /\ branches[base] # 0 /\ CanMoveTo(branches[base])
    /\ branches' = [branches EXCEPT ![b] = branches[base]] /\ current' = b
    /\ MoveTo(branches[base])
    /\ UNCHANGED <<commits, unmerged, merging, snapshots>>

\* GitIntegration.create_branch does not switch to it.
BranchOnly(b, base) ==
    /\ branches[b] = 0 /\ branches[base] # 0
    /\ branches' = [branches EXCEPT ![b] = branches[base]]
    /\ UNCHANGED <<commits, current, index, work, unmerged, merging, snapshots>>

SwitchBranch(b) ==
    /\ branches[b] # 0 /\ b # current /\ CanMoveTo(branches[b])
    /\ current' = b /\ MoveTo(branches[b])
    /\ UNCHANGED <<commits, branches, unmerged, merging, snapshots>>

\* merge --no-ff of two trees, against a commit both come from: what one side changed is
\* taken, what both changed differently is marked.
Merged(source, base) ==
    [f \in GitFiles |->
        LET ours == HeadTree[f]  theirs == commits[source].tree[f]  old == commits[base].tree[f]
        IN  IF theirs = old \/ theirs = ours THEN ours ELSE IF ours = old THEN theirs ELSE ConflictMarks]

\* merge_branch into where we are; a switch to the target before it (a SwitchBranch) may
\* have failed, and the merge is made all the same.  A conflict is reported as a failure
\* and left in the tree.
MergeBranch(b) ==
    LET source == branches[b]
        base   == Max(Past(source) \intersect Past(HeadCommit))
        result == Merged(source, base)
        touched == {f \in GitFiles : result[f] # HeadTree[f]}
        torn == {f \in touched : result[f] = ConflictMarks}
        placed(tree) == [f \in GitFiles |-> IF f \in touched THEN result[f] ELSE tree[f]]
    IN
    /\ source # 0 /\ source \notin Past(HeadCommit)
    /\ merging = {} /\ index = HeadTree /\ \A f \in touched : work[f] = index[f]
    /\ work' = placed(work)
    /\ index' = [f \in GitFiles |-> IF f \in torn THEN index[f] ELSE placed(index)[f]]
    /\ unmerged' = torn
    /\ IF torn = {}
       THEN /\ Len(commits) < MaxCommits
            /\ commits' = Append(commits, [tree |-> result, first |-> HeadCommit,
                                          past |-> Past(source) \union Past(HeadCommit)])
            /\ branches' = [branches EXCEPT ![current] = Len(commits) + 1]
            /\ UNCHANGED merging
       ELSE merging' = {source} /\ UNCHANGED <<commits, branches>>
    /\ UNCHANGED <<current, snapshots>>

\* delete_branch: -d wants it merged into where we are, -D does not.
DeleteBranch(b, force) ==
    /\ b # current /\ branches[b] # 0
    /\ force \/ branches[b] \in Past(HeadCommit)
    /\ branches' = [branches EXCEPT ![b] = 0]
    /\ UNCHANGED <<commits, current, index, work, unmerged, merging, snapshots>>

\* rollback of the engine, whatever "hard" says: to a commit, or to the one before HEAD,
\* which after a snapshot is the state before the snapshot.  Files git does not know stay.
\* The tool that calls it takes the result for a truth value, and it always is one.
ResetHard(c) ==
    LET tree == commits[c].tree IN
    /\ branches' = [branches EXCEPT ![current] = c]
    /\ index' = tree
    /\ work' = [f \in GitFiles |-> IF tree[f] = 0 /\ index[f] = 0 THEN work[f] ELSE tree[f]]
    /\ unmerged' = {} /\ merging' = {}
    /\ UNCHANGED <<commits, current, snapshots>>

Rollback(c) == c \in 1..Len(commits) /\ ResetHard(c)
RollbackOne == commits[HeadCommit].first # 0 /\ ResetHard(commits[HeadCommit].first)

\* GitIntegration.rollback with soft: only the branch moves.
ResetSoft(c) ==
    /\ c \in 1..Len(commits) /\ merging = {}
    /\ branches' = [branches EXCEPT ![current] = c]
    /\ UNCHANGED <<commits, current, index, work, unmerged, merging, snapshots>>

GitNext ==
    \/ \E f \in GitFiles, v \in 0..MaxVersions : Edit(f, v)
    \/ \E f \in GitFiles : AddFile(f)
    \/ AddAll \/ CommitStaged
    \/ \E fs \in SUBSET GitFiles, refused \in BOOLEAN : CommitChanges(fs, refused)
    \/ \E refused \in BOOLEAN : CreateSnapshot(refused)
    \/ \E b, base \in Branches : CreateBranch(b, base) \/ BranchOnly(b, base)
    \/ \E b \in Branches : SwitchBranch(b) \/ MergeBranch(b)
    \/ \E b \in Branches, force \in BOOLEAN : DeleteBranch(b, force)
    \/ \E c \in 1..MaxCommits : Rollback(c) \/ ResetSoft(c)
    \/ RollbackOne

GitSpec == GitInit /\ [][GitNext]_gitVars

-----------------------------------------------------------------------------

GitTypeOK ==
    /\ commits \in Seq([tree : Trees, first : 0..MaxCommits, past : SUBSET (1..MaxCommits)])
    /\ Len(commits) \in 1..MaxCommits
    /\ branches \in [Branches -> 0..Len(commits)] /\ current \in Branches
    /\ branches[current] # 0
    /\ index \in Trees /\ work \in Trees
    /\ unmerged \subseteq GitFiles /\ merging \subseteq 1..Len(commits)
    /\ snapshots \in Seq([commit : 1..Len(commits), of : Trees, made : BOOLEAN])

\* However branches, merges, resets and staging came before it: a snapshot whose commit
\* git did not refuse is of a commit that holds exactly the work tree it was taken of,
\* files git did not know included; and conflicts are only there while a merge is.
SnapshotsHold ==
    /\ \A i \in 1..Len(snapshots) :
           snapshots[i].made => commits[snapshots[i].commit].tree = snapshots[i].of
    /\ unmerged # {} => merging # {}
=============================================================================
