------------------------------ MODULE GitRepo ------------------------------
(***************************************************************************)
(* The Git repository that git-ots reads and writes, and the developer who *)
(* works in it at the same time: commits, the index, the working tree's    *)
(* proof directory, annotated timestamp tags and the wall clock; the       *)
(* read-only queries of git.py over them, and its index and commit         *)
(* primitives.                                                             *)
(*                                                                         *)
(* Commits are numbered in the order they are made, which is also the      *)
(* order git log lists them in (committer dates never decrease here).  A   *)
(* commit carries its ancestor set, itself included.  Of a tree only the   *)
(* proof directory is kept.                                                *)
(*                                                                         *)
(* A Stamp is what a manifest, a tag annotation and a calendar submission  *)
(* have in common: the source commit, the submission time and the trigger  *)
(* set.  A Store is the proof directory as it stands in a tree, in the     *)
(* index or in the working tree: the sources whose .ots proof is there and *)
(* the manifests that are there.  Files are written by rename, so a file   *)
(* that exists is complete and bound to the source in its name.            *)
(***************************************************************************)
EXTENDS TriggerPolicy, Sequences

CONSTANTS
    Sha(_),         \* a commit's object id as a number: its order is arbitrary
    DevActions,     \* what the developer may do in this instance
    MaxDev,         \* bound on the number of developer actions
    MaxTime         \* bound on the clock

ASSUME RepoAssumption ==
    /\ MaxDev \in Nat
    /\ MaxTime \in Nat
    \* DevMerge keeps every file of either side, so it knows no deletions.
    /\ ~({"merge", "drop"} \subseteq DevActions)

Stamp == [src : Nat, at : Nat, trig : SUBSET Triggers]

ASSUME AbsentStamp == None \notin Stamp

VARIABLES
    history,        \* the commits ever made, oldest first
    head,           \* the commit HEAD names
    index,          \* the proof directory in the index
    work,           \* the proof directory in the working tree
    tags,           \* the timestamp tags, by their annotations
    now,            \* the wall clock
    devs            \* developer actions so far

repoVars == <<history, head, index, work, tags, now, devs>>

Store == [ots : SUBSET Nat, json : SUBSET Stamp]

CommitInfo == [anc : SUBSET Nat, generated : BOOLEAN, claims : SUBSET Nat,
               time : Nat, tree : Store]

RepoTypeOK ==
    /\ history \in Seq(CommitInfo)
    /\ head \in DOMAIN history
    /\ index \in Store
    /\ work \in Store
    /\ tags \subseteq Stamp
    /\ now \in Nat
    /\ devs \in Nat

EmptyStore == [ots |-> {}, json |-> {}]

RepoInit ==
    /\ history = <<[anc |-> {1}, generated |-> FALSE, claims |-> {},
                    time |-> 0, tree |-> EmptyStore]>>
    /\ head = 1
    /\ index = EmptyStore
    /\ work = EmptyStore
    /\ tags = {}
    /\ now = 0
    /\ devs = 0

-----------------------------------------------------------------------------
(* Stores *)

Described(store) == {m.src : m \in store.json}

(* A complete proof and manifest pair for c. *)
HasPair(store, c) == c \in store.ots /\ c \in Described(store)

ManifestOf(store, c) == CHOOSE m \in store.json : m.src = c

(* store with the files of the sources S replaced by those of from. *)
Put(store, from, S) ==
    [ots  |-> (store.ots \ S) \cup (from.ots \cap S),
     json |-> {m \in store.json : m.src \notin S}
                \cup {m \in from.json : m.src \in S}]

-----------------------------------------------------------------------------
(* Queries: git.py *)

(* Every commit ever made: Git's object store keeps the unreachable ones too. *)
Commits == DOMAIN history

Anc(c) == history[c].anc

Tree(c) == history[c].tree

IsGenerated(c) == history[c].generated

TaggedSources == {t.src : t \in tags}

GeneratedAncestors(src) == {c \in Anc(src) : IsGenerated(c)}

(* filter_pending_meaningful_commits: base..src without generated commits. *)
PendingMeaningful(src, base) ==
    {c \in Anc(src) : /\ ~IsGenerated(c)
                      /\ base = None \/ c \notin Anc(base)}

(* The generated commits of base..src that name c in a source trailer. *)
Claiming(c, src, base) ==
    {g \in GeneratedAncestors(src) : /\ c \in history[g].claims
                                     /\ base = None \/ g \notin Anc(base)}

(* read_committed_proof_evidence *)
CommittedEvidence(c, src) ==
    IF HasPair(Tree(src), c) THEN ManifestOf(Tree(src), c) ELSE None

(* Faulty: asks the index instead of HEAD's tree. *)
PathsAreStaged(S) == \A c \in S : HasPair(index, c)

(* paths_are_committed: every path exists in HEAD's tree, whatever it holds. *)
PathsAreCommitted(S) == \A c \in S : HasPair(Tree(head), c)

(* Faulty: the oldest tag on the lineage. *)
OldestTagBaseline(src) ==
    LET onLineage == {t \in tags : t.src \in Anc(src)}
        oldest    == {t \in onLineage : \A u \in onLineage : t.at <= u.at}
    IN  IF oldest = {} THEN None ELSE CHOOSE t \in oldest : TRUE

(* _find_tag_baseline: the newest tag on the lineage; object ids break ties. *)
TagBaseline(src) ==
    LET onLineage == {t \in tags : t.src \in Anc(src)}
        newest    == {t \in onLineage : \A u \in onLineage :
                          \/ t.at > u.at
                          \/ t.at = u.at /\ Sha(t.src) >= Sha(u.src)}
    IN  IF newest = {} THEN None ELSE CHOOSE t \in newest : TRUE

(* _find_proof_commit_baselines: the newest manifest in the frozen source's *)
(* tree whose source is on the lineage and whose proof is there; position   *)
(* in history breaks ties.  Needs a generated commit on the lineage.        *)
ProofCommitBaseline(src) ==
    LET found  == {m \in Tree(src).json : m.src \in Anc(src) \cap Tree(src).ots}
        newest == {m \in found : \A n \in found :
                       \/ m.at > n.at
                       \/ m.at = n.at /\ m.src >= n.src}
    IN  IF GeneratedAncestors(src) = {} \/ newest = {} THEN None
        ELSE CHOOSE m \in newest : TRUE

(* find_newest_relevant_baseline: the proof commit wins a tie. *)
Baseline(src) ==
    LET tag == TagBaseline(src)
        prf == ProofCommitBaseline(src)
    IN  IF tag = None THEN prf
        ELSE IF prf = None \/ tag.at > prf.at THEN tag
        ELSE prf

(* Tags exist, and none of them, nor any proof commit, is on the lineage. *)
HasAbandonedTags(src) == tags # {} /\ Baseline(src) = None

LastFixedTime(base) ==
    IF base = None THEN None
    ELSE IF "fixed_time" \in base.trig THEN base.at ELSE None

BaseSource(base) == IF base = None THEN None ELSE base.src

(* build_snapshot's decision for the source src at the policy clock t. *)
DecisionFor(src, t) ==
    LET base    == Baseline(src)
        pending == PendingMeaningful(src, BaseSource(base))
    IN  EvaluatePolicy({[id |-> c, time |-> history[c].time] : c \in pending},
                       base # None, LastFixedTime(base), t)

-----------------------------------------------------------------------------
(* Commit primitives *)

(* A new commit on the lineage ancestry, made the new HEAD. *)
NewCommit(ancestry, generated, claims, tree) ==
    /\ history' = Append(history,
           [anc |-> ancestry \cup {Len(history) + 1}, generated |-> generated,
            claims |-> claims, time |-> now, tree |-> tree])
    /\ head' = Len(history) + 1

(* Can `git add -- path...` name these sources' files?  Git refuses a path *)
(* that is neither in the working tree nor in the index.                   *)
PathsKnown(S) == \A c \in S : /\ c \in work.ots \cup index.ots
                              /\ c \in Described(work) \cup Described(index)

(* stage_paths *)
StagePaths(S) ==
    /\ PathsKnown(S)
    /\ index' = Put(index, work, S)

(* create_generated_proof_commit: `git commit -- path...` records only the *)
(* named paths on top of HEAD and leaves other staged files staged.  Git   *)
(* refuses a path that is neither in the index nor in HEAD, and a commit   *)
(* that would change nothing.                                              *)
CanCommit(S) ==
    /\ \A c \in S : /\ c \in index.ots \cup Tree(head).ots
                    /\ c \in Described(index) \cup Described(Tree(head))
    /\ Put(Tree(head), work, S) # Tree(head)

(* Faulty: the manifests are left out of the path list. *)
ProofCommitWithoutManifests(S) ==
    /\ CanCommit(S)
    /\ NewCommit(Anc(head), TRUE, S, Put(Tree(head), [work EXCEPT !.json = {}], S))
    /\ index' = Put(index, work, S)

(* Faulty: a source trailer for every proof in the directory. *)
ProofCommitClaimingAll(S) ==
    /\ CanCommit(S)
    /\ NewCommit(Anc(head), TRUE, work.ots, Put(Tree(head), work, S))
    /\ index' = Put(index, work, S)

GeneratedProofCommit(S) ==
    /\ CanCommit(S)
    /\ NewCommit(Anc(head), TRUE, S, Put(Tree(head), work, S))
    /\ index' = Put(index, work, S)

(* create_timestamp_tag: one tag name per source and submission time. *)
TagCollides(stamp) ==
    \E t \in tags : t.src = stamp.src /\ t.at = stamp.at /\ t # stamp

-----------------------------------------------------------------------------
(* The developer and the clock.  Nothing here takes the git-ots lock. *)

Dev(name) ==
    /\ name \in DevActions
    /\ devs < MaxDev
    /\ devs' = devs + 1
    /\ UNCHANGED <<tags, now>>

(* An ordinary commit; with all, `git add -A` first. *)
DevCommit ==
    /\ Dev("commit")
    /\ \E all \in BOOLEAN :
         LET staged == IF all THEN work ELSE index
         IN  /\ NewCommit(Anc(head), FALSE, {}, staged)
             /\ index' = staged
    /\ UNCHANGED work

(* `git commit --amend`: the tip is replaced and its message, trailers *)
(* included, is kept.                                                   *)
DevAmend ==
    /\ Dev("amend")
    /\ NewCommit(Anc(head) \ {head}, IsGenerated(head), history[head].claims, index)
    /\ UNCHANGED <<index, work>>

(* `git reset --hard c`: tracked files follow the target, untracked ones stay. *)
DevReset ==
    /\ Dev("reset")
    /\ \E c \in Commits \ {head} :
         LET left == [ots  |-> work.ots \ index.ots,
                      json |-> {m \in work.json : m.src \notin Described(index)}]
         IN  /\ head' = c
             /\ index' = Tree(c)
             /\ work' = [ots  |-> left.ots \cup Tree(c).ots,
                         json |-> {m \in left.json : m.src \notin Described(Tree(c))}
                                    \cup Tree(c).json]
    /\ UNCHANGED history

(* `git merge` of another lineage: files new on either side are kept, ours *)
(* wins where both sides have the file.  Git refuses when the index is     *)
(* dirty or an untracked file is in the way.                               *)
DevMerge ==
    /\ Dev("merge")
    /\ index = Tree(head)
    /\ \E c \in Commits :
         LET ours == Tree(head)
             gain == [ots  |-> Tree(c).ots \ ours.ots,
                      json |-> {m \in Tree(c).json : m.src \notin Described(ours)}]
             With(store) == [ots  |-> store.ots \cup gain.ots,
                             json |-> store.json \cup gain.json]
         IN  /\ c \notin Anc(head) /\ head \notin Anc(c)
             /\ gain.ots \cap work.ots = {}
             /\ Described(gain) \cap Described(work) = {}
             /\ NewCommit(Anc(head) \cup Anc(c), FALSE, {}, With(ours))
             /\ index' = With(ours)
             /\ work' = With(work)

(* `git rm` of one source's committed files, and a commit. *)
DevDrop ==
    /\ Dev("drop")
    /\ \E c \in index.ots \cap Described(index) :
         /\ index' = Put(index, EmptyStore, {c})
         /\ work' = Put(work, EmptyStore, {c})
         /\ NewCommit(Anc(head), FALSE, {}, index')

(* `git clean`: untracked files go. *)
DevClean ==
    /\ Dev("clean")
    /\ work' = [ots  |-> work.ots \cap index.ots,
                json |-> {m \in work.json : m.src \in Described(index)}]
    /\ work' # work
    /\ UNCHANGED <<history, head, index>>

Tick ==
    /\ now < MaxTime
    /\ now' = now + 1
    /\ UNCHANGED <<history, head, index, work, tags, devs>>
=============================================================================
