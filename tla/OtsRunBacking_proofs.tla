------------------------ MODULE OtsRunBacking_proofs ------------------------
(***************************************************************************)
(* Proofs that generated commits and timestamp tags are backed by what is  *)
(* in the repository, and about the ground the policy stands on, the       *)
(* newest stamp on the lineage of HEAD: for every set of invocations,      *)
(* every choice of faults and crash points, everything the developer does  *)
(* and every bound.                                                        *)
(*                                                                         *)
(*   ClaimsAreBacked  a generated commit holds what its trailers claim     *)
(*   TagsAreBacked    without repairs, some commit holds the artifacts of  *)
(*                    every tag's source                                   *)
(*   NothingReopened  no tag takes the baseline back behind a stamp, if    *)
(*                    submissions were made in the order of their sources  *)
(*   OccurrenceTaken  under fixed_time alone, a scheduled occurrence that  *)
(*                    is stamped on the lineage is not stamped again       *)
(*                                                                         *)
(* The first rests on Layered: HEAD's tree lies within the index and the   *)
(* index within the working tree.  The second rests on the first, since a  *)
(* missing tag is completed on the word of a claim, and on JobsBacked.     *)
(*                                                                         *)
(* The others need that the tags on a lineage, if there are any, have a    *)
(* newest one (NewestTag), which is what the object ids are for: they are  *)
(* ordered (IdsOrdered) and unique (IdsUnique).  NothingReopened compares  *)
(* the baseline with what it is with one tag more (OneMore) and rests on   *)
(* the truth of tags and manifests (StoresAttested) and on a lineage       *)
(* holding the lineages of its commits (Lineal), OccurrenceTaken on nobody *)
(* else tagging while a run is between its snapshot and its submission     *)
(* (OccurrenceOpen).                                                       *)
(***************************************************************************)
EXTENDS OtsRun_proofs, FiniteSetTheorems

-----------------------------------------------------------------------------
(* Stores *)

LEMMA WithinPairs ==
    ASSUME NEW a, NEW b, Within(a, b), NEW c, HasPair(a, c)
    PROVE  HasPair(b, c)
  BY DEF Within, HasPair

LEMMA WithinItself ==
    ASSUME NEW a PROVE Within(a, a)
  BY DEF Within

LEMMA WithinChain ==
    ASSUME NEW a, NEW b, NEW c, Within(a, b), Within(b, c)
    PROVE  Within(a, c)
  BY DEF Within

(* What Put replaces comes from the second store, the rest is kept. *)
LEMMA PutParts ==
    ASSUME NEW store, NEW from, NEW S
    PROVE  /\ Put(store, from, S).ots = (store.ots \ S) \cup (from.ots \cap S)
           /\ Described(Put(store, from, S)) =
                 (Described(store) \ S) \cup (Described(from) \cap S)
<1>1. Put(store, from, S).ots = (store.ots \ S) \cup (from.ots \cap S)
  BY DEF Put
<1>2. Put(store, from, S).json = {m \in store.json : m.src \notin S}
                                   \cup {m \in from.json : m.src \in S}
  BY DEF Put
<1>3. ASSUME NEW c
      PROVE  c \in Described(Put(store, from, S)) <=>
                c \in (Described(store) \ S) \cup (Described(from) \cap S)
  BY <1>2 DEF Described
<1>. QED  BY <1>1, <1>3

LEMMA PutWithin ==
    ASSUME NEW a, NEW b, Within(a, b), NEW from, NEW S
    PROVE  Within(Put(a, from, S), Put(b, from, S))
  BY PutParts DEF Within

LEMMA PutFromWithin ==
    ASSUME NEW a, NEW b, Within(a, b), NEW S
    PROVE  Within(Put(a, b, S), b)
  BY PutParts DEF Within

LEMMA WithinPut ==
    ASSUME NEW a, NEW b, NEW c, Within(a, b), Within(b, c), NEW S
    PROVE  Within(a, Put(b, c, S))
  BY PutParts DEF Within

(* A named source whose files are all there has its pair in the result. *)
LEMMA PutPairs ==
    ASSUME NEW store, NEW from, NEW S, NEW c \in S, HasPair(from, c)
    PROVE  HasPair(Put(store, from, S), c)
  BY PutParts DEF HasPair

-----------------------------------------------------------------------------
(* Commits *)

Backed == LineagesExist /\ Layered /\ ClaimsBacked

(* A new commit is HEAD and is what NewCommit made of it. *)
LEMMA NewCommitRecords ==
    ASSUME RepoTypeOK, NEW ancestry \in SUBSET Nat, NEW generated \in BOOLEAN,
           NEW claims \in SUBSET Nat, NEW tree \in Store,
           NewCommit(ancestry, generated, claims, tree)
    PROVE  /\ Commits' = Commits \cup {head'}
           /\ \A c \in Commits : c # head' /\ history'[c] = history[c]
           /\ history'[head'].anc = ancestry \cup {head'}
           /\ history'[head'].claims = claims
           /\ history'[head'].tree = tree
<1>. DEFINE info == [anc |-> ancestry \cup {Len(history) + 1}, generated |-> generated,
                     claims |-> claims, time |-> now, tree |-> tree]
<1>1. history \in Seq(CommitInfo) /\ Len(history) \in Nat
  BY DEF RepoTypeOK
<1>2. info \in CommitInfo
  <2>1. Len(history) + 1 \in Nat
    BY <1>1
  <2>2. ancestry \cup {Len(history) + 1} \in SUBSET Nat
    BY <2>1, Zenon
  <2>3. now \in Nat
    BY DEF RepoTypeOK
  <2>. QED  BY <2>2, <2>3, Zenon DEF CommitInfo
<1>3. history' = Append(history, info) /\ head' = Len(history) + 1
  BY DEF NewCommit
<1>4. info.anc = ancestry \cup {head'} /\ info.claims = claims /\ info.tree = tree
  BY <1>3
<1>. HIDE DEF info
<1>5. /\ Len(history') = Len(history) + 1
      /\ history' \in Seq(CommitInfo)
      /\ \A i \in 1..Len(history) : history'[i] = history[i]
      /\ history'[Len(history) + 1] = info
  BY <1>1, <1>2, <1>3, AppendedFacts
<1>6. Commits = 1..Len(history) /\ Commits' = 1..(Len(history) + 1)
  BY <1>1, <1>5 DEF Commits
<1>7. Commits' = Commits \cup {head'} /\ head' \notin Commits
  BY <1>1, <1>3, <1>6
<1>. QED  BY <1>3, <1>4, <1>5, <1>6, <1>7

(* A new commit on known ancestors keeps everything backed, if its tree    *)
(* holds what it claims and lies within the index, and that on disk.       *)
LEMMA NewCommitBacked ==
    ASSUME RepoTypeOK, Backed, NEW ancestry \in SUBSET Commits,
           NEW generated \in BOOLEAN, NEW claims \in SUBSET Nat, NEW tree \in Store,
           NewCommit(ancestry, generated, claims, tree),
           \A c \in claims : HasPair(tree, c),
           Within(tree, index'), Within(index', work')
    PROVE  Backed'
<1>1. ancestry \in SUBSET Nat
  BY DEF RepoTypeOK, Commits
<1>2. /\ Commits' = Commits \cup {head'}
      /\ \A c \in Commits : c # head' /\ history'[c] = history[c]
      /\ history'[head'].anc = ancestry \cup {head'}
      /\ history'[head'].claims = claims
      /\ history'[head'].tree = tree
  BY <1>1, NewCommitRecords
<1>3. LineagesExist'
  BY <1>2 DEF Backed, LineagesExist, Anc
<1>4. Layered'
  BY <1>2 DEF Layered, Tree
<1>5. ClaimsBacked'
  BY <1>2 DEF Backed, ClaimsBacked, Tree
<1>. QED  BY <1>3, <1>4, <1>5 DEF Backed

(* The developer's commits claim nothing. *)
LEMMA PlainCommitBacked ==
    ASSUME RepoTypeOK, Backed, NEW ancestry \in SUBSET Commits, NEW tree \in Store,
           NewCommit(ancestry, FALSE, {}, tree),
           index' = tree, Within(tree, work')
    PROVE  Backed'
<1>1. FALSE \in BOOLEAN /\ {} \in SUBSET Nat /\ \A c \in {} : HasPair(tree, c)
  OBVIOUS
<1>2. Within(tree, index') /\ Within(index', work')
  BY WithinItself
<1>. QED  BY <1>1, <1>2, NewCommitBacked, Zenon

(* Where no commit is made, only the layers matter. *)
LEMMA SameHistoryBacked ==
    ASSUME Backed, UNCHANGED history, Layered'
    PROVE  Backed'
  BY DEF Backed, LineagesExist, ClaimsBacked, Commits, Anc, Tree

LEMMA UntouchedBacked ==
    ASSUME Backed, UNCHANGED <<history, head, index, work>>
    PROVE  Backed'
  BY SameHistoryBacked DEF Backed, Layered, Tree

-----------------------------------------------------------------------------
(* The developer *)

(* Everything the developer does to tracked files, Git does to the index   *)
(* and to the working tree alike, and an amended commit keeps its claims   *)
(* and what the index still holds of them.                                 *)
LEMMA DevBacked ==
    ASSUME RepoTypeOK, Backed, DevStep
    PROVE  Backed'
<1>. USE DEF Dev
<1>1. /\ head \in Commits /\ index \in Store /\ work \in Store
      /\ \A c \in Commits : Anc(c) \in SUBSET Commits
      /\ Within(Tree(head), index) /\ Within(index, work)
  BY DEF RepoTypeOK, Commits, Backed, LineagesExist, Layered
<1>2. /\ Tree(head) \in Store /\ IsGenerated(head) \in BOOLEAN
      /\ history[head].claims \in SUBSET Nat
  BY <1>1, CommitFacts
<1>3. CASE DevCommit
  <2>1. PICK all \in BOOLEAN :
          /\ NewCommit(Anc(head), FALSE, {}, IF all THEN work ELSE index)
          /\ index' = IF all THEN work ELSE index
    BY <1>3 DEF DevCommit
  <2>2. work' = work
    BY <1>3 DEF DevCommit
  <2>3. CASE all
    <3>1. NewCommit(Anc(head), FALSE, {}, work) /\ index' = work
      BY <2>1, <2>3
    <3>. QED  BY <1>1, <2>2, <3>1, WithinItself, PlainCommitBacked
  <2>4. CASE ~all
    <3>1. NewCommit(Anc(head), FALSE, {}, index) /\ index' = index
      BY <2>1, <2>4
    <3>. QED  BY <1>1, <2>2, <3>1, WithinItself, PlainCommitBacked
  <2>. QED  BY <2>3, <2>4
<1>4. CASE DevAmend
  <2>1. /\ NewCommit(Anc(head) \ {head}, IsGenerated(head), history[head].claims, index)
        /\ UNCHANGED <<index, work>>
    BY <1>4 DEF DevAmend
  <2>2. Anc(head) \ {head} \in SUBSET Commits
    BY <1>1
  <2>3. \A c \in history[head].claims : HasPair(index, c)
    BY <1>1, WithinPairs DEF Backed, ClaimsBacked
  <2>. QED  BY <1>1, <1>2, <2>1, <2>2, <2>3, WithinItself, NewCommitBacked
<1>5. CASE DevReset
  <2>1. PICK c \in Commits :
          /\ head' = c
          /\ index' = Tree(c)
          /\ work'.ots = (work.ots \ index.ots) \cup Tree(c).ots
          /\ work'.json = {m \in {m \in work.json : m.src \notin Described(index)} :
                              m.src \notin Described(Tree(c))} \cup Tree(c).json
    BY <1>5 DEF DevReset
  <2>2. UNCHANGED history
    BY <1>5 DEF DevReset
  <2>3. Tree(head)' = Tree(c)
    BY <2>1, <2>2 DEF Tree
  <2>4. Within(Tree(c), work')
    BY <2>1 DEF Within, Described
  <2>5. Layered'
    BY <2>1, <2>3, <2>4, WithinItself DEF Layered
  <2>. QED  BY <2>2, <2>5, SameHistoryBacked
<1>6. CASE DevMerge
  <2>1. PICK c \in Commits :
          LET gain == [ots  |-> Tree(c).ots \ Tree(head).ots,
                       json |-> {m \in Tree(c).json : m.src \notin Described(Tree(head))}]
              With(store) == [ots  |-> store.ots \cup gain.ots,
                              json |-> store.json \cup gain.json]
          IN  /\ NewCommit(Anc(head) \cup Anc(c), FALSE, {}, With(Tree(head)))
              /\ index' = With(Tree(head))
              /\ work' = With(work)
    BY <1>6 DEF DevMerge
  <2>. DEFINE With(store) ==
         [ots  |-> store.ots \cup (Tree(c).ots \ Tree(head).ots),
          json |-> store.json \cup {m \in Tree(c).json : m.src \notin Described(Tree(head))}]
  <2>2. /\ NewCommit(Anc(head) \cup Anc(c), FALSE, {}, With(Tree(head)))
        /\ index' = With(Tree(head)) /\ work' = With(work)
    BY <2>1
  <2>3. /\ Tree(c).json \in SUBSET Stamp /\ Tree(c).ots \in SUBSET Nat
        /\ Anc(head) \cup Anc(c) \in SUBSET Commits
    BY <1>1, CommitFacts
  <2>4. With(Tree(head)) \in Store
    BY <1>2, <2>3 DEF Store
  <2>5. Within(Tree(head), work)
    BY <1>1, WithinChain
  <2>6. Within(With(Tree(head)), With(work))
    BY <2>5 DEF Within, Described
  <2>. HIDE DEF With
  <2>. QED  BY <2>2, <2>3, <2>4, <2>6, PlainCommitBacked
<1>7. CASE DevDrop
  <2>1. PICK c \in index.ots \cap Described(index) :
          /\ index' = Put(index, EmptyStore, {c})
          /\ work' = Put(work, EmptyStore, {c})
          /\ NewCommit(Anc(head), FALSE, {}, index')
    BY <1>7 DEF DevDrop
  <2>2. index' \in Store
    BY <1>1, <2>1, EmptyStoreType, PutFacts
  <2>3. Within(index', work')
    BY <1>1, <2>1, PutWithin
  <2>. QED  BY <1>1, <2>1, <2>2, <2>3, PlainCommitBacked
<1>8. CASE DevClean
  <2>1. /\ work'.ots = work.ots \cap index.ots
        /\ work'.json = {m \in work.json : m.src \in Described(index)}
        /\ UNCHANGED <<history, head, index>>
    BY <1>8 DEF DevClean
  <2>2. Within(index, work')
    <3>1. index.ots \subseteq work.ots /\ Described(index) \subseteq Described(work)
      BY <1>1 DEF Within
    <3>2. index.ots \subseteq work'.ots
      BY <2>1, <3>1
    <3>3. Described(index) \subseteq Described(work')
      BY <2>1, <3>1 DEF Described
    <3>4. QED
      BY <3>2, <3>3 DEF Within
  <2>3. Layered'
    BY <1>1, <2>1, <2>2 DEF Layered, Tree
  <2>. QED  BY <2>1, <2>3, SameHistoryBacked
<1>9. CASE Tick
  BY <1>9, UntouchedBacked DEF Tick
<1>. QED  BY <1>3, <1>4, <1>5, <1>6, <1>7, <1>8, <1>9 DEF DevStep

-----------------------------------------------------------------------------
(* Runs and repairs *)

(* A step of run() that writes files adds to the working tree. *)
LEMMA PersistBacked ==
    ASSUME Backed, NEW p \in Proc, PersistProof(p) \/ PersistManifest(p)
    PROVE  Backed'
<1>1. UNCHANGED <<history, head, index>> /\ Within(index, work)
  BY DEF PersistProof, PersistManifest, Backed, Layered
<1>2. work.ots \subseteq work'.ots /\ work.json \subseteq work'.json
  <2>1. CASE PersistProof(p)
    <3>1. \E S : work' = [work EXCEPT !.ots = @ \cup S]
      BY <2>1 DEF PersistProof
    <3>. QED  BY <3>1
  <2>2. CASE PersistManifest(p)
    <3>1. \E S : work' = [work EXCEPT !.json = @ \cup S]
      BY <2>2 DEF PersistManifest
    <3>. QED  BY <3>1
  <2>. QED  BY <2>1, <2>2
<1>3. Within(index, work')
  BY <1>1, <1>2 DEF Within, Described
<1>4. Layered'
  BY <1>1, <1>3 DEF Backed, Layered, Tree
<1>. QED  BY <1>1, <1>4, SameHistoryBacked

(* git add copies what is on disk, and HEAD's files are on disk. *)
LEMMA StageBacked ==
    ASSUME Backed, NEW p \in Proc, Stage(p)
    PROVE  Backed'
<1>. DEFINE S == job[p].done
<1>1. /\ UNCHANGED <<history, head, work>>
      /\ index' = Put(index, work, S)
  BY DEF Stage, StagePaths
<1>2. Within(Tree(head), index) /\ Within(index, work)
  BY DEF Backed, Layered
<1>3. Within(Tree(head), Put(index, work, S)) /\ Within(Put(index, work, S), work)
  BY <1>2, WithinPut, PutFromWithin
<1>4. Layered'
  BY <1>1, <1>3 DEF Layered, Tree
<1>. QED  BY <1>1, <1>4, SameHistoryBacked

(* git commit refuses a path it does not track; what it tracks is on disk, *)
(* and so in the commit.                                                   *)
LEMMA CommittedPairs ==
    ASSUME Backed, NEW S, CanCommit(S)
    PROVE  \A c \in S : HasPair(Put(Tree(head), work, S), c)
<1>. SUFFICES ASSUME NEW c \in S
              PROVE  HasPair(Put(Tree(head), work, S), c)
  OBVIOUS
<1>1. /\ c \in index.ots \cup Tree(head).ots
      /\ c \in Described(index) \cup Described(Tree(head))
  BY DEF CanCommit
<1>2. HasPair(work, c)
  BY <1>1 DEF Backed, Layered, Within, HasPair
<1>. QED  BY <1>2, PutPairs

LEMMA CommitBacked ==
    ASSUME TypeOK, Backed, NEW p \in Proc, Commit(p)
    PROVE  Backed'
<1>. DEFINE S == job[p].done
            tree == Put(Tree(head), work, S)
<1>1. /\ NewCommit(Anc(head), TRUE, S, tree)
      /\ index' = Put(index, work, S) /\ work' = work
      /\ CanCommit(S)
  BY DEF Commit, GeneratedProofCommit
<1>2. /\ RepoTypeOK /\ head \in Commits /\ S \in SUBSET Nat
      /\ work \in Store /\ Anc(head) \in SUBSET Commits
      /\ Within(Tree(head), index) /\ Within(index, work)
  BY JobFacts DEF TypeOK, RepoTypeOK, Commits, Backed, LineagesExist, Layered
<1>3. tree \in Store
  BY <1>2, CommitFacts, PutFacts
<1>4. \A c \in S : HasPair(tree, c)
  BY <1>1, CommittedPairs
<1>5. Within(tree, index') /\ Within(index', work')
  BY <1>1, <1>2, PutWithin, PutFromWithin
<1>. HIDE DEF S, tree
<1>6. TRUE \in BOOLEAN
  OBVIOUS
<1>. QED  BY <1>1, <1>2, <1>3, <1>4, <1>5, <1>6, NewCommitBacked

(* All other steps of a run or a repair leave files, index and commits alone. *)
LeavesFiles(p) ==
    \/ Acquire(p) \/ TakeSnapshot(p) \/ Scan(p)
    \/ AdoptLegacy(p) \/ BeginCompletion(p) \/ CompleteTag(p) \/ PassOver(p)
    \/ Recover(p) \/ BeginSubmit(p) \/ Submit(p) \/ SubmitFails(p)
    \/ FinishSelection(p) \/ CheckDurable(p) \/ TagNext(p)
    \/ AcquireForRepair(p) \/ Survey(p) \/ RepairPassesOver(p) \/ RepairTag(p)
    \/ Ending(p)

LEMMA LeavesFilesFacts ==
    ASSUME NEW p \in Proc, LeavesFiles(p)
    PROVE  UNCHANGED <<history, head, index, work>>
<1>1. CASE Ending(p)
  BY <1>1, EndingFacts DEF repoVars
<1>2. CASE ~Ending(p)
  BY <1>2 DEF LeavesFiles, repoVars, Acquire, TakeSnapshot, Scan, AdoptLegacy,
              BeginCompletion, CompleteTag, PassOver, Recover, BeginSubmit, Submit,
              SubmitFails, FinishSelection, CheckDurable, TagNext, AcquireForRepair,
              Survey, RepairPassesOver, RepairTag
<1>. QED  BY <1>1, <1>2

LEMMA ProcessSteps ==
    ASSUME NEW p \in Proc, Acquire(p) \/ AcquireForRepair(p) \/ Step(p) \/ Disturb(p)
    PROVE  \/ PersistProof(p) \/ PersistManifest(p) \/ Stage(p) \/ Commit(p)
           \/ LeavesFiles(p)
  BY DEF Step, Disturb, Ending, LeavesFiles

LEMMA BackedInit == Init => Backed
<1>. SUFFICES ASSUME Init PROVE Backed
  OBVIOUS
<1>1. /\ Commits = {1} /\ Anc(1) = {1} /\ head = 1
      /\ Tree(1) = EmptyStore /\ history[1].claims = {}
      /\ index = EmptyStore /\ work = EmptyStore
  BY DEF Init, RepoInit, Commits, Anc, Tree
<1>. QED  BY <1>1, WithinItself DEF Backed, LineagesExist, Layered, ClaimsBacked

LEMMA BackedNext == TypeOK /\ Backed /\ [Next]_vars => Backed'
<1>. SUFFICES ASSUME TypeOK, Backed, [Next]_vars PROVE Backed'
  OBVIOUS
<1>1. CASE \E p \in Proc : Acquire(p) \/ AcquireForRepair(p) \/ Step(p) \/ Disturb(p)
  <2>1. PICK p \in Proc : \/ PersistProof(p) \/ PersistManifest(p) \/ Stage(p)
                          \/ Commit(p) \/ LeavesFiles(p)
    BY <1>1, ProcessSteps
  <2>. QED  BY <2>1, PersistBacked, StageBacked, CommitBacked, LeavesFilesFacts,
               UntouchedBacked
<1>2. CASE DevStep
  BY <1>2, DevBacked DEF TypeOK
<1>3. CASE EnableProofCommit \/ UNCHANGED vars
  BY <1>3, UntouchedBacked DEF EnableProofCommit, vars, repoVars
<1>. QED  BY <1>1, <1>2, <1>3 DEF Next, DevStep

LEMMA BackedInvariant == Spec => []Backed
  BY TypeInvariant, BackedInit, BackedNext, PTL DEF Spec

(* Whatever is staged, amended, dropped, cleaned, reset or merged while a  *)
(* run is between its git add and its git commit, and however often runs   *)
(* are interrupted, a commit with the generated trailer holds the proof    *)
(* and the manifest of every source it claims.                             *)
THEOREM ClaimsAreBacked == Spec => []ClaimsBacked
<1>1. Backed => ClaimsBacked
  BY DEF Backed
<1>. QED  BY BackedInvariant, <1>1, PTL

-----------------------------------------------------------------------------
(* Tags: what is recorded in a commit stays recorded *)

LEMMA RecordedIs ==
    ASSUME NEW c
    PROVE  c \in Recorded <=> \E g \in Commits : HasPair(Tree(g), c)
  BY DEF Recorded, HasPair

LEMMA RecordedGrows ==
    ASSUME HistoryGrows
    PROVE  Recorded \subseteq Recorded'
  BY DEF HistoryGrows, Recorded, Tree, HasPair, Described

(* What one invocation's step has to establish for its own job. *)
LEMMA JobBackedStep ==
    ASSUME TypeOK, JobsBacked, Recorded \subseteq Recorded', NEW p \in Proc,
           NEW step, NEW j,
           pc' = [pc EXCEPT ![p] = step], job' = [job EXCEPT ![p] = j],
           JobBacked(j, step, Recorded')
    PROVE  JobsBacked'
<1>1. pc \in [Proc -> Steps] /\ job \in [Proc -> Job]
  BY DEF TypeOK
<1>2. ASSUME NEW q \in Proc PROVE JobBacked(job'[q], pc'[q], Recorded')
  <2>1. CASE q = p
    BY <1>1, <2>1
  <2>2. CASE q # p
    <3>1. pc'[q] = pc[q] /\ job'[q] = job[q]
      BY <1>1, <2>2
    <3>2. JobBacked(job[q], pc[q], Recorded)
      BY DEF JobsBacked
    <3>. QED  BY <3>1, <3>2 DEF JobBacked
  <2>. QED  BY <2>1, <2>2
<1>. QED  BY <1>2 DEF JobsBacked

Writing == {"stage", "commit", "tag"}

LEMMA NotWriting ==
    ASSUME NEW j, NEW step, step \notin Writing, NEW recorded
    PROVE  JobBacked(j, step, recorded)
  BY DEF JobBacked, Writing

LEMMA EndBacked ==
    ASSUME TypeOK, JobsBacked, Recorded \subseteq Recorded', NEW p \in Proc,
           NEW how, End(p, how)
    PROVE  JobsBacked'
<1>1. JobBacked(NoJob, "idle", Recorded')
  BY NotWriting DEF Writing
<1>. QED  BY <1>1, JobBackedStep DEF End

(* The steps before the artifacts are made durable, and those of a repair. *)
LEMMA EarlyBacked ==
    ASSUME TypeOK, JobsBacked, Recorded \subseteq Recorded', NEW p \in Proc,
           \/ Acquire(p) \/ TakeSnapshot(p) \/ Scan(p) \/ BeginCompletion(p)
           \/ PassOver(p) \/ Recover(p) \/ BeginSubmit(p) \/ Submit(p)
           \/ PersistProof(p) \/ PersistManifest(p) \/ FinishSelection(p)
           \/ AcquireForRepair(p) \/ Survey(p) \/ RepairPassesOver(p)
    PROVE  JobsBacked'
<1>1. pc \in [Proc -> Steps] /\ job \in [Proc -> Job]
  BY DEF TypeOK
<1>2. \E step : step \notin Writing /\ pc' = [pc EXCEPT ![p] = step]
  BY DEF Writing, Goto, Acquire, TakeSnapshot, Scan, BeginCompletion, PassOver,
         Recover, BeginSubmit, Submit, PersistProof, PersistManifest,
         FinishSelection, AcquireForRepair, Survey, RepairPassesOver
<1>3. \E j : job' = [job EXCEPT ![p] = j]
  <2>1. CASE BeginSubmit(p) \/ Submit(p) \/ PersistProof(p) \/ FinishSelection(p)
             \/ AcquireForRepair(p)
    <3>1. job' = job
      BY <2>1 DEF BeginSubmit, Submit, PersistProof, FinishSelection, AcquireForRepair
    <3>2. job' = [job EXCEPT ![p] = job[p]]
      BY <1>1, <3>1
    <3>. QED  BY <3>2
  <2>2. CASE Acquire(p)
    BY <2>2 DEF Acquire
  <2>3. CASE TakeSnapshot(p)
    BY <2>3 DEF TakeSnapshot
  <2>4. CASE Scan(p)
    BY <2>4 DEF Scan
  <2>5. CASE BeginCompletion(p)
    BY <2>5 DEF BeginCompletion
  <2>6. CASE PassOver(p)
    BY <2>6 DEF PassOver
  <2>7. CASE Recover(p)
    BY <2>7 DEF Recover
  <2>8. CASE PersistManifest(p)
    BY <2>8 DEF PersistManifest
  <2>9. CASE Survey(p)
    BY <2>9 DEF Survey
  <2>10. CASE RepairPassesOver(p)
    BY <2>10 DEF RepairPassesOver
  <2>. QED  BY <2>1, <2>2, <2>3, <2>4, <2>5, <2>6, <2>7, <2>8, <2>9, <2>10
<1>. QED  BY <1>2, <1>3, NotWriting, JobBackedStep

(* A tagging step of a completion or a repair stays where it is, or ends. *)
LEMMA TagOrFailBacked ==
    ASSUME TypeOK, JobsBacked, Recorded \subseteq Recorded', NEW p \in Proc,
           NEW stamp, NEW j, TagOrFail(p, stamp, j), JobBacked(j, pc[p], Recorded')
    PROVE  JobsBacked'
<1>1. CASE TagCollides(stamp)
  BY <1>1, EndBacked DEF TagOrFail
<1>2. CASE ~TagCollides(stamp)
  <2>1. job' = [job EXCEPT ![p] = j] /\ UNCHANGED pc
    BY <1>2 DEF TagOrFail
  <2>2. pc' = [pc EXCEPT ![p] = pc[p]]
    BY <2>1 DEF TypeOK
  <2>. QED  BY <2>1, <2>2, JobBackedStep
<1>. QED  BY <1>1, <1>2

LEMMA OtherTagsBacked ==
    ASSUME TypeOK, JobsBacked, Recorded \subseteq Recorded', NEW p \in Proc,
           CompleteTag(p) \/ RepairTag(p)
    PROVE  JobsBacked'
<1>1. pc[p] \notin Writing
  BY DEF CompleteTag, RepairTag, At, Writing
<1>2. \E stamp, j : TagOrFail(p, stamp, j)
  BY Zenon DEF CompleteTag, RepairTag
<1>. QED  BY <1>1, <1>2, NotWriting, TagOrFailBacked

(* The run commits what it will tag, or finds it committed. *)
LEMMA DurableBacked ==
    ASSUME TypeOK, JobsConsistent, Backed, JobsBacked, HistoryGrows, NEW p \in Proc,
           AdoptLegacy(p) \/ CheckDurable(p) \/ Stage(p) \/ Commit(p) \/ TagNext(p)
    PROVE  JobsBacked'
<1>1. /\ pc \in [Proc -> Steps] /\ job \in [Proc -> Job] /\ job[p] \in Job
      /\ head \in Commits /\ Recorded \subseteq Recorded'
      /\ JobBacked(job[p], pc[p], Recorded)
  BY RecordedGrows DEF TypeOK, RepoTypeOK, Commits, JobsBacked
<1>2. CASE AdoptLegacy(p)
  <2>. DEFINE j == [job[p] EXCEPT !.done = {job[p].base.src}]
  <2>1. /\ pc' = [pc EXCEPT ![p] = "stage"] /\ job' = [job EXCEPT ![p] = j]
        /\ job[p].todo = {}
    BY <1>2 DEF AdoptLegacy, Goto, At, JobsConsistent
  <2>2. j.todo = {}
    BY <1>1, <2>1 DEF Job
  <2>. HIDE DEF j
  <2>3. JobBacked(j, "stage", Recorded')
    BY <2>2 DEF JobBacked
  <2>. QED  BY <1>1, <2>1, <2>3, JobBackedStep
<1>3. CASE CheckDurable(p)
  <2>. DEFINE j == [job[p] EXCEPT !.todo = job[p].done]
  <2>1. /\ job' = [job EXCEPT ![p] = j]
        /\ pc' = [pc EXCEPT ![p] =
                     IF job[p].keep /\ ~PathsAreCommitted(job[p].done) THEN "stage"
                     ELSE "tag"]
    BY <1>3 DEF CheckDurable, Goto
  <2>2. j.todo = job[p].done /\ j.done = job[p].done /\ j.keep = job[p].keep
    BY <1>1 DEF Job
  <2>. HIDE DEF j
  <2>3. CASE job[p].keep /\ ~PathsAreCommitted(job[p].done)
    <3>1. pc' = [pc EXCEPT ![p] = "stage"]
      BY <2>1, <2>3
    <3>2. JobBacked(j, "stage", Recorded')
      BY <2>2 DEF JobBacked
    <3>. QED  BY <1>1, <2>1, <3>1, <3>2, JobBackedStep
  <2>4. CASE ~(job[p].keep /\ ~PathsAreCommitted(job[p].done))
    <3>1. pc' = [pc EXCEPT ![p] = "tag"]
      BY <2>1, <2>4
    <3>2. job[p].keep => job[p].done \subseteq Recorded
      BY <1>1, <2>4, RecordedIs DEF PathsAreCommitted
    <3>3. JobBacked(j, "tag", Recorded')
      BY <1>1, <2>2, <3>2 DEF JobBacked
    <3>. QED  BY <1>1, <2>1, <3>1, <3>3, JobBackedStep
  <2>. QED  BY <2>3, <2>4
<1>4. CASE Stage(p)
  <2>1. /\ pc' = [pc EXCEPT ![p] = "commit"] /\ job' = [job EXCEPT ![p] = job[p]]
        /\ pc[p] = "stage"
    BY <1>1, <1>4 DEF Stage, Goto, At
  <2>2. JobBacked(job[p], "commit", Recorded')
    BY <1>1, <2>1 DEF JobBacked
  <2>. QED  BY <1>1, <2>1, <2>2, JobBackedStep
<1>5. CASE Commit(p)
  <2>. DEFINE S == job[p].done
              tree == Put(Tree(head), work, S)
  <2>1. /\ pc' = [pc EXCEPT ![p] = "tag"] /\ job' = [job EXCEPT ![p] = job[p]]
        /\ pc[p] = "commit" /\ CanCommit(S)
        /\ NewCommit(Anc(head), TRUE, S, tree)
    BY <1>1, <1>5 DEF Commit, GeneratedProofCommit, Goto, At
  <2>2. /\ RepoTypeOK /\ S \in SUBSET Nat /\ Anc(head) \in SUBSET Nat
        /\ tree \in Store /\ TRUE \in BOOLEAN
    BY <1>1, JobFacts, CommitFacts, PutFacts DEF TypeOK, RepoTypeOK
  <2>3. \A c \in S : HasPair(tree, c)
    BY <2>1, CommittedPairs
  <2>. HIDE DEF tree
  <2>4. head' \in Commits' /\ Tree(head)' = tree
    BY <2>1, <2>2, NewCommitRecords DEF Tree
  <2>5. S \subseteq Recorded'
    <3>1. ASSUME NEW c \in S
          PROVE  c \in Recorded'
      <4>1. HasPair(Tree(head)', c)
        BY <2>3, <2>4
      <4>. QED  BY <2>4, <4>1 DEF Recorded, Tree, HasPair, Described
    <3>. QED  BY <3>1
  <2>6. JobBacked(job[p], "tag", Recorded')
    BY <1>1, <2>1, <2>5 DEF JobBacked
  <2>. QED  BY <1>1, <2>1, <2>6, JobBackedStep
<1>6. CASE TagNext(p)
  <2>. DEFINE c == Min(job[p].todo)
              s == StampOf(job[p], c)
              j == [job[p] EXCEPT !.todo = @ \ {c}]
  <2>1. TagOrFail(p, s, j) /\ pc[p] = "tag"
    BY <1>6 DEF TagNext, At
  <2>. HIDE DEF c, s
  <2>2. j.todo \subseteq job[p].todo /\ j.keep = job[p].keep
    BY <1>1 DEF Job
  <2>. HIDE DEF j
  <2>3. JobBacked(j, pc[p], Recorded')
    BY <1>1, <2>1, <2>2 DEF JobBacked
  <2>. QED  BY <1>1, <2>1, <2>3, TagOrFailBacked
<1>. QED  BY <1>2, <1>3, <1>4, <1>5, <1>6

LEMMA JobsBackedNext ==
    TypeOK /\ JobsConsistent /\ Backed /\ JobsBacked /\ [Next]_vars => JobsBacked'
<1>. SUFFICES ASSUME TypeOK, JobsConsistent, Backed, JobsBacked, [Next]_vars
              PROVE  JobsBacked'
  OBVIOUS
<1>1. HistoryGrows
  BY TypeStep DEF vars, repoVars, HistoryGrows, Commits
<1>2. Recorded \subseteq Recorded'
  BY <1>1, RecordedGrows
<1>3. CASE \E p \in Proc : Acquire(p) \/ AcquireForRepair(p) \/ Step(p) \/ Disturb(p)
  <2>1. PICK p \in Proc : Acquire(p) \/ AcquireForRepair(p) \/ Step(p) \/ Disturb(p)
    BY <1>3
  <2>2. CASE Ending(p) \/ SubmitFails(p)
    <3>1. \E how : End(p, how)
      BY <2>2, EndingFacts DEF SubmitFails
    <3>. QED  BY <1>2, <3>1, EndBacked
  <2>3. CASE \/ Acquire(p) \/ TakeSnapshot(p) \/ Scan(p) \/ BeginCompletion(p)
             \/ PassOver(p) \/ Recover(p) \/ BeginSubmit(p) \/ Submit(p)
             \/ PersistProof(p) \/ PersistManifest(p) \/ FinishSelection(p)
             \/ AcquireForRepair(p) \/ Survey(p) \/ RepairPassesOver(p)
    BY <1>2, <2>3, EarlyBacked
  <2>4. CASE CompleteTag(p) \/ RepairTag(p)
    BY <1>2, <2>4, OtherTagsBacked
  <2>5. CASE AdoptLegacy(p) \/ CheckDurable(p) \/ Stage(p) \/ Commit(p) \/ TagNext(p)
    BY <1>1, <2>5, DurableBacked
  <2>. QED  BY <2>1, <2>2, <2>3, <2>4, <2>5 DEF Step, Disturb, Ending
<1>4. CASE UNCHANGED <<pc, job>>
  BY <1>2, <1>4 DEF JobsBacked, JobBacked
<1>. QED  BY <1>3, <1>4 DEF Next, vars, runVars, EnableProofCommit

-----------------------------------------------------------------------------
(* Whether proofs are kept in commits is read once, with the lock. *)

LEMMA KeptStep ==
    ASSUME TypeOK, KeptThroughout, NEW p \in Proc, NEW step, NEW j,
           proofCommit' = proofCommit,
           pc' = [pc EXCEPT ![p] = step], job' = [job EXCEPT ![p] = j],
           \/ step \in {"idle", "survey", "repair"}
           \/ j.keep = job[p].keep /\ pc[p] \notin {"idle", "survey", "repair"}
           \/ j.keep = proofCommit
    PROVE  KeptThroughout'
<1>1. pc \in [Proc -> Steps] /\ job \in [Proc -> Job]
  BY DEF TypeOK
<1>. SUFFICES ASSUME ProofCommit
              PROVE  /\ proofCommit'
                     /\ \A q \in Proc : pc'[q] \notin {"idle", "survey", "repair"}
                                           => job'[q].keep
  BY DEF KeptThroughout
<1>2. /\ proofCommit
      /\ \A q \in Proc : pc[q] \notin {"idle", "survey", "repair"} => job[q].keep
  BY DEF KeptThroughout
<1>3. ASSUME NEW q \in Proc, q # p
      PROVE  pc'[q] = pc[q] /\ job'[q] = job[q]
  BY <1>1, <1>3
<1>4. pc'[p] = step /\ job'[p] = j
  BY <1>1
<1>. QED  BY <1>2, <1>3, <1>4

LEMMA KeptTagOrFail ==
    ASSUME TypeOK, KeptThroughout, NEW p \in Proc, pc[p] # "idle", NEW stamp, NEW j,
           TagOrFail(p, stamp, j), j.keep = job[p].keep
    PROVE  KeptThroughout'
<1>1. CASE TagCollides(stamp)
  BY <1>1, KeptStep DEF TagOrFail, End
<1>2. CASE ~TagCollides(stamp)
  <2>1. /\ job' = [job EXCEPT ![p] = j] /\ pc' = [pc EXCEPT ![p] = pc[p]]
        /\ proofCommit' = proofCommit
    BY <1>2 DEF TagOrFail, TypeOK
  <2>. QED  BY <2>1, KeptStep
<1>. QED  BY <1>1, <1>2

(* A step of run() that goes on leaves job.keep as it is. *)
LEMMA KeptGoing ==
    ASSUME TypeOK, KeptThroughout, NEW p \in Proc,
           \/ TakeSnapshot(p) \/ Scan(p) \/ AdoptLegacy(p) \/ BeginCompletion(p)
           \/ PassOver(p) \/ Recover(p) \/ BeginSubmit(p) \/ Submit(p)
           \/ PersistProof(p) \/ PersistManifest(p) \/ FinishSelection(p)
           \/ CheckDurable(p) \/ Stage(p) \/ Commit(p)
    PROVE  KeptThroughout'
<1>1. pc \in [Proc -> Steps] /\ job \in [Proc -> Job] /\ job[p] \in Job
  BY DEF TypeOK
<1>2. \E step : Goto(p, step)
  BY DEF TakeSnapshot, Scan, AdoptLegacy, BeginCompletion, PassOver, Recover,
         BeginSubmit, Submit, PersistProof, PersistManifest, FinishSelection,
         CheckDurable, Stage, Commit
<1>3. pc[p] \notin {"idle", "survey", "repair"}
  BY DEF At, TakeSnapshot, Scan, AdoptLegacy, BeginCompletion, PassOver, Recover,
         BeginSubmit, Submit, PersistProof, PersistManifest, FinishSelection,
         CheckDurable, Stage, Commit
<1>4. \E j : job' = [job EXCEPT ![p] = j] /\ j.keep = job[p].keep
  <2>1. CASE BeginSubmit(p) \/ Submit(p) \/ PersistProof(p) \/ FinishSelection(p)
             \/ Stage(p) \/ Commit(p)
    <3>1. job' = job
      BY <2>1 DEF BeginSubmit, Submit, PersistProof, FinishSelection, Stage, Commit
    <3>2. job' = [job EXCEPT ![p] = job[p]]
      BY <1>1, <3>1
    <3>. QED  BY <3>2
  <2>2. CASE TakeSnapshot(p)
    <3>. DEFINE base == Baseline(head)
                pend == PendingMeaningful(head, BaseSource(base))
                due  == DecisionFor(head, job[p].clock)
                j == [job[p] EXCEPT !.src = head, !.base = base, !.pending = pend,
                                    !.at = now, !.decision = due.commits,
                                    !.trig = due.trig]
    <3>1. job' = [job EXCEPT ![p] = j]
      BY <2>2 DEF TakeSnapshot
    <3>. HIDE DEF base, pend, due
    <3>2. j.keep = job[p].keep
      BY <1>1 DEF Job
    <3>. HIDE DEF j
    <3>. QED  BY <3>1, <3>2
  <2>3. CASE Scan(p)
    <3>. DEFINE fl   == InFlight(job[p].src, job[p].decision)
                todo == IF fl = {} THEN job[p].decision ELSE {}
                rec  == {m \in work.json : m.src \in fl}
                j == [job[p] EXCEPT !.inflight = fl, !.done = fl, !.todo = todo,
                                    !.rec = rec]
    <3>1. job' = [job EXCEPT ![p] = j]
      BY <2>3 DEF Scan
    <3>. HIDE DEF fl, todo, rec
    <3>2. j.keep = job[p].keep
      BY <1>1 DEF Job
    <3>. HIDE DEF j
    <3>. QED  BY <3>1, <3>2
  <2>4. CASE AdoptLegacy(p)
    <3>1. PICK a : job' = [job EXCEPT ![p] = [job[p] EXCEPT !.done = a]]
      BY <2>4 DEF AdoptLegacy
    <3>2. [job[p] EXCEPT !.done = a].keep = job[p].keep
      BY <1>1 DEF Job
    <3>. QED  BY <3>1, <3>2
  <2>5. CASE BeginCompletion(p) \/ PassOver(p) \/ CheckDurable(p)
    <3>1. PICK a : job' = [job EXCEPT ![p] = [job[p] EXCEPT !.todo = a]]
      BY <2>5, Zenon DEF BeginCompletion, PassOver, CheckDurable
    <3>2. [job[p] EXCEPT !.todo = a].keep = job[p].keep
      BY <1>1 DEF Job
    <3>. QED  BY <3>1, <3>2
  <2>6. CASE Recover(p)
    <3>1. PICK a, b, c :
             job' = [job EXCEPT ![p] = [job[p] EXCEPT !.todo = a, !.done = b, !.rec = c]]
      BY <2>6, Zenon DEF Recover
    <3>2. [job[p] EXCEPT !.todo = a, !.done = b, !.rec = c].keep = job[p].keep
      BY <1>1 DEF Job
    <3>. QED  BY <3>1, <3>2
  <2>7. CASE PersistManifest(p)
    <3>1. PICK a, b :
             job' = [job EXCEPT ![p] = [job[p] EXCEPT !.todo = a, !.done = b]]
      BY <2>7, Zenon DEF PersistManifest
    <3>2. [job[p] EXCEPT !.todo = a, !.done = b].keep = job[p].keep
      BY <1>1 DEF Job
    <3>. QED  BY <3>1, <3>2
  <2>. QED  BY <2>1, <2>2, <2>3, <2>4, <2>5, <2>6, <2>7
<1>. QED  BY <1>2, <1>3, <1>4, KeptStep DEF Goto

LEMMA KeptRest ==
    ASSUME TypeOK, KeptThroughout, NEW p \in Proc,
           \/ Acquire(p) \/ AcquireForRepair(p) \/ Survey(p) \/ RepairPassesOver(p)
           \/ CompleteTag(p) \/ TagNext(p) \/ RepairTag(p)
           \/ Ending(p) \/ SubmitFails(p)
    PROVE  KeptThroughout'
<1>1. pc \in [Proc -> Steps] /\ job \in [Proc -> Job] /\ job[p] \in Job
  BY DEF TypeOK
<1>2. CASE Acquire(p)
  <2>. DEFINE j == [job[p] EXCEPT !.clock = now, !.keep = proofCommit]
  <2>1. /\ pc' = [pc EXCEPT ![p] = "snapshot"] /\ job' = [job EXCEPT ![p] = j]
        /\ proofCommit' = proofCommit
    BY <1>1, <1>2 DEF Acquire
  <2>2. j.keep = proofCommit
    BY <1>1 DEF Job
  <2>. HIDE DEF j
  <2>. QED  BY <2>1, <2>2, KeptStep
<1>3. CASE AcquireForRepair(p)
  <2>1. /\ pc' = [pc EXCEPT ![p] = "survey"] /\ job' = [job EXCEPT ![p] = job[p]]
        /\ proofCommit' = proofCommit
    BY <1>1, <1>3 DEF AcquireForRepair
  <2>. QED  BY <2>1, KeptStep
<1>4. CASE Survey(p) \/ RepairPassesOver(p)
  <2>1. /\ pc' = [pc EXCEPT ![p] = "repair"] /\ proofCommit' = proofCommit
    BY <1>4 DEF Survey, RepairPassesOver, Goto
  <2>2. \E j : job' = [job EXCEPT ![p] = j]
    <3>1. CASE Survey(p)
      BY <3>1, Zenon DEF Survey
    <3>2. CASE RepairPassesOver(p)
      BY <3>2, Zenon DEF RepairPassesOver
    <3>. QED  BY <1>4, <3>1, <3>2
  <2>. QED  BY <2>1, <2>2, KeptStep
<1>5. CASE CompleteTag(p) \/ TagNext(p) \/ RepairTag(p)
  <2>1. PICK stamp, S, R : TagOrFail(p, stamp, [job[p] EXCEPT !.todo = S, !.rec = R])
                           \/ TagOrFail(p, stamp, [job[p] EXCEPT !.todo = S])
    BY <1>5, Zenon DEF CompleteTag, TagNext, RepairTag
  <2>2. /\ [job[p] EXCEPT !.todo = S, !.rec = R].keep = job[p].keep
        /\ [job[p] EXCEPT !.todo = S].keep = job[p].keep
    BY <1>1 DEF Job
  <2>3. pc[p] # "idle"
    BY <1>5 DEF CompleteTag, TagNext, RepairTag, At
  <2>. QED  BY <2>1, <2>2, <2>3, KeptTagOrFail
<1>6. CASE Ending(p) \/ SubmitFails(p)
  <2>1. \E how : End(p, how)
    BY <1>6, EndingFacts DEF SubmitFails
  <2>. QED  BY <2>1, KeptStep DEF End
<1>. QED  BY <1>2, <1>3, <1>4, <1>5, <1>6

LEMMA KeptNext == TypeOK /\ KeptThroughout /\ [Next]_vars => KeptThroughout'
<1>. SUFFICES ASSUME TypeOK, KeptThroughout, [Next]_vars PROVE KeptThroughout'
  OBVIOUS
<1>1. CASE \E p \in Proc : Acquire(p) \/ AcquireForRepair(p) \/ Step(p) \/ Disturb(p)
  BY <1>1, KeptGoing, KeptRest DEF Step, Disturb, Ending
<1>2. CASE EnableProofCommit
  BY <1>2 DEF EnableProofCommit, KeptThroughout
<1>3. CASE UNCHANGED runVars
  BY <1>3 DEF runVars, KeptThroughout
<1>. QED  BY <1>1, <1>2, <1>3 DEF Next, vars

-----------------------------------------------------------------------------
(* Tags without repairs *)

Repairing == \E p \in Proc : pc[p] \in {"survey", "repair"}

LEMMA NoRepairNext == TypeOK /\ ~Repairs /\ ~Repairing /\ [Next]_vars => ~Repairing'
<1>. SUFFICES ASSUME TypeOK, ~Repairs, ~Repairing, [Next]_vars PROVE ~Repairing'
  OBVIOUS
<1>1. pc \in [Proc -> Steps]
  BY DEF TypeOK
<1>2. ASSUME NEW p \in Proc, NEW step, step \notin {"survey", "repair"},
             pc' = [pc EXCEPT ![p] = step]
      PROVE  ~Repairing'
  BY <1>1, <1>2 DEF Repairing
<1>3. ASSUME NEW p \in Proc, NEW how, End(p, how)
      PROVE  ~Repairing'
  BY <1>2, <1>3 DEF End
<1>4. ASSUME NEW p \in Proc, NEW stamp, NEW j, TagOrFail(p, stamp, j)
      PROVE  ~Repairing'
  BY <1>3, <1>4 DEF TagOrFail, Repairing
<1>5. CASE \E p \in Proc : Acquire(p) \/ AcquireForRepair(p) \/ Step(p) \/ Disturb(p)
  <2>1. PICK p \in Proc : Acquire(p) \/ AcquireForRepair(p) \/ Step(p) \/ Disturb(p)
    BY <1>5
  <2>2. ~AcquireForRepair(p) /\ ~Survey(p) /\ ~RepairPassesOver(p) /\ ~RepairTag(p)
    BY DEF AcquireForRepair, Survey, RepairPassesOver, RepairTag, At, Repairing
  <2>3. CASE Ending(p) \/ SubmitFails(p)
    <3>1. \E how : End(p, how)
      BY <2>3, EndingFacts DEF SubmitFails
    <3>. QED  BY <1>3, <3>1
  <2>4. CASE CompleteTag(p) \/ TagNext(p)
    <3>1. \E stamp, j : TagOrFail(p, stamp, j)
      BY <2>4, Zenon DEF CompleteTag, TagNext
    <3>. QED  BY <1>4, <3>1
  <2>5. CASE \/ Acquire(p) \/ TakeSnapshot(p) \/ Scan(p) \/ AdoptLegacy(p)
             \/ BeginCompletion(p) \/ PassOver(p) \/ Recover(p) \/ BeginSubmit(p)
             \/ Submit(p) \/ PersistProof(p) \/ PersistManifest(p)
             \/ FinishSelection(p) \/ CheckDurable(p) \/ Stage(p) \/ Commit(p)
    <3>1. \E step : step \notin {"survey", "repair"} /\ pc' = [pc EXCEPT ![p] = step]
      BY <2>5 DEF Goto, Acquire, TakeSnapshot, Scan, AdoptLegacy, BeginCompletion,
                  PassOver, Recover, BeginSubmit, Submit, PersistProof,
                  PersistManifest, FinishSelection, CheckDurable, Stage, Commit
    <3>. QED  BY <1>2, <3>1
  <2>. QED  BY <2>1, <2>2, <2>3, <2>4, <2>5 DEF Step, Disturb, Ending
<1>6. CASE UNCHANGED pc
  BY <1>6 DEF Repairing
<1>. QED  BY <1>5, <1>6 DEF Next, vars, runVars, EnableProofCommit

TagsRecorded == ProofCommit => \A t \in tags : t.src \in Recorded

(* A completed tag has its evidence in the frozen source's tree, or a proof *)
(* commit claims its source and so holds its pair.                          *)
LEMMA CompletedRecorded ==
    ASSUME Backed, NEW j, j.src \in Commits, NEW c, CompletionEvidence(j, c) # None
    PROVE  CompletionEvidence(j, c).src = c /\ c \in Recorded
<1>1. CompletionEvidence(j, c).src = c
  BY EvidenceFacts
<1>2. CASE CommittedEvidence(c, j.src) # None
  <2>1. HasPair(Tree(j.src), c)
    BY <1>2 DEF CommittedEvidence
  <2>. QED  BY <1>1, <2>1, RecordedIs
<1>3. CASE CommittedEvidence(c, j.src) = None
  <2>1. CompletionClaims(j, c) # {}
    BY <1>3 DEF CompletionEvidence
  <2>2. PICK g \in Anc(j.src) : c \in history[g].claims
    BY <2>1 DEF CompletionClaims, Claiming, GeneratedAncestors
  <2>3. g \in Commits
    BY <2>2 DEF Backed, LineagesExist
  <2>4. HasPair(Tree(g), c)
    BY <2>2, <2>3 DEF Backed, ClaimsBacked
  <2>. QED  BY <1>1, <2>3, <2>4, RecordedIs
<1>. QED  BY <1>2, <1>3

LEMMA TaggingRecorded ==
    ASSUME TypeOK, JobsConsistent, Backed, JobsBacked, KeptThroughout, ProofCommit,
           NEW p \in Proc, CompleteTag(p) \/ TagNext(p)
    PROVE  \A t \in tags' \ tags : t.src \in Recorded
<1>1. CASE CompleteTag(p)
  <2>. DEFINE c == NextToComplete(job[p])
              m == CompletionEvidence(job[p], c)
  <2>1. m # None /\ job[p].src \in Commits /\ \E j : TagOrFail(p, m, j)
    BY <1>1 DEF CompleteTag, At, JobsConsistent
  <2>2. m.src \in Recorded
    BY <2>1, CompletedRecorded
  <2>3. tags' \subseteq tags \cup {m}
    BY <2>1 DEF TagOrFail
  <2>. QED  BY <2>2, <2>3
<1>2. CASE TagNext(p)
  <2>. DEFINE c == Min(job[p].todo)
              s == StampOf(job[p], c)
  <2>1. /\ pc[p] = "tag" /\ job[p].todo # {}
        /\ \E j : TagOrFail(p, s, j)
    BY <1>2 DEF TagNext, At
  <2>2. c \in job[p].todo
    BY <2>1, JobFacts, MinType
  <2>3. job[p].keep
    BY <2>1 DEF KeptThroughout
  <2>4. c \in Recorded
    BY <2>1, <2>2, <2>3 DEF JobsBacked, JobBacked
  <2>. HIDE DEF c
  <2>5. s.src = c
    BY StampOfFacts
  <2>6. tags' \subseteq tags \cup {s}
    BY <2>1 DEF TagOrFail
  <2>. QED  BY <2>4, <2>5, <2>6
<1>. QED  BY <1>1, <1>2

LEMMA TagsUntouched ==
    ASSUME [Next]_vars, ~ \E p \in Proc : CompleteTag(p) \/ TagNext(p) \/ RepairTag(p)
    PROVE  UNCHANGED tags
<1>1. CASE \E p \in Proc : Acquire(p) \/ AcquireForRepair(p) \/ Step(p) \/ Disturb(p)
  <2>1. PICK p \in Proc : Acquire(p) \/ AcquireForRepair(p) \/ Step(p) \/ Disturb(p)
    BY <1>1
  <2>2. CASE Ending(p)
    BY <2>2, EndingFacts DEF repoVars
  <2>3. CASE ~Ending(p)
    BY <2>1, <2>3 DEF Step, Disturb, Ending, repoVars, Acquire, AcquireForRepair,
       TakeSnapshot, Scan, AdoptLegacy, BeginCompletion, PassOver, Recover,
       BeginSubmit, Submit, SubmitFails, PersistProof, PersistManifest,
       FinishSelection, CheckDurable, Stage, Commit, Survey, RepairPassesOver
  <2>. QED  BY <2>2, <2>3
<1>2. CASE DevStep
  BY <1>2 DEF DevStep, DevCommit, DevAmend, DevReset, DevMerge, DevDrop, DevClean,
              Tick, Dev
<1>3. CASE EnableProofCommit \/ UNCHANGED vars
  BY <1>3 DEF EnableProofCommit, Dev, vars, repoVars
<1>. QED  BY <1>1, <1>2, <1>3 DEF Next, DevStep

LEMMA TagsRecordedNext ==
    /\ TypeOK /\ JobsConsistent /\ Backed /\ JobsBacked /\ KeptThroughout
    /\ ~Repairing /\ TagsRecorded /\ [Next]_vars
    => TagsRecorded'
<1>. SUFFICES ASSUME TypeOK, JobsConsistent, Backed, JobsBacked, KeptThroughout,
                     ~Repairing, TagsRecorded, [Next]_vars, ProofCommit
              PROVE  \A t \in tags' : t.src \in Recorded'
  BY DEF TagsRecorded
<1>1. HistoryGrows
  BY TypeStep DEF vars, repoVars, HistoryGrows, Commits
<1>2. Recorded \subseteq Recorded' /\ \A t \in tags : t.src \in Recorded
  BY <1>1, RecordedGrows DEF TagsRecorded
<1>3. CASE \E p \in Proc : CompleteTag(p) \/ TagNext(p) \/ RepairTag(p)
  <2>1. PICK p \in Proc : CompleteTag(p) \/ TagNext(p) \/ RepairTag(p)
    BY <1>3
  <2>2. ~RepairTag(p)
    BY DEF RepairTag, At, Repairing
  <2>3. \A t \in tags' \ tags : t.src \in Recorded
    BY <2>1, <2>2, TaggingRecorded
  <2>. QED  BY <1>2, <2>3
<1>4. CASE ~ \E p \in Proc : CompleteTag(p) \/ TagNext(p) \/ RepairTag(p)
  BY <1>2, <1>4, TagsUntouched
<1>. QED  BY <1>3, <1>4

(* With proof commits enabled and no repairs, some commit holds a proof    *)
(* and a manifest for the source of every timestamp tag, wherever HEAD     *)
(* jumps during a run: run() tags only what a commit of its own, a commit  *)
(* it finds, or the claim of one, vouches for.                             *)
THEOREM TagsAreBacked ==
    ASSUME ~Repairs
    PROVE  Spec => []TagsBacked
<1>1. Init => JobsBacked /\ KeptThroughout /\ ~Repairing /\ TagsRecorded
  BY NotWriting DEF Init, RepoInit, JobsBacked, KeptThroughout, Repairing,
                    TagsRecorded, Writing
<1>2. TypeOK /\ ~Repairing /\ [Next]_vars => ~Repairing'
  BY NoRepairNext
<1>3. TagsRecorded => TagsBacked
  BY RecordedIs DEF TagsRecorded, TagsBacked
<1>. QED  BY TypeInvariant, BackedInvariant, <1>1, JobsBackedNext, KeptNext, <1>2,
             TagsRecordedNext, <1>3, PTL DEF Spec

-----------------------------------------------------------------------------
(* Object ids are compared as numbers. *)
IdsOrdered == \A c \in Nat : Sha(c) \in Int

(* Different commits have different ids. *)
IdsUnique == \A c, d \in Nat : Sha(c) = Sha(d) => c = d

-----------------------------------------------------------------------------
(* The newest tag *)

(* A finite set that is not empty has an element that no other is above:   *)
(* one that has the least set of elements above it.                        *)
LEMMA SomeTop ==
    ASSUME NEW T, IsFiniteSet(T), T # {}, NEW R,
           \A x \in T : <<x, x>> \notin R,
           \A x, y, z \in T : <<x, y>> \in R /\ <<y, z>> \in R => <<x, z>> \in R
    PROVE  \E x \in T : \A y \in T : <<y, x>> \notin R
<1>. DEFINE Above(x) == {y \in T : <<y, x>> \in R}
            F == {Above(x) : x \in T}
<1>1. F \subseteq FiniteSubsetsOf(T) /\ F # {}
  <2>1. FiniteSubsetsOf(T) = SUBSET T
    BY FS_FiniteSubsetsOfFinite
  <2>2. PICK x \in T : TRUE
    OBVIOUS
  <2>3. Above(x) \in F
    OBVIOUS
  <2>4. ASSUME NEW a \in F PROVE a \in SUBSET T
    <3>1. PICK y \in T : a = Above(y)
      OBVIOUS
    <3>. QED  BY <3>1
  <2>. HIDE DEF F
  <2>5. F \subseteq SUBSET T
    BY <2>4
  <2>. QED  BY <2>1, <2>3, <2>5
<1>2. IsWellFoundedOn(StrictSubsetOrdering(T), FiniteSubsetsOf(T))
  BY FS_StrictSubsetOrderingWellFounded
<1>. HIDE DEF F
<1>3. PICK a \in F : \A b \in F : <<b, a>> \notin StrictSubsetOrdering(T)
  BY <1>1, <1>2, WFMin
<1>. USE DEF F
<1>4. PICK x \in T : a = Above(x)
  BY <1>3
<1>5. ASSUME NEW y \in T, <<y, x>> \in R
      PROVE  FALSE
  <2>1. Above(y) \in F
    OBVIOUS
  <2>2. Above(y) \subseteq Above(x)
    BY <1>5
  <2>3. Above(y) # Above(x)
    BY <1>5
  <2>4. <<Above(y), Above(x)>> \in StrictSubsetOrdering(T)
    BY <2>2, <2>3 DEF StrictSubsetOrdering
  <2>. QED  BY <1>3, <1>4, <2>1, <2>4
<1>. QED  BY <1>5

(* The newest of the tags T on the lineage lin, or None: TagBaseline with  *)
(* the tags and the lineage as parameters.                                 *)
NewestOf(T, lin) ==
    LET onLineage == {u \in T : u.src \in lin}
        newest    == {u \in onLineage : \A v \in onLineage :
                          \/ u.at > v.at
                          \/ u.at = v.at /\ Sha(u.src) >= Sha(v.src)}
    IN  IF newest = {} THEN None ELSE CHOOSE u \in newest : TRUE

(* If there are any, one of them is preferred to all others. *)
LEMMA NewestOfTop ==
    ASSUME IdsOrdered, NEW T, T \subseteq Stamp, IsFiniteSet(T), NEW lin,
           NEW t \in T, t.src \in lin
    PROVE  /\ NewestOf(T, lin) \in T
           /\ NewestOf(T, lin).src \in lin
           /\ \A v \in T : v.src \in lin =>
                 \/ NewestOf(T, lin).at > v.at
                 \/ /\ NewestOf(T, lin).at = v.at
                    /\ Sha(NewestOf(T, lin).src) >= Sha(v.src)
<1>. DEFINE onLineage == {u \in T : u.src \in lin}
            Newer(u, v) == u.at > v.at \/ (u.at = v.at /\ Sha(u.src) > Sha(v.src))
            R == {uv \in onLineage \X onLineage : Newer(uv[1], uv[2])}
            newest == {u \in onLineage : \A v \in onLineage :
                          \/ u.at > v.at
                          \/ u.at = v.at /\ Sha(u.src) >= Sha(v.src)}
<1>1. \A u \in onLineage : u.at \in Nat /\ Sha(u.src) \in Int
  BY DEF Stamp, IdsOrdered
<1>2. IsFiniteSet(onLineage) /\ t \in onLineage
  BY FS_Subset
<1>3. \A u, v \in onLineage : <<u, v>> \in R <=> Newer(u, v)
  OBVIOUS
<1>. HIDE DEF R, onLineage
<1>4. \A u \in onLineage : <<u, u>> \notin R
  BY <1>1, <1>3
<1>5. \A u, v, w \in onLineage : <<u, v>> \in R /\ <<v, w>> \in R => <<u, w>> \in R
  BY <1>1, <1>3
<1>6. PICK u \in onLineage : \A v \in onLineage : <<v, u>> \notin R
  BY <1>2, <1>4, <1>5, SomeTop
<1>7. u \in newest
  <2>1. ASSUME NEW v \in onLineage
        PROVE  u.at > v.at \/ (u.at = v.at /\ Sha(u.src) >= Sha(v.src))
    <3>1. ~(v.at > u.at) /\ ~(v.at = u.at /\ Sha(v.src) > Sha(u.src))
      BY <1>3, <1>6
    <3>2. u.at \in Nat /\ v.at \in Nat /\ Sha(u.src) \in Int /\ Sha(v.src) \in Int
      BY <1>1
    <3>. QED  BY <3>1, <3>2
  <2>. QED  BY <2>1
<1>8. NewestOf(T, lin) \in newest
  BY <1>7, Zenon DEF NewestOf, onLineage
<1>. HIDE DEF NewestOf
<1>. QED  BY <1>8 DEF onLineage

(* If the lineage of src has tags, the policy finds the newest of them. *)
LEMMA NewestTag ==
    ASSUME IdsOrdered, tags \subseteq Stamp, IsFiniteSet(tags), NEW src,
           NEW t \in tags, t.src \in Anc(src)
    PROVE  TagBaseline(src) \in tags /\ TagBaseline(src).at >= t.at
<1>1. TagBaseline(src) = NewestOf(tags, Anc(src))
  BY Zenon DEF TagBaseline, NewestOf
<1>2. /\ TagBaseline(src) \in tags
      /\ TagBaseline(src).at > t.at \/ TagBaseline(src).at = t.at
  BY <1>1, NewestOfTop
<1>3. TagBaseline(src).at \in Nat /\ t.at \in Nat
  BY <1>2 DEF Stamp
<1>. QED  BY <1>2, <1>3

(* Then there is a baseline, and it is at least as new. *)
LEMMA NewestBaseline ==
    ASSUME IdsOrdered, RepoTypeOK, IsFiniteSet(tags), NEW src \in Commits,
           NEW t \in tags, t.src \in Anc(src)
    PROVE  Baseline(src) # None /\ Baseline(src).at >= t.at
<1>1. /\ TagBaseline(src) \in Stamp /\ TagBaseline(src).at >= t.at
      /\ t \in Stamp
  BY NewestTag DEF RepoTypeOK
<1>2. ProofCommitBaseline(src) \in Stamp \cup {None}
  <2>1. ProofCommitBaseline(src) \in Tree(src).json \cup {None}
    BY Zenon DEF ProofCommitBaseline
  <2>. QED  BY <2>1, CommitFacts
<1>3. TagBaseline(src) # None /\ TagBaseline(src).at \in Nat /\ t.at \in Nat
  BY <1>1, AbsentStamp DEF Stamp
<1>4. CASE ProofCommitBaseline(src) = None
  BY <1>1, <1>3, <1>4 DEF Baseline
<1>5. CASE ProofCommitBaseline(src) # None
  <2>1. ProofCommitBaseline(src).at \in Nat
    BY <1>2, <1>5 DEF Stamp
  <2>. QED  BY <1>1, <1>3, <1>5, <2>1 DEF Baseline
<1>. QED  BY <1>4, <1>5

-----------------------------------------------------------------------------
(* Lineages *)

(* What a new commit may be put on top of. *)
Ancestries == {Anc(head), Anc(head) \ {head}} \cup {Anc(head) \cup Anc(c) : c \in Commits}

(* The developer commits what is in the index then, on top of HEAD, in its *)
(* place, or on top of two lineages.                                       *)
LEMMA DevCommits ==
    ASSUME RepoTypeOK, DevStep
    PROVE  \/ UNCHANGED history
           \/ \E ancestry \in Ancestries, generated \in BOOLEAN, claims \in SUBSET Nat :
                 NewCommit(ancestry, generated, claims, index')
<1>1. head \in Commits
  BY DEF RepoTypeOK, Commits
<1>2. /\ FALSE \in BOOLEAN /\ {} \in SUBSET Nat
      /\ IsGenerated(head) \in BOOLEAN /\ history[head].claims \in SUBSET Nat
  BY <1>1, CommitFacts
<1>3. CASE DevCommit
  <2>1. NewCommit(Anc(head), FALSE, {}, index')
    BY <1>3 DEF DevCommit
  <2>. QED  BY <1>2, <2>1 DEF Ancestries
<1>4. CASE DevAmend
  <2>1. NewCommit(Anc(head) \ {head}, IsGenerated(head), history[head].claims, index')
    BY <1>4 DEF DevAmend
  <2>. QED  BY <1>2, <2>1 DEF Ancestries
<1>5. CASE DevMerge
  <2>1. \E c \in Commits : NewCommit(Anc(head) \cup Anc(c), FALSE, {}, index')
    BY <1>5 DEF DevMerge
  <2>. QED  BY <1>2, <2>1 DEF Ancestries
<1>6. CASE DevDrop
  <2>1. NewCommit(Anc(head), FALSE, {}, index')
    BY <1>6 DEF DevDrop
  <2>. QED  BY <1>2, <2>1 DEF Ancestries
<1>7. CASE DevReset \/ DevClean \/ Tick
  BY <1>7 DEF DevReset, DevClean, Tick
<1>. QED  BY <1>3, <1>4, <1>5, <1>6, <1>7 DEF DevStep

(* A new commit on a closed set of commits keeps every lineage closed. *)
LEMMA LinealCommit ==
    ASSUME RepoTypeOK, Lineal, NEW ancestry \in SUBSET Commits,
           \A c \in ancestry : Anc(c) \subseteq ancestry,
           NEW generated \in BOOLEAN, NEW claims \in SUBSET Nat, NEW tree \in Store,
           NewCommit(ancestry, generated, claims, tree)
    PROVE  Lineal'
<1>1. history \in Seq(CommitInfo) /\ Len(history) \in Nat /\ ancestry \in SUBSET Nat
  BY DEF RepoTypeOK, Commits
<1>2. /\ Commits' = Commits \cup {head'}
      /\ \A c \in Commits : c # head' /\ history'[c] = history[c]
      /\ history'[head'].anc = ancestry \cup {head'}
  BY <1>1, NewCommitRecords
<1>3. head' = Len(history) + 1 /\ Commits = 1..Len(history)
  BY <1>1 DEF NewCommit, Commits
<1>4. \A c \in Commits : Anc(c)' = Anc(c)
  BY <1>2 DEF Anc
<1>5. ASSUME NEW d \in Commits
      PROVE  /\ d \in Anc(d)' /\ Anc(d)' \subseteq 1..d
             /\ \A c \in Anc(d)' : Anc(c)' \subseteq Anc(d)'
  <2>1. Anc(d)' = Anc(d) /\ d \in Anc(d) /\ Anc(d) \subseteq 1..d
    BY <1>4 DEF Lineal
  <2>2. ASSUME NEW c \in Anc(d)
        PROVE  Anc(c)' \subseteq Anc(d)
    <3>1. c \in Commits
      BY <1>1, <1>3, <2>1
    <3>. QED  BY <1>4, <3>1 DEF Lineal
  <2>. QED  BY <2>1, <2>2
<1>6. PICK h : h = head'
  OBVIOUS
<1>7. /\ h \in Anc(h)' /\ Anc(h)' \subseteq 1..h
      /\ \A c \in Anc(h)' : Anc(c)' \subseteq Anc(h)'
  <2>1. Anc(h)' = ancestry \cup {h}
    BY <1>2, <1>6 DEF Anc
  <2>2. ancestry \subseteq 1..h /\ h \in 1..h
    BY <1>1, <1>3, <1>6
  <2>3. \A c \in ancestry : Anc(c)' \subseteq ancestry
    BY <1>4
  <2>. QED  BY <2>1, <2>2, <2>3
<1>8. Commits' = Commits \cup {h}
  BY <1>2, <1>6
<1>. QED  BY <1>5, <1>7, <1>8 DEF Lineal
(* What the developer and generated commits build on is closed. *)
LEMMA AncestriesClosed ==
    ASSUME RepoTypeOK, Lineal, NEW ancestry \in Ancestries
    PROVE  ancestry \in SUBSET Commits /\ \A c \in ancestry : Anc(c) \subseteq ancestry
<1>1. Commits = 1..Len(history) /\ Len(history) \in Nat /\ head \in Commits
  BY DEF RepoTypeOK, Commits
<1>2. ASSUME NEW d \in Commits
      PROVE  /\ Anc(d) \in SUBSET Commits
             /\ \A c \in Anc(d) : Anc(c) \subseteq Anc(d)
             /\ \A c \in Anc(d) \ {d} : d \notin Anc(c)
  <2>1. d \in 1..Len(history) /\ Anc(d) \subseteq 1..d
        /\ \A c \in Anc(d) : Anc(c) \subseteq Anc(d)
    BY <1>1 DEF Lineal
  <2>2. Anc(d) \in SUBSET Commits
    BY <1>1, <2>1
  <2>3. ASSUME NEW c \in Anc(d), c # d
        PROVE  d \notin Anc(c)
    <3>1. c \in Commits /\ c < d
      BY <1>1, <2>1, <2>2, <2>3
    <3>2. Anc(c) \subseteq 1..c
      BY <3>1 DEF Lineal
    <3>. QED  BY <1>1, <3>1, <3>2
  <2>. QED  BY <2>1, <2>2, <2>3
<1>3. CASE ancestry = Anc(head)
  BY <1>1, <1>2, <1>3
<1>4. CASE ancestry = Anc(head) \ {head}
  BY <1>1, <1>2, <1>4
<1>5. CASE \E c \in Commits : ancestry = Anc(head) \cup Anc(c)
  BY <1>1, <1>2, <1>5
<1>. QED  BY <1>3, <1>4, <1>5 DEF Ancestries

LEMMA LinealNext == TypeOK /\ Lineal /\ RepoTypeOK' /\ [Next]_vars => Lineal'
<1>. SUFFICES ASSUME TypeOK, Lineal, RepoTypeOK', [Next]_vars PROVE Lineal'
  OBVIOUS
<1>1. RepoTypeOK /\ index' \in Store
  BY DEF TypeOK, RepoTypeOK
<1>2. CASE UNCHANGED history
  BY <1>2 DEF Lineal, Commits, Anc
<1>3. ASSUME NEW ancestry \in Ancestries, NEW generated \in BOOLEAN,
             NEW claims \in SUBSET Nat, NEW tree \in Store,
             NewCommit(ancestry, generated, claims, tree)
      PROVE  Lineal'
  BY <1>1, <1>3, AncestriesClosed, LinealCommit
<1>4. CASE DevStep
  BY <1>1, <1>2, <1>3, <1>4, DevCommits
<1>5. CASE \E p \in Proc : Commit(p)
  <2>1. PICK p \in Proc : Commit(p)
    BY <1>5
  <2>. DEFINE S == job[p].done
              tree == Put(Tree(head), work, S)
  <2>2. NewCommit(Anc(head), TRUE, S, tree)
    BY <2>1 DEF Commit, GeneratedProofCommit
  <2>3. Anc(head) \in Ancestries /\ TRUE \in BOOLEAN /\ S \in SUBSET Nat
    BY JobFacts DEF Ancestries
  <2>4. tree \in Store
    BY <1>1, CommitFacts, PutFacts DEF RepoTypeOK, Commits
  <2>. HIDE DEF S, tree
  <2>. QED  BY <1>3, <2>2, <2>3, <2>4
<1>6. CASE ~ DevStep /\ ~ \E p \in Proc : Commit(p)
  <2>1. CASE \E p \in Proc : Acquire(p) \/ AcquireForRepair(p) \/ Step(p) \/ Disturb(p)
    <3>1. PICK p \in Proc : \/ PersistProof(p) \/ PersistManifest(p) \/ Stage(p)
                            \/ LeavesFiles(p)
      BY <1>6, <2>1, ProcessSteps
    <3>2. UNCHANGED history
      BY <3>1, LeavesFilesFacts DEF PersistProof, PersistManifest, Stage
    <3>. QED  BY <1>2, <3>2
  <2>2. CASE EnableProofCommit \/ UNCHANGED vars
    BY <1>2, <2>2 DEF EnableProofCommit, vars, repoVars
  <2>. QED  BY <1>6, <2>1, <2>2 DEF Next, DevStep
<1>. QED  BY <1>4, <1>5, <1>6

(* Whatever is committed, amended, reset and merged, HEAD's lineage holds  *)
(* the lineage of each of its commits.                                     *)
LEMMA LinealInvariant == Spec => []Lineal
<1>1. Init => Lineal
  <2>. SUFFICES ASSUME Init PROVE Lineal
    OBVIOUS
  <2>1. Commits = {1} /\ Anc(1) = {1}
    BY DEF Init, RepoInit, Commits, Anc
  <2>. QED  BY <2>1 DEF Lineal
<1>2. TypeOK /\ TypeOK' /\ Lineal /\ [Next]_vars => Lineal'
  BY LinealNext DEF TypeOK
<1>. QED  BY TypeInvariant, <1>1, <1>2, PTL DEF Spec
-----------------------------------------------------------------------------
(* Tags and the baseline *)

(* Tags come one at a time. *)
LEMMA TagSteps ==
    ASSUME [Next]_vars, tags' # tags
    PROVE  \E p \in Proc : /\ CompleteTag(p) \/ TagNext(p) \/ RepairTag(p)
                           /\ \E stamp : tags' = tags \cup {stamp}
<1>1. PICK p \in Proc : CompleteTag(p) \/ TagNext(p) \/ RepairTag(p)
  BY TagsUntouched
<1>2. \E stamp, j : TagOrFail(p, stamp, j)
  BY <1>1, Zenon DEF CompleteTag, TagNext, RepairTag
<1>3. \E stamp : tags' = tags \cup {stamp}
  BY <1>2 DEF TagOrFail
<1>. QED  BY <1>1, <1>3

LEMMA FiniteTags == Spec => []IsFiniteSet(tags)
<1>1. Init => IsFiniteSet(tags)
  BY FS_EmptySet DEF Init, RepoInit
<1>2. IsFiniteSet(tags) /\ [Next]_vars => IsFiniteSet(tags)'
  <2>. SUFFICES ASSUME IsFiniteSet(tags), [Next]_vars, tags' # tags
                PROVE  IsFiniteSet(tags)'
    OBVIOUS
  <2>1. PICK stamp : tags' = tags \cup {stamp}
    BY TagSteps
  <2>. QED  BY <2>1, FS_AddElement
<1>. QED  BY <1>1, <1>2, PTL DEF Spec

(* The baseline among a newest tag and a newest recorded pair: Baseline    *)
(* with the two as parameters.                                             *)
Preferred(tag, prf) ==
    IF tag = None THEN prf
    ELSE IF prf = None \/ tag.at > prf.at THEN tag
    ELSE prf

(* One tag more leaves the source of the baseline alone, or puts a later   *)
(* stamp in its place, or one that ties with a tag.                        *)
LEMMA OneMore ==
    ASSUME IdsOrdered, IdsUnique, NEW T, T \subseteq Stamp, IsFiniteSet(T),
           NEW t \in Stamp, NEW lin, NEW prf \in Stamp \cup {None},
           NEW old, old = Preferred(NewestOf(T, lin), prf), old # None,
           NEW new, new = Preferred(NewestOf(T \cup {t}, lin), prf)
    PROVE  /\ old \in Stamp /\ new \in Stamp
           /\ \A b \in {old, new} : b = prf \/ (b \in T \cup {t} /\ b.src \in lin)
           /\ \/ new.src = old.src
              \/ new.at > old.at
              \/ new = t /\ new.at = old.at /\ old \in T /\ old.src \in lin
<1>1. PICK tag, more : tag = NewestOf(T, lin) /\ more = NewestOf(T \cup {t}, lin)
  OBVIOUS
<1>2. /\ tag \in {u \in T : u.src \in lin} \cup {None}
      /\ more \in {u \in T \cup {t} : u.src \in lin} \cup {None}
  BY <1>1, Zenon DEF NewestOf
<1>3. old = Preferred(tag, prf) /\ new = Preferred(more, prf)
  BY <1>1
<1>4. \A s \in Stamp : s # None /\ s.src \in Nat /\ s.at \in Nat
  BY AbsentStamp DEF Stamp
<1>5. CASE tag = None
  BY <1>2, <1>3, <1>4, <1>5 DEF Preferred
<1>6. CASE tag # None
  <2>1. tag \in T /\ tag.src \in lin /\ tag \in T \cup {t}
    BY <1>2, <1>6
  <2>2. T \cup {t} \subseteq Stamp /\ IsFiniteSet(T \cup {t})
    BY FS_AddElement
  <2>3. /\ more \in T \cup {t} /\ more.src \in lin
        /\ more.at > tag.at \/ (more.at = tag.at /\ Sha(more.src) >= Sha(tag.src))
    BY <1>1, <2>1, <2>2, NewestOfTop
  <2>4. \A v \in T : v.src \in lin =>
            tag.at > v.at \/ (tag.at = v.at /\ Sha(tag.src) >= Sha(v.src))
    BY <1>1, <2>1, NewestOfTop
  <2>5. Sha(more.src) \in Int /\ Sha(tag.src) \in Int
    BY <1>4, <2>1, <2>2, <2>3 DEF IdsOrdered
  <2>6. more.at > tag.at \/ (more.at = tag.at /\ (more = t \/ more.src = tag.src))
    <3>1. CASE more = t
      BY <2>3, <3>1
    <3>2. CASE more \in T
      <4>1. tag.at > more.at \/ (tag.at = more.at /\ Sha(tag.src) >= Sha(more.src))
        BY <2>3, <2>4, <3>2
      <4>2. more.at \in Nat /\ tag.at \in Nat
        BY <1>4, <2>1, <3>2
      <4>3. more.at > tag.at \/ (more.at = tag.at /\ Sha(tag.src) = Sha(more.src))
        BY <2>3, <2>5, <4>1, <4>2
      <4>4. more.src \in Nat /\ tag.src \in Nat
        BY <1>4, <2>1, <3>2
      <4>. QED  BY <4>3, <4>4 DEF IdsUnique
    <3>. QED  BY <2>3, <3>1, <3>2
  <2>7. tag \in Stamp /\ more \in Stamp
    BY <2>1, <2>2, <2>3
  <2>. QED  BY <1>3, <1>4, <2>1, <2>3, <2>6, <2>7 DEF Preferred
<1>. QED  BY <1>5, <1>6

(* A step that tags does nothing else that the policy looks at. *)
LEMMA TaggingDoes ==
    ASSUME TypeOK, [Next]_vars, tags' # tags
    PROVE  UNCHANGED <<history, head, calendar>>
BY TagSteps DEF CompleteTag, TagNext, RepairTag

LEMMA SameLineage ==
    ASSUME UNCHANGED <<history, head>>
    PROVE  /\ Anc(head)' = Anc(head)
           /\ ProofCommitBaseline(head)' = ProofCommitBaseline(head)
           /\ \A b : PendingMeaningful(head, b)' = PendingMeaningful(head, b)
<1>1. Anc(head)' = Anc(head) /\ Tree(head)' = Tree(head)
  BY DEF Anc, Tree
<1>2. GeneratedAncestors(head)' = GeneratedAncestors(head)
  BY DEF GeneratedAncestors, Anc, IsGenerated
<1>3. ProofCommitBaseline(head)' = ProofCommitBaseline(head)
  <2>. DEFINE Found(json, both) == {m \in json : m.src \in both}
              Newest(ms) == {m \in ms : \A n \in ms :
                                \/ m.at > n.at
                                \/ m.at = n.at /\ m.src >= n.src}
              Pick(gens, ms) == IF gens = {} \/ Newest(ms) = {} THEN None
                                ELSE CHOOSE m \in Newest(ms) : TRUE
  <2>1. ProofCommitBaseline(head) =
          Pick(GeneratedAncestors(head),
               Found(Tree(head).json, Anc(head) \cap Tree(head).ots))
    BY Zenon DEF ProofCommitBaseline
  <2>2. ProofCommitBaseline(head)' =
          Pick(GeneratedAncestors(head)',
               Found(Tree(head)'.json, Anc(head)' \cap Tree(head)'.ots))
    BY Zenon DEF ProofCommitBaseline
  <2>. QED  BY <1>1, <1>2, <2>1, <2>2, Zenon
<1>4. ASSUME NEW b
      PROVE  PendingMeaningful(head, b)' = PendingMeaningful(head, b)
  BY DEF PendingMeaningful, Anc, IsGenerated
<1>. QED  BY <1>1, <1>3, <1>4

(* What a tag makes of the commits to be stamped. *)
LEMMA TagReopensNothing ==
    ASSUME IdsOrdered, IdsUnique, TypeOK, Lineal, StoresAttested, StoresAttested',
           IsFiniteSet(tags), [Next]_vars, NEW t \in tags' \ tags, tags' \subseteq Stamp,
           SubmittedInOrder,
           \A u \in tags : u.at = t.at /\ u.src \in Anc(head) => u.src \in Anc(t.src)
    PROVE  StillPending' \subseteq StillPending
<1>1. UNCHANGED <<history, head, calendar>> /\ tags' = tags \cup {t}
  BY TagSteps, TaggingDoes
<1>2. PICK old, new, prf, lin :
          /\ old = Baseline(head) /\ new = Baseline(head)'
          /\ prf = ProofCommitBaseline(head) /\ lin = Anc(head)
  OBVIOUS
<1>3. old = Preferred(NewestOf(tags, lin), prf)
  <2>1. TagBaseline(head) = NewestOf(tags, Anc(head))
    BY Zenon DEF TagBaseline, NewestOf
  <2>. QED  BY <1>2, <2>1 DEF Baseline, Preferred
<1>4. new = Preferred(NewestOf(tags \cup {t}, lin), prf)
  <2>1. TagBaseline(head)' = NewestOf(tags', Anc(head)')
    BY Zenon DEF TagBaseline, NewestOf
  <2>2. Baseline(head)' = Preferred(TagBaseline(head)', ProofCommitBaseline(head)')
    BY DEF Baseline, Preferred
  <2>. QED  BY <1>1, <1>2, <2>1, <2>2, SameLineage
<1>5. /\ StillPending = PendingMeaningful(head, BaseSource(old))
      /\ StillPending' = PendingMeaningful(head, BaseSource(new))
  <2>1. StillPending' = PendingMeaningful(head, BaseSource(new))'
    BY <1>2 DEF StillPending, BaseSource
  <2>. QED  BY <1>1, <1>2, <2>1, SameLineage DEF StillPending
<1>6. CASE old = None
  BY <1>5, <1>6 DEF PendingMeaningful, BaseSource
<1>7. CASE old # None
  <2>1. head \in Commits /\ lin \subseteq Commits
    BY <1>2 DEF TypeOK, RepoTypeOK, Lineal, Commits
  <2>2. prf \in Stamp \cup {None} /\ (prf # None => prf \in calendar /\ prf.src \in lin)
    <3>1. prf \in {m \in Tree(head).json : m.src \in Anc(head)} \cup {None}
      BY <1>2, Zenon DEF ProofCommitBaseline
    <3>2. Tree(head).json \subseteq calendar /\ calendar \subseteq Stamp
      BY <2>1 DEF StoresAttested, TypeOK
    <3>. QED  BY <1>2, <3>1, <3>2
  <2>3. tags \cup {t} \subseteq calendar /\ calendar \subseteq Stamp
    BY <1>1 DEF StoresAttested, TypeOK
  <2>4. /\ old \in Stamp /\ new \in Stamp
        /\ \A b \in {old, new} : b = prf \/ (b \in tags \cup {t} /\ b.src \in lin)
        /\ \/ new.src = old.src
           \/ new.at > old.at
           \/ new = t /\ new.at = old.at /\ old \in tags /\ old.src \in lin
    <3>1. tags \subseteq Stamp /\ t \in Stamp
      BY <2>3
    <3>. QED  BY <1>3, <1>4, <1>7, <2>2, <3>1, OneMore
  <2>5. old # None /\ new # None
    BY <2>4, AbsentStamp
  <2>6. /\ old \in calendar /\ old.src \in lin
        /\ new \in calendar /\ new.src \in lin
    BY <2>2, <2>3, <2>4, <2>5
  <2>7. old.src \in Anc(new.src)
    <3>1. CASE new.src = old.src
      BY <2>1, <2>6, <3>1 DEF Lineal
    <3>2. CASE new.at > old.at
      <4>1. old.at < new.at
        BY <2>4, <3>2 DEF Stamp
      <4>. QED  BY <1>2, <2>6, <4>1 DEF SubmittedInOrder
    <3>3. CASE new = t /\ new.at = old.at /\ old \in tags /\ old.src \in lin
      BY <1>2, <3>3
    <3>. QED  BY <2>4, <3>1, <3>2, <3>3
  <2>8. Anc(old.src) \subseteq Anc(new.src)
    BY <2>1, <2>6, <2>7 DEF Lineal
  <2>9. BaseSource(old) = old.src /\ BaseSource(new) = new.src
    BY <2>5 DEF BaseSource
  <2>10. old.src \in Nat /\ new.src \in Nat
    BY <2>4 DEF Stamp
  <2>. QED  BY <1>5, <2>8, <2>9, <2>10, PolicyAssumption DEF PendingMeaningful
<1>. QED  BY <1>6, <1>7

(* The tags that completions and repairs make late, and those of runs, give *)
(* nothing back to be stamped: whatever failed, was killed, committed or    *)
(* rewritten before, as long as the submissions on HEAD's lineage were made *)
(* in the order of their sources and no newer source of its batch is tagged.*)
THEOREM NothingReopened ==
    ASSUME IdsOrdered, IdsUnique
    PROVE  Spec => LateTagsReopenNothing
<1>. DEFINE Reopens == \A t \in tags' \ tags :
                /\ SubmittedInOrder
                /\ \A u \in tags : u.at = t.at /\ u.src \in Anc(head)
                                      => u.src \in Anc(t.src)
                => StillPending' \subseteq StillPending
<1>1. Spec => []StoresAttested
  BY TypeInvariant, AttestedInit, AttestedNext, PTL DEF Spec
<1>2. /\ TypeOK /\ TypeOK' /\ Lineal /\ StoresAttested /\ StoresAttested'
      /\ IsFiniteSet(tags) /\ [Next]_vars
      => [Reopens]_vars
  BY TagReopensNothing DEF TypeOK, RepoTypeOK
<1>. QED  BY TypeInvariant, LinealInvariant, FiniteTags, <1>1, <1>2, PTL
          DEF Spec, LateTagsReopenNothing
-----------------------------------------------------------------------------
(* What a step makes of the job of the run that takes it *)

Frozen(j, k) ==
    /\ k.src = j.src /\ k.base = j.base /\ k.decision = j.decision
    /\ k.trig = j.trig /\ k.clock = j.clock /\ k.at = j.at /\ k.keep = j.keep

LEMMA JobOf ==
    ASSUME TypeOK, NEW p \in Proc, NEW step, NEW j
    PROVE  /\ pc' = [pc EXCEPT ![p] = step] => pc'[p] = step
           /\ job' = [job EXCEPT ![p] = j] => job'[p] = j
           /\ job' = job => Frozen(job[p], job'[p])
  BY DEF TypeOK, Frozen

LEMMA AcquireDoes ==
    ASSUME TypeOK, NEW p \in Proc, Acquire(p)
    PROVE  /\ pc'[p] = "snapshot" /\ job'[p].clock = now /\ job'[p].keep = proofCommit
           /\ job'[p].decision = job[p].decision /\ job'[p].trig = job[p].trig
           /\ job'[p].rec = job[p].rec
<1>. DEFINE j == [job[p] EXCEPT !.clock = now, !.keep = proofCommit]
<1>1. pc'[p] = "snapshot" /\ job'[p] = j
  BY DEF Acquire, TypeOK
<1>2. /\ j.clock = now /\ j.keep = proofCommit /\ j.decision = job[p].decision
      /\ j.trig = job[p].trig /\ j.rec = job[p].rec
  BY JobFacts DEF Job
<1>. QED  BY <1>1, <1>2

LEMMA TakeSnapshotDoes ==
    ASSUME TypeOK, NEW p \in Proc, TakeSnapshot(p)
    PROVE  /\ pc'[p] = "scan" /\ job'[p].src = head /\ job'[p].clock = job[p].clock
           /\ job'[p].decision = DecisionFor(head, job[p].clock).commits
           /\ job'[p].trig = DecisionFor(head, job[p].clock).trig
           /\ job'[p].keep = job[p].keep /\ job'[p].base = Baseline(head)
           /\ job'[p].at = now
<1>. DEFINE base == Baseline(head)
            pend == PendingMeaningful(head, BaseSource(base))
            due  == DecisionFor(head, job[p].clock)
            j == [job[p] EXCEPT !.src = head, !.base = base, !.pending = pend,
                                !.at = now, !.decision = due.commits,
                                !.trig = due.trig]
<1>1. pc'[p] = "scan" /\ job'[p] = j
  BY DEF TakeSnapshot, Goto, TypeOK
<1>. HIDE DEF base, pend, due
<1>2. /\ j.src = head /\ j.clock = job[p].clock /\ j.decision = due.commits
      /\ j.trig = due.trig /\ j.keep = job[p].keep /\ j.base = base /\ j.at = now
  BY JobFacts DEF Job
<1>. QED  BY <1>1, <1>2 DEF due, base

(* The scan adopts what is in flight, or goes on with the run's decision. *)
LEMMA ScanDoes ==
    ASSUME TypeOK, NEW p \in Proc, Scan(p)
    PROVE  LET fl == InFlight(job[p].src, job[p].decision)
           IN  /\ pc'[p] \in {"adopt", "select"} /\ Frozen(job[p], job'[p])
               /\ pc'[p] = "adopt" => job[p].decision = {} /\ fl = {}
               /\ job'[p].inflight = fl /\ job'[p].done = fl
               /\ job'[p].todo = IF fl = {} THEN job[p].decision ELSE {}
               /\ job'[p].rec = {m \in work.json : m.src \in fl}
<1>. DEFINE fl   == InFlight(job[p].src, job[p].decision)
            todo == IF fl = {} THEN job[p].decision ELSE {}
            rec  == {m \in work.json : m.src \in fl}
            step == IF job[p].decision = {} /\ fl = {} THEN "adopt" ELSE "select"
            j    == [job[p] EXCEPT !.inflight = fl, !.done = fl, !.todo = todo,
                                   !.rec = rec]
<1>0. job[p] \in Job
  BY JobFacts
<1>1. pc'[p] = step /\ job'[p] = j
  BY DEF Scan, Goto, TypeOK
<1>2. step \in {"adopt", "select"} /\ (step = "adopt" => job[p].decision = {} /\ fl = {})
  OBVIOUS
<1>. HIDE DEF fl, todo, rec, step
<1>3. /\ j.inflight = fl /\ j.done = fl /\ j.todo = todo /\ j.rec = rec
      /\ Frozen(job[p], j)
  BY <1>0 DEF Job, Frozen
<1>. HIDE DEF j
<1>4. /\ pc'[p] \in {"adopt", "select"} /\ Frozen(job[p], job'[p])
      /\ pc'[p] = "adopt" => job[p].decision = {} /\ fl = {}
      /\ job'[p].inflight = fl /\ job'[p].done = fl /\ job'[p].todo = todo /\ job'[p].rec = rec
  BY <1>1, <1>2, <1>3
<1>. QED  BY <1>4 DEF fl, todo, rec

LEMMA AdoptLegacyDoes ==
    ASSUME TypeOK, NEW p \in Proc, AdoptLegacy(p)
    PROVE  /\ pc[p] = "adopt" /\ pc'[p] = "stage" /\ Frozen(job[p], job'[p])
           /\ job'[p].todo = job[p].todo /\ job'[p].rec = job[p].rec
<1>0. job[p] \in Job
  BY JobFacts
<1>1. /\ pc[p] = "adopt" /\ pc'[p] = "stage"
      /\ job'[p] = [job[p] EXCEPT !.done = {job[p].base.src}]
  BY DEF AdoptLegacy, Goto, At, TypeOK
<1>. QED  BY <1>0, <1>1 DEF Job, Frozen

LEMMA RecoverDoes ==
    ASSUME TypeOK, NEW p \in Proc, Recover(p)
    PROVE  LET c == Min(job[p].todo)
           IN  /\ pc[p] = "select" /\ pc'[p] = "select" /\ Frozen(job[p], job'[p])
               /\ HasPair(work, c)
               /\ job'[p].todo = job[p].todo \ {c} /\ job'[p].done = job[p].done \cup {c}
               /\ job'[p].rec = job[p].rec \cup {ManifestOf(work, c)}
<1>. DEFINE c == Min(job[p].todo)
            a == job[p].todo \ {c}
            b == job[p].done \cup {c}
            d == job[p].rec \cup {ManifestOf(work, c)}
            j == [job[p] EXCEPT !.todo = a, !.done = b, !.rec = d]
<1>0. job[p] \in Job
  BY JobFacts
<1>1. pc[p] = "select" /\ pc'[p] = "select" /\ HasPair(work, c) /\ job'[p] = j
  BY DEF Recover, Goto, At, TypeOK
<1>. HIDE DEF a, b, d
<1>2. j.todo = a /\ j.done = b /\ j.rec = d /\ Frozen(job[p], j)
  BY <1>0 DEF Job, Frozen
<1>. QED  BY <1>1, <1>2 DEF a, b, d

LEMMA PersistManifestDoes ==
    ASSUME TypeOK, NEW p \in Proc, PersistManifest(p)
    PROVE  LET c == Min(job[p].todo)
           IN  /\ pc[p] = "manifest" /\ pc'[p] = "select" /\ Frozen(job[p], job'[p])
               /\ job'[p].todo = job[p].todo \ {c} /\ job'[p].done = job[p].done \cup {c}
               /\ job'[p].rec = job[p].rec
<1>. DEFINE c == Min(job[p].todo)
            a == job[p].todo \ {c}
            b == job[p].done \cup {c}
            j == [job[p] EXCEPT !.todo = a, !.done = b]
<1>0. job[p] \in Job
  BY JobFacts
<1>1. pc[p] = "manifest" /\ pc'[p] = "select" /\ job'[p] = j
  BY DEF PersistManifest, Goto, At, TypeOK
<1>. HIDE DEF a, b
<1>2. j.todo = a /\ j.done = b /\ j.rec = job[p].rec /\ Frozen(job[p], j)
  BY <1>0 DEF Job, Frozen
<1>. QED  BY <1>1, <1>2 DEF a, b

LEMMA CheckDurableDoes ==
    ASSUME TypeOK, NEW p \in Proc, CheckDurable(p)
    PROVE  /\ pc[p] = "durable" /\ Frozen(job[p], job'[p])
           /\ pc'[p] = IF job[p].keep /\ ~PathsAreCommitted(job[p].done)
                       THEN "stage" ELSE "tag"
           /\ job'[p].todo = job[p].done /\ job'[p].done = job[p].done
           /\ job'[p].rec = job[p].rec
<1>0. job[p] \in Job
  BY JobFacts
<1>1. pc[p] = "durable" /\ job'[p] = [job[p] EXCEPT !.todo = job[p].done]
  BY DEF CheckDurable, At, TypeOK
<1>2. pc'[p] = IF job[p].keep /\ ~PathsAreCommitted(job[p].done)
               THEN "stage" ELSE "tag"
  BY Zenon, JobOf DEF CheckDurable, Goto
<1>. QED  BY <1>0, <1>1, <1>2 DEF Job, Frozen

(* Steps that only move on. *)
LEMMA MovesOn ==
    ASSUME TypeOK, NEW p \in Proc,
           \/ BeginSubmit(p) \/ Submit(p) \/ PersistProof(p) \/ FinishSelection(p)
           \/ Stage(p) \/ Commit(p)
    PROVE  /\ job'[p] = job[p] /\ Frozen(job[p], job'[p])
           /\ BeginSubmit(p) => pc[p] = "select" /\ pc'[p] = "submit"
           /\ Submit(p) => pc[p] = "submit" /\ pc'[p] = "proof"
           /\ PersistProof(p) => pc[p] = "proof" /\ pc'[p] = "manifest"
           /\ FinishSelection(p) => pc[p] = "select" /\ pc'[p] = "durable"
           /\ Stage(p) => pc[p] = "stage" /\ pc'[p] = "commit"
           /\ Commit(p) => pc[p] = "commit" /\ pc'[p] = "tag"
  BY DEF BeginSubmit, Submit, PersistProof, FinishSelection, Stage, Commit, Goto, At,
         TypeOK, Frozen

LEMMA EndDoes ==
    ASSUME TypeOK, NEW p \in Proc, Ending(p) \/ SubmitFails(p)
    PROVE  pc'[p] = "idle" /\ job'[p] = NoJob
<1>1. \E how : End(p, how)
  BY EndingFacts DEF SubmitFails
<1>. QED  BY <1>1 DEF End, TypeOK

(* A tagging step stays where it is, with one source less, or ends. *)
LEMMA TagNextDoes ==
    ASSUME TypeOK, NEW p \in Proc, TagNext(p)
    PROVE  LET c == Min(job[p].todo)
           IN  /\ pc[p] = "tag" /\ job[p].todo # {}
               /\ \/ pc'[p] = "idle" /\ job'[p] = NoJob /\ tags' = tags
                  \/ /\ pc'[p] = "tag" /\ Frozen(job[p], job'[p])
                     /\ tags' = tags \cup {StampOf(job[p], c)}
                     /\ job'[p].todo = job[p].todo \ {c}
                     /\ job'[p].rec = job[p].rec
<1>. DEFINE c == Min(job[p].todo)
            s == StampOf(job[p], c)
            j == [job[p] EXCEPT !.todo = job[p].todo \ {c}]
<1>0. job[p] \in Job
  BY JobFacts
<1>1. pc[p] = "tag" /\ job[p].todo # {} /\ TagOrFail(p, s, j)
  BY DEF TagNext, At
<1>. HIDE DEF s, j
<1>2. \/ pc'[p] = "idle" /\ job'[p] = NoJob /\ tags' = tags
      \/ pc'[p] = "tag" /\ job'[p] = j /\ tags' = tags \cup {s}
  BY <1>1 DEF TagOrFail, End, TypeOK
<1>3. j.todo = job[p].todo \ {c} /\ j.rec = job[p].rec /\ Frozen(job[p], j)
  BY <1>0 DEF Job, Frozen, j
<1>. QED  BY <1>1, <1>2, <1>3 DEF s

(* The other steps of a run, and those of a repair. *)
LEMMA OtherwiseDoes ==
    ASSUME TypeOK, NEW p \in Proc,
           \/ BeginCompletion(p) \/ PassOver(p) \/ CompleteTag(p)
           \/ RepairPassesOver(p) \/ RepairTag(p)
    PROVE  \/ pc'[p] = "idle" /\ job'[p] = NoJob
           \/ pc'[p] \in {"complete", "repair"} /\ Frozen(job[p], job'[p])
<1>0. job[p] \in Job
  BY JobFacts
<1>1. CASE BeginCompletion(p) \/ PassOver(p)
  <2>1. PICK a : pc'[p] = "complete" /\ job'[p] = [job[p] EXCEPT !.todo = a]
    BY <1>1 DEF BeginCompletion, PassOver, Goto, TypeOK
  <2>. QED  BY <1>0, <2>1 DEF Job, Frozen
<1>2. CASE RepairPassesOver(p)
  <2>1. PICK a, b : job' = [job EXCEPT ![p] = [job[p] EXCEPT !.todo = a, !.done = b]]
    BY <1>2, Zenon DEF RepairPassesOver
  <2>2. pc'[p] = "repair" /\ job'[p] = [job[p] EXCEPT !.todo = a, !.done = b]
    BY <1>2, <2>1 DEF RepairPassesOver, Goto, TypeOK
  <2>. QED  BY <1>0, <2>2 DEF Job, Frozen
<1>3. CASE CompleteTag(p) \/ RepairTag(p)
  <2>1. pc[p] \in {"complete", "repair"}
    BY <1>3 DEF CompleteTag, RepairTag, At
  <2>2. PICK stamp, a, b : \/ TagOrFail(p, stamp, [job[p] EXCEPT !.todo = a, !.rec = b])
                           \/ TagOrFail(p, stamp, [job[p] EXCEPT !.todo = a])
    BY <1>3, Zenon DEF CompleteTag, RepairTag
  <2>3. \/ pc'[p] = "idle" /\ job'[p] = NoJob
        \/ pc'[p] = pc[p] /\ job'[p] \in {[job[p] EXCEPT !.todo = a, !.rec = b],
                                          [job[p] EXCEPT !.todo = a]}
    BY <2>2 DEF TagOrFail, End, TypeOK
  <2>. QED  BY <1>0, <2>1, <2>3 DEF Job, Frozen
<1>. QED  BY <1>1, <1>2, <1>3

LEMMA SurveyDoes ==
    ASSUME TypeOK, NEW p \in Proc, AcquireForRepair(p) \/ Survey(p)
    PROVE  /\ pc'[p] \in {"survey", "repair"}
           /\ job'[p].decision = job[p].decision /\ job'[p].trig = job[p].trig
<1>1. CASE AcquireForRepair(p)
  BY <1>1 DEF AcquireForRepair, TypeOK
<1>2. CASE Survey(p)
  <2>1. PICK a, b : pc'[p] = "repair" /\ job'[p] = [job[p] EXCEPT !.src = a, !.todo = b]
    BY <1>2 DEF Survey, Goto, TypeOK
  <2>2. \A j \in Job : /\ [j EXCEPT !.src = a, !.todo = b].decision = j.decision
                       /\ [j EXCEPT !.src = a, !.todo = b].trig = j.trig
    BY DEF Job
  <2>. QED  BY <2>1, <2>2, JobFacts
<1>. QED  BY <1>1, <1>2

(* After its snapshot a run keeps what it has frozen until it ends. *)
LEMMA StaysFrozen ==
    ASSUME TypeOK, NEW p \in Proc, Step(p) \/ Disturb(p), ~TakeSnapshot(p), ~Survey(p)
    PROVE  \/ pc'[p] = "idle" /\ job'[p] = NoJob
           \/ Frozen(job[p], job'[p])
<1>1. CASE Ending(p) \/ SubmitFails(p)
  BY <1>1, EndDoes
<1>2. CASE ~(Ending(p) \/ SubmitFails(p))
  BY <1>2, ScanDoes, AdoptLegacyDoes, RecoverDoes, PersistManifestDoes, CheckDurableDoes,
     MovesOn, TagNextDoes, OtherwiseDoes, Zenon DEF Step, Disturb, Ending
<1>. QED  BY <1>1, <1>2

-----------------------------------------------------------------------------
(* Scheduled occurrences *)

(* A step of one invocation, or one that leaves all of them alone. *)
LEMMA WhoMoves ==
    ASSUME [Next]_vars
    PROVE  \/ \E p \in Proc : Acquire(p) \/ AcquireForRepair(p) \/ Step(p) \/ Disturb(p)
           \/ UNCHANGED <<pc, job, calendar, tags>>
  BY DEF Next, vars, runVars, repoVars, EnableProofCommit, DevCommit, DevAmend, DevReset,
         DevMerge, DevDrop, DevClean, Tick, Dev

(* Only a submission, or the failure of one, reaches the calendars. *)
LEMMA CalendarUntouched ==
    ASSUME NEW p \in Proc, Acquire(p) \/ AcquireForRepair(p) \/ Step(p) \/ Disturb(p),
           ~(Submit(p) \/ SubmitFails(p))
    PROVE  UNCHANGED calendar
<1>1. CASE Ending(p)
  BY <1>1, EndingFacts
<1>2. CASE ~Ending(p)
  BY <1>2 DEF Step, Disturb, Ending, Acquire, AcquireForRepair,
     TakeSnapshot, Scan, AdoptLegacy, BeginCompletion, CompleteTag, PassOver, Recover,
     BeginSubmit, PersistProof, PersistManifest, FinishSelection, CheckDurable,
     Stage, Commit, TagNext, Survey, RepairPassesOver, RepairTag
<1>. QED  BY <1>1, <1>2

LEMMA OwnDecisionNext ==
    TypeOK /\ LockHeld /\ OwnDecision /\ [Next]_vars => OwnDecision'
<1>. SUFFICES ASSUME TypeOK, LockHeld, OwnDecision, [Next]_vars PROVE OwnDecision'
  OBVIOUS
<1>1. CASE \E p \in Proc : Acquire(p) \/ AcquireForRepair(p) \/ Step(p) \/ Disturb(p)
  <2>1. PICK p \in Proc : Acquire(p) \/ AcquireForRepair(p) \/ Step(p) \/ Disturb(p)
    BY <1>1
  <2>2. \A q \in Proc \ {p} : pc'[q] \notin Selecting
    BY <2>1, OthersIdle DEF Selecting
  <2>3. SUFFICES pc'[p] \in Selecting => job'[p].todo \subseteq job'[p].decision
    BY <2>2 DEF OwnDecision
  <2>4. CASE Scan(p)
    BY <2>4, ScanDoes DEF Frozen
  <2>5. CASE Recover(p) \/ PersistManifest(p)
    <3>1. pc[p] \in Selecting
      BY <2>5, RecoverDoes, PersistManifestDoes DEF Selecting
    <3>. QED  BY <2>5, <3>1, RecoverDoes, PersistManifestDoes DEF Frozen, OwnDecision
  <2>6. CASE BeginSubmit(p) \/ Submit(p) \/ PersistProof(p)
    <3>1. pc[p] \in Selecting
      BY <2>6, MovesOn DEF Selecting
    <3>. QED  BY <2>6, <3>1, MovesOn DEF Frozen, OwnDecision
  <2>7. CASE FinishSelection(p) \/ Stage(p) \/ Commit(p) \/ AdoptLegacy(p)
             \/ CheckDurable(p) \/ TagNext(p)
    <3>1. pc'[p] \in {"durable", "stage", "commit", "tag", "idle"}
      BY <2>7, MovesOn, AdoptLegacyDoes, CheckDurableDoes, TagNextDoes
    <3>. QED  BY <3>1 DEF Selecting
  <2>8. CASE Acquire(p) \/ AcquireForRepair(p) \/ TakeSnapshot(p) \/ Survey(p)
             \/ Ending(p) \/ SubmitFails(p)
             \/ BeginCompletion(p) \/ PassOver(p) \/ CompleteTag(p)
             \/ RepairPassesOver(p) \/ RepairTag(p)
    <3>1. pc'[p] \in {"snapshot", "scan", "survey", "repair", "complete", "idle"}
      BY <2>8, AcquireDoes, TakeSnapshotDoes, SurveyDoes, EndDoes, OtherwiseDoes
    <3>. QED  BY <3>1 DEF Selecting
  <2>. QED  BY <2>1, <2>4, <2>5, <2>6, <2>7, <2>8 DEF Step, Disturb, Ending
<1>2. CASE UNCHANGED <<pc, job>>
  BY <1>2 DEF OwnDecision
<1>. QED  BY <1>1, <1>2, WhoMoves

(* Who submits does it for its own decision. *)
LEMMA SubmitsOwn ==
    ASSUME TypeOK, JobsConsistent, OwnDecision, NEW p \in Proc, pc[p] = "submit"
    PROVE  job[p].decision # {}
  BY DEF OwnDecision, Selecting, JobsConsistent

(* Under fixed_time alone, what is due is due for fixed_time. *)
LEMMA OnlySchedule ==
    ASSUME ~EveryCommit, MaxAge = None, NEW src, NEW t, DecisionFor(src, t).commits # {}
    PROVE  DecisionFor(src, t).trig = {"fixed_time"}
<1>1. \A pending, last : AggregateTriggers(pending, last, t) \subseteq {"fixed_time"}
  BY DEF AggregateTriggers, MaxAgeDue
<1>2. PICK pending, has, last : DecisionFor(src, t) = EvaluatePolicy(pending, has, last, t)
  BY DEF DecisionFor
<1>3. EvaluatePolicy(pending, has, last, t).trig = AggregateTriggers(pending, last, t)
      /\ AggregateTriggers(pending, last, t) # {}
  BY <1>2 DEF EvaluatePolicy, NoDecision
<1>. QED  BY <1>1, <1>2, <1>3

LEMMA ScheduleOnlyNext ==
    /\ TypeOK /\ JobsConsistent /\ OwnDecision /\ StoresAttested /\ JobsAttested
    /\ LockHeld /\ ScheduleOnly /\ [Next]_vars
    => ScheduleOnly'
<1>. SUFFICES ASSUME TypeOK, JobsConsistent, OwnDecision, JobsAttested, LockHeld,
                     ScheduleOnly, [Next]_vars, ~EveryCommit, MaxAge = None
              PROVE  /\ \A s \in calendar' : s.trig = {"fixed_time"}
                     /\ \A p \in Proc : job'[p].decision # {}
                                          => job'[p].trig = {"fixed_time"}
  BY DEF ScheduleOnly
<1>1. /\ \A s \in calendar : s.trig = {"fixed_time"}
      /\ \A p \in Proc : job[p].decision # {} => job[p].trig = {"fixed_time"}
  BY DEF ScheduleOnly
<1>2. CASE \E p \in Proc : Acquire(p) \/ AcquireForRepair(p) \/ Step(p) \/ Disturb(p)
  <2>1. PICK p \in Proc : Acquire(p) \/ AcquireForRepair(p) \/ Step(p) \/ Disturb(p)
    BY <1>2
  <2>2. job'[p].decision # {} => job'[p].trig = {"fixed_time"}
    <3>1. CASE Acquire(p) \/ AcquireForRepair(p) \/ Survey(p)
      BY <1>1, <3>1, AcquireDoes, SurveyDoes
    <3>2. CASE TakeSnapshot(p)
      BY <3>2, TakeSnapshotDoes, OnlySchedule
    <3>3. CASE (Step(p) \/ Disturb(p)) /\ ~TakeSnapshot(p) /\ ~Survey(p)
      <4>1. job'[p] = NoJob \/ Frozen(job[p], job'[p])
        BY <3>3, StaysFrozen
      <4>. QED  BY <1>1, <4>1 DEF Frozen, NoJob
    <3>. QED  BY <2>1, <3>1, <3>2, <3>3
  <2>3. \A q \in Proc : job'[q].decision # {} => job'[q].trig = {"fixed_time"}
    BY <1>1, <2>1, <2>2, OthersStay
  <2>4. CASE Submit(p) \/ SubmitFails(p)
    <3>. DEFINE s == StampOf(job[p], Min(job[p].todo))
    <3>1. pc[p] = "submit" /\ calendar' \subseteq calendar \cup {s}
      BY <2>4 DEF Submit, SubmitFails, At
    <3>2. job[p].trig = {"fixed_time"} /\ job[p].rec \subseteq calendar
      BY <1>1, <3>1, SubmitsOwn DEF JobsAttested, JobAttested
    <3>3. s.trig = {"fixed_time"}
      BY <1>1, <3>2, StampOfFacts
    <3>. QED  BY <1>1, <2>3, <3>1, <3>3
  <2>5. CASE ~(Submit(p) \/ SubmitFails(p))
    <3>1. UNCHANGED calendar
      BY <2>1, <2>5, CalendarUntouched
    <3>. QED  BY <1>1, <2>3, <3>1
  <2>. QED  BY <2>4, <2>5
<1>3. CASE UNCHANGED <<job, calendar>>
  BY <1>1, <1>3
<1>. QED  BY <1>2, <1>3, WhoMoves

(* The policy does not let a run start for an occurrence that is stamped. *)
LEMMA SnapshotOpen ==
    ASSUME IdsOrdered, EveryCommit \/ MaxAge = None, TypeOK, IsFiniteSet(tags),
           StoresAttested, ScheduleOnly,
           NEW t \in Nat, "fixed_time" \in DecisionFor(head, t).trig,
           NEW tag \in tags, tag.src \in Anc(head)
    PROVE  ~(tag.at >= MostRecentOccurrence(t))
<1>. DEFINE base == Baseline(head)
            pending == {[id |-> c, time |-> history[c].time] :
                           c \in PendingMeaningful(head, BaseSource(base))}
<1>1. RepoTypeOK /\ head \in Commits
  BY DEF TypeOK, RepoTypeOK, Commits
<1>2. base # None /\ base.at >= tag.at /\ base \in calendar
  BY <1>1, NewestBaseline, BaselineFacts DEF StoresAttested
<1>3. base \in Stamp /\ tag \in Stamp
  BY <1>1, <1>2 DEF TypeOK, RepoTypeOK
<1>4. DecisionFor(head, t) = EvaluatePolicy(pending, base # None, LastFixedTime(base), t)
  BY Zenon DEF DecisionFor
<1>. HIDE DEF pending, base
<1>5. ~EveryCommit /\ FixedTimeDue(LastFixedTime(base), t)
  BY <1>4 DEF EvaluatePolicy, NoDecision, AggregateTriggers
<1>6. base.trig = {"fixed_time"}
  BY <1>2, <1>5 DEF ScheduleOnly
<1>7. LastFixedTime(base) = base.at /\ base.at \in Nat /\ tag.at \in Nat
  BY <1>2, <1>3, <1>6 DEF LastFixedTime, Stamp
<1>8. FixedPeriod # None /\ MostRecentOccurrence(t) > base.at
  BY <1>5, <1>7, PolicyAssumption DEF FixedTimeDue
<1>9. MostRecentOccurrence(t) \in Int
  <2>1. FixedPeriod \in Nat /\ FixedPeriod > 0
    BY <1>8, PolicyAssumption
  <2>2. t \div FixedPeriod \in Int
    BY <2>1
  <2>3. \A a, b \in Int : a * b \in Int
    OBVIOUS
  <2>. QED  BY <2>1, <2>2, <2>3 DEF MostRecentOccurrence
<1>. QED  BY <1>2, <1>7, <1>8, <1>9

LEMMA OccurrenceOpenNext ==
    ASSUME IdsOrdered, EveryCommit \/ MaxAge = None
    PROVE  /\ TypeOK /\ JobsConsistent /\ LockHeld /\ StoresAttested /\ ScheduleOnly
           /\ IsFiniteSet(tags) /\ OccurrenceOpen /\ [Next]_vars
           => OccurrenceOpen'
<1>. SUFFICES ASSUME TypeOK, JobsConsistent, LockHeld, StoresAttested, ScheduleOnly,
                     IsFiniteSet(tags), OccurrenceOpen, [Next]_vars
              PROVE  OccurrenceOpen'
  OBVIOUS
<1>. DEFINE Early == {"scan"} \cup Selecting
<1>1. \A c \in Commits : Anc(c)' = Anc(c)
  <2>1. HistoryGrows
    BY TypeStep DEF vars, repoVars, HistoryGrows, Commits
  <2>. QED  BY <2>1 DEF HistoryGrows, Anc
<1>2. ASSUME NEW p \in Proc, pc[p] \in Early, "fixed_time" \in job[p].trig,
             Frozen(job[p], job'[p]), tags' = tags
      PROVE  NotYetStamped(job[p])'
  <2>1. NotYetStamped(job[p]) /\ job[p].src \in Commits
    BY <1>2 DEF OccurrenceOpen, JobsConsistent, Selecting
  <2>2. PICK c \in Commits : c = job[p].src
    BY <2>1
  <2>3. job'[p].src = c /\ Anc(c)' = Anc(c) /\ job'[p].clock = job[p].clock
    BY <1>1, <1>2, <2>2 DEF Frozen
  <2>. QED  BY <1>2, <2>1, <2>2, <2>3 DEF NotYetStamped
<1>3. CASE \E p \in Proc : Acquire(p) \/ AcquireForRepair(p) \/ Step(p) \/ Disturb(p)
  <2>1. PICK p \in Proc : Acquire(p) \/ AcquireForRepair(p) \/ Step(p) \/ Disturb(p)
    BY <1>3
  <2>2. \A q \in Proc \ {p} : pc'[q] \notin Early
    BY <2>1, OthersIdle DEF Selecting
  <2>3. SUFFICES pc'[p] \in Early /\ "fixed_time" \in job'[p].trig
                   => NotYetStamped(job[p])'
    BY <2>2 DEF OccurrenceOpen
  <2>4. CASE TakeSnapshot(p)
    <3>1. /\ job'[p].src = head /\ job'[p].clock = job[p].clock
          /\ job'[p].trig = DecisionFor(head, job[p].clock).trig
          /\ tags' = tags /\ head \in Commits /\ job[p].clock \in Nat
      BY <2>4, TakeSnapshotDoes, JobFacts
         DEF TakeSnapshot, repoVars, TypeOK, RepoTypeOK, Commits
    <3>2. PICK c \in Commits : c = head
      BY <3>1
    <3>3. job'[p].src = c /\ Anc(c)' = Anc(c)
      BY <1>1, <3>1, <3>2
    <3>4. "fixed_time" \in job'[p].trig =>
            \A t \in tags : t.src \in Anc(c) => ~(t.at >= MostRecentOccurrence(job[p].clock))
      BY <3>1, <3>2, SnapshotOpen
    <3>. QED  BY <3>1, <3>3, <3>4 DEF NotYetStamped
  <2>5. CASE Scan(p) \/ Recover(p) \/ PersistManifest(p)
             \/ BeginSubmit(p) \/ Submit(p) \/ PersistProof(p)
    <3>1. pc[p] \in Early
      BY <2>5, RecoverDoes, PersistManifestDoes, MovesOn DEF Selecting, Scan, At
    <3>2. Frozen(job[p], job'[p])
      BY <2>5, ScanDoes, RecoverDoes, PersistManifestDoes, MovesOn
    <3>3. tags' = tags
      BY <2>5 DEF Scan, Recover, PersistManifest, BeginSubmit, Submit, PersistProof, repoVars
    <3>. QED  BY <1>2, <3>1, <3>2, <3>3 DEF Frozen
  <2>6. CASE FinishSelection(p) \/ Stage(p) \/ Commit(p) \/ AdoptLegacy(p)
             \/ CheckDurable(p) \/ TagNext(p)
    <3>1. pc'[p] \in {"durable", "stage", "commit", "tag", "idle"}
      BY <2>6, MovesOn, AdoptLegacyDoes, CheckDurableDoes, TagNextDoes
    <3>. QED  BY <3>1 DEF Selecting
  <2>7. CASE Acquire(p) \/ AcquireForRepair(p) \/ Survey(p)
             \/ Ending(p) \/ SubmitFails(p)
             \/ BeginCompletion(p) \/ PassOver(p) \/ CompleteTag(p)
             \/ RepairPassesOver(p) \/ RepairTag(p)
    <3>1. pc'[p] \in {"snapshot", "survey", "repair", "complete", "idle"}
      BY <2>7, AcquireDoes, SurveyDoes, EndDoes, OtherwiseDoes
    <3>. QED  BY <3>1 DEF Selecting
  <2>. QED  BY <2>1, <2>4, <2>5, <2>6, <2>7 DEF Step, Disturb, Ending
<1>4. CASE UNCHANGED <<pc, job, tags>>
  <2>1. ASSUME NEW p \in Proc, pc'[p] \in Early, "fixed_time" \in job'[p].trig
        PROVE  NotYetStamped(job[p])'
    BY <1>2, <1>4, <2>1 DEF Frozen
  <2>. QED  BY <2>1 DEF OccurrenceOpen
<1>. QED  BY <1>3, <1>4, WhoMoves

(* Where no max_age rule can stamp in between (every_commit never gives the   *)
(* fixed_time trigger), a run that fixed_time started submits only while no   *)
(* scheduled stamp on its lineage is as late as the occurrence, whatever other*)
(* runs, recoveries and repairs have tagged before it took the lock, and      *)
(* whatever anybody does until it submits.                                    *)
THEOREM OccurrenceTaken ==
    ASSUME IdsOrdered, EveryCommit \/ MaxAge = None
    PROVE  Spec => OccurrenceOnce
<1>. DEFINE Once == \A p \in Proc : Submits(p) /\ "fixed_time" \in job[p].trig =>
                      ~\E t \in tags : /\ t.src \in Anc(job[p].src)
                                       /\ "fixed_time" \in t.trig
                                       /\ t.at >= MostRecentOccurrence(job[p].clock)
<1>1. Init => OwnDecision /\ ScheduleOnly /\ OccurrenceOpen
  BY DEF Init, OwnDecision, ScheduleOnly, OccurrenceOpen, Selecting, NoJob
<1>2. TypeOK /\ OccurrenceOpen => Once
  <2>. SUFFICES ASSUME TypeOK, OccurrenceOpen, NEW p \in Proc, pc[p] = "submit",
                       "fixed_time" \in job[p].trig,
                       NEW t \in tags, t.src \in Anc(job[p].src), "fixed_time" \in t.trig
                PROVE  ~(t.at >= MostRecentOccurrence(job[p].clock))
    BY DEF Submits, At
  <2>. QED  BY DEF OccurrenceOpen, NotYetStamped, Selecting
<1>3. TypeOK /\ OccurrenceOpen => [Once]_vars
  BY <1>2
<1>. HIDE DEF Once
<1>4. Spec => [](StoresAttested /\ JobsAttested)
  BY TypeInvariant, AttestedInit, AttestedNext, PTL DEF Spec
<1>5. Spec => []OwnDecision
  BY TypeInvariant, LockInvariant, <1>1, OwnDecisionNext, PTL DEF Spec
<1>6. Spec => []ScheduleOnly
  BY TypeInvariant, LockInvariant, <1>1, <1>4, <1>5, ScheduleOnlyNext, PTL DEF Spec
<1>7. Spec => []OccurrenceOpen
  BY TypeInvariant, LockInvariant, FiniteTags, <1>1, <1>4, <1>6, OccurrenceOpenNext, PTL
     DEF Spec
<1>8. Spec => [][Once]_vars
  BY TypeInvariant, <1>3, <1>7, PTL DEF Spec
<1>. QED  BY <1>8, PTL DEF Once, OccurrenceOnce
=============================================================================
