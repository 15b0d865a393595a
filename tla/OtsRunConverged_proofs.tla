---------------------- MODULE OtsRunConverged_proofs ----------------------
(***************************************************************************)
(* The proof that running twice stamps once.                               *)
(*                                                                         *)
(*   RunsConverge  after a successful run that deferred nothing, the same  *)
(*                 policy at the same instant selects nothing              *)
(*                                                                         *)
(* Such a run has only generated commits between its source and HEAD, so   *)
(* the newest of the developer's commits, the top, is the same for both.   *)
(* The run decided for it or not (TopDecided).                             *)
(*                                                                         *)
(* If it did, its decision is tagged by now (JobsCarried), and what is     *)
(* tagged is in some commit (TagsWitnessed).  HEAD's tree has everything   *)
(* that any commit recorded of the top (TopRecorded), so HEAD is itself a  *)
(* generated commit and the top's manifest is one the baseline is chosen   *)
(* from.  Manifests are in the order of their sources (InOrder): the       *)
(* baseline is the top, and nothing is pending above it.                   *)
(*                                                                         *)
(* If it did not, either nothing was pending, and the baseline it found is *)
(* still there (JobsDecided), or no rule was due. That stays so: under     *)
(* fixed_time alone the newest baseline of HEAD is at least as late as the *)
(* one the run found (StillNotDue), under max_age alone it is no older a   *)
(* source (StillNotOld), because a run without a decision tags nothing     *)
(* below its baseline (JobsSettled).                                       *)
(***************************************************************************)
EXTENDS OtsRunClaims_proofs

-----------------------------------------------------------------------------
(* What is recorded above HEAD's newest stays recorded *)

(* A new commit's tree has proofs of commits made before it; if it is a    *)
(* generated one it is put on HEAD or replaces another, and keeps all that *)
(* HEAD's tree has.                                                        *)
LEMMA Grafts ==
    ASSUME OneLineage, TypeOK, Lineal, LineagesExist, StoresMeaningful, Stacked, [Next]_vars
    PROVE  \/ UNCHANGED <<history, head>>
           \/ \E ancestry, generated, claims, tree :
                 /\ Made(ancestry, generated, claims, tree)
                 /\ tree.ots \subseteq Commits
                 /\ generated => /\ Holds(tree, Tree(head))
                                 /\ \/ ancestry = Anc(head)
                                    \/ ancestry = Anc(head) \ {head} /\ IsGenerated(head)
<1>1. /\ RepoTypeOK /\ head \in Commits /\ Anc(head) \in SUBSET Commits
      /\ Anc(head) \ {head} \in SUBSET Commits /\ index \in Store
      /\ IsGenerated(head) \in BOOLEAN /\ history[head].claims \in SUBSET Nat
  BY HeadLineage, CommitFacts DEF TypeOK, RepoTypeOK
<1>2. Holds(index, Tree(head)) /\ Holds(work, Tree(head))
  BY HoldsChain DEF Stacked
<1>3. Stored \subseteq Commits
  BY DEF Stored, StoresMeaningful, Meaningful
<1>4. CASE DevStep /\ ~DevAmend
  <2>1. CASE UNCHANGED <<history, head>>
    BY <2>1
  <2>2. CASE ~UNCHANGED <<history, head>>
    <3>1. PICK ancestry, generated, claims : Made(ancestry, generated, claims, index')
      BY <1>1, <1>4, <2>2, DevMakes
    <3>2. history'[head'].generated = generated
      <4>1. /\ ancestry \in SUBSET Nat /\ generated \in BOOLEAN /\ claims \in SUBSET Nat
            /\ index' \in Store /\ NewCommit(ancestry, generated, claims, index')
        BY <1>1, <3>1, CommitFacts DEF Made
      <4>. QED  BY <1>1, <4>1, NewCommitKind, Zenon
    <3>3. index' \in Store
      BY <1>1, <1>4, DevType DEF RepoTypeOK
    <3>4. NewCommit(Anc(head), FALSE, {}, index')
      <4>1. ~DevReset /\ ~DevMerge
        BY DEF DevReset, DevMerge, Dev, OneLineage
      <4>2. DevClean \/ Tick => UNCHANGED <<history, head>>
        BY DEF DevClean, Tick
      <4>3. DevCommit \/ DevDrop
        BY <1>4, <2>2, <4>1, <4>2 DEF DevStep
      <4>. QED  BY <4>3 DEF DevCommit, DevDrop
    <3>5. history'[head'].generated = FALSE
      <4>1. /\ FALSE \in BOOLEAN /\ {} \in SUBSET Nat
            /\ Anc(head) \in SUBSET Nat
        BY <1>1, CommitFacts
      <4>. QED  BY <1>1, <3>3, <3>4, <4>1, NewCommitKind, Zenon
    <3>6. index'.ots \subseteq Commits
      BY <1>1, <1>3, <1>4, DevStored
    <3>. QED  BY <3>1, <3>2, <3>5, <3>6
  <2>. QED  BY <2>1, <2>2
<1>5. CASE DevAmend
  <2>1. Made(Anc(head) \ {head}, IsGenerated(head), history[head].claims, index)
    BY <1>1, <1>5 DEF DevAmend, Made
  <2>2. index.ots \subseteq Commits
    BY <1>3 DEF Stored
  <2>. QED  BY <1>2, <2>1, <2>2
<1>6. CASE \E p \in Proc : Commit(p)
  <2>1. PICK p \in Proc : Commit(p)
    BY <1>6
  <2>2. PICK tree : tree = Put(Tree(head), work, job[p].done)
    OBVIOUS
  <2>3. Made(Anc(head), TRUE, job[p].done, tree)
    BY <2>1, <2>2, CommitMakes
  <2>4. Holds(tree, Tree(head)) /\ Holds(work, tree)
    BY <1>2, <2>2, PutGains
  <2>5. tree.ots \subseteq Commits
    BY <1>3, <2>4 DEF Holds, Stored
  <2>. QED  BY <2>3, <2>4, <2>5
<1>. QED  BY <1>4, <1>5, <1>6, HistoryStays DEF DevStep

(* What HEAD has, everything made since has. *)
LEMMA AscendingNext ==
    OneLineage => (/\ TypeOK /\ Lineal /\ LineagesExist /\ Ascending /\ [Next]_vars
                   => Ascending')
<1>. SUFFICES ASSUME OneLineage, TypeOK, Lineal, LineagesExist, Ascending, [Next]_vars
              PROVE  Ascending'
  OBVIOUS
<1>1. CASE UNCHANGED <<history, head>>
  BY <1>1 DEF Ascending, Commits, Anc
<1>2. CASE \E ancestry, generated, claims, tree : Made(ancestry, generated, claims, tree)
  <2>1. PICK ancestry, generated, claims, tree : Made(ancestry, generated, claims, tree)
    BY <1>2
  <2>2. PICK h : h = head'
    OBVIOUS
  <2>3. /\ Commits' = Commits \cup {h}
        /\ h \in Nat /\ \A c \in Commits : c \in Nat /\ c < h
        /\ \A c \in Commits : Anc(c)' = Anc(c)
        /\ Anc(h)' = ancestry \cup {h}
        /\ ancestry \in SUBSET Commits /\ ancestry \subseteq Anc(head)
    BY <2>1, <2>2, MadeFacts, Zenon DEF TypeOK
  <2>4. ASSUME NEW c \in ancestry \cup {h}, NEW d \in Commits \cup {h}, c <= d
        PROVE  c \in Anc(d)'
    <3>1. CASE d = h
      BY <2>3, <3>1
    <3>2. CASE d # h
      <4>1. d \in Commits /\ c # h
        BY <2>3, <2>4, <3>2
      <4>. QED  BY <2>3, <2>4, <4>1 DEF Ascending
    <3>. QED  BY <3>1, <3>2
  <2>. QED  BY <2>2, <2>3, <2>4 DEF Ascending
<1>. QED  BY <1>1, <1>2, LinearSteps

(* A commit's tree is made from what was there before it.                  *)
LEMMA TreesPastNext ==
    OneLineage => (/\ TypeOK /\ Lineal /\ LineagesExist /\ StoresMeaningful /\ Stacked
                   /\ TreesPast /\ [Next]_vars
                   => TreesPast')
<1>. SUFFICES ASSUME OneLineage, TypeOK, Lineal, LineagesExist, StoresMeaningful, Stacked,
                     TreesPast, [Next]_vars
              PROVE  TreesPast'
  OBVIOUS
<1>1. CASE UNCHANGED <<history, head>>
  BY <1>1 DEF TreesPast, Commits, Tree
<1>2. CASE ~UNCHANGED <<history, head>>
  <2>1. PICK ancestry, generated, claims, tree : /\ Made(ancestry, generated, claims, tree)
                                                 /\ tree.ots \subseteq Commits
    BY <1>2, Grafts
  <2>2. PICK h : h = head'
    OBVIOUS
  <2>3. /\ Commits' = Commits \cup {h}
        /\ h \in Nat /\ \A c \in Commits : c \in Nat /\ c < h
        /\ \A c \in Commits : Tree(c)' = Tree(c)
        /\ Tree(h)' = tree
    BY <2>1, <2>2, MadeFacts, Zenon DEF TypeOK
  <2>. QED  BY <2>1, <2>3 DEF TreesPast
<1>. QED  BY <1>1, <1>2

(* Who makes a commit carries HEAD's tree on, or makes a newer top.        *)
LEMMA TopRecordedNext ==
    OneLineage => (/\ TypeOK /\ Lineal /\ LineagesExist /\ StoresMeaningful /\ Stacked
                   /\ TopRecorded /\ [Next]_vars
                   => TopRecorded')
<1>. SUFFICES ASSUME OneLineage, TypeOK, Lineal, LineagesExist, StoresMeaningful, Stacked,
                     TopRecorded, [Next]_vars
              PROVE  TopRecorded'
  OBVIOUS
<1>1. CASE UNCHANGED <<history, head>>
  BY <1>1 DEF TopRecorded, Tops, Commits, Tree, Anc, IsGenerated
<1>2. CASE ~UNCHANGED <<history, head>>
  <2>1. PICK ancestry, generated, claims, tree :
               /\ Made(ancestry, generated, claims, tree)
               /\ generated => /\ Holds(tree, Tree(head))
                               /\ \/ ancestry = Anc(head)
                                  \/ ancestry = Anc(head) \ {head} /\ IsGenerated(head)
    BY <1>2, Grafts
  <2>2. PICK h : h = head'
    OBVIOUS
  <2>3. /\ Commits' = Commits \cup {h} /\ h \notin Commits
        /\ \A c \in Commits : /\ Anc(c)' = Anc(c) /\ Tree(c)' = Tree(c)
                              /\ IsGenerated(c)' = IsGenerated(c)
        /\ Anc(h)' = ancestry \cup {h} /\ Tree(h)' = tree
        /\ IsGenerated(h)' = generated
        /\ ancestry \in SUBSET Commits /\ ancestry \subseteq Anc(head)
        /\ head \in Commits /\ generated \in BOOLEAN
    <3>1. generated \in BOOLEAN
      BY <2>1 DEF Made
    <3>. QED  BY <2>1, <2>2, <3>1, MadeFacts, Zenon DEF TypeOK
  <2>4. SUFFICES ASSUME NEW t \in Commits \cup {h}, NEW g \in Commits \cup {h}, g # h,
                        t \in ancestry \cup {h}, ~IsGenerated(t)',
                        \A c \in ancestry \cup {h} : IsGenerated(c)' \/ c \in Anc(t)',
                        t \in Anc(g)',
                        \A c \in Anc(g)' : IsGenerated(c)' \/ c \in Anc(t)'
                 PROVE  Holds(tree, Tree(g))
    BY <2>2, <2>3, HoldsItself DEF TopRecorded, Tops
  <2>5. t \in Commits /\ g \in Commits
    BY <2>3, <2>4 DEF LineagesExist
  <2>6. generated
    BY <2>3, <2>4, <2>5 DEF LineagesExist
  <2>7. Tops(t, head)
    <3>1. t \in Anc(head) /\ ~IsGenerated(t)
      BY <2>3, <2>4, <2>5
    <3>2. ASSUME NEW c \in Anc(head), c \notin ancestry
          PROVE  IsGenerated(c)
      BY <2>1, <2>6, <3>2
    <3>3. \A c \in ancestry : IsGenerated(c) \/ c \in Anc(t)
      BY <2>3, <2>4, <2>5
    <3>. QED  BY <3>1, <3>2, <3>3 DEF Tops
  <2>8. Tops(t, g)
    <3>1. Anc(g) \subseteq Commits
      BY <2>5 DEF LineagesExist
    <3>. QED  BY <2>3, <2>4, <2>5, <3>1 DEF Tops
  <2>9. Holds(Tree(head), Tree(g))
    BY <2>5, <2>7, <2>8 DEF TopRecorded
  <2>. QED  BY <2>1, <2>6, <2>9, HoldsChain
<1>. QED  BY <1>1, <1>2

-----------------------------------------------------------------------------
(* A run's decision, and what becomes of it *)

(* Whose run is under way, and past the snapshot, was before the step. *)
LEMMA WasRunning ==
    ASSUME TypeOK, NEW p \in Proc, Step(p) \/ Disturb(p), pc'[p] \in Running, ~TakeSnapshot(p)
    PROVE  pc[p] \in Running /\ Frozen(job[p], job'[p]) /\ Step(p) /\ ~Survey(p)
<1>1. /\ pc'[p] # "idle" /\ ~Survey(p)
      /\ ~(RepairPassesOver(p) \/ RepairTag(p)) /\ ~(Ending(p) \/ SubmitFails(p))
  BY SurveyDoes, RepairDoes, EndDoes DEF Running, Selecting
<1>2. Frozen(job[p], job'[p])
  BY <1>1, StaysFrozen
<1>3. Step(p)
  BY <1>1 DEF Disturb, Ending
<1>4. pc[p] \in Running
  BY <1>1, <1>3 DEF Step, Ending, Running, Selecting, At, Scan, AdoptLegacy, BeginCompletion,
     CompleteTag, PassOver, Recover, BeginSubmit, Submit, PersistProof, PersistManifest,
     FinishSelection, CheckDurable, Stage, Commit, TagNext
<1>. QED  BY <1>1, <1>2, <1>3, <1>4

(* The baseline a decision was made from stays: tags are not deleted, and  *)
(* trees never change.                                                     *)
LEMMA DecidedStays ==
    ASSUME HistoryGrows, LineagesExist, tags \subseteq tags', NEW j, j.src \in Commits,
           JobDecided(j)
    PROVE  JobDecided(j)'
<1>1. PICK src, base, clock : src = j.src /\ base = j.base /\ clock = j.clock
  OBVIOUS
<1>2. PICK b : b = BaseSource(base)
  OBVIOUS
<1>3. b # None => b \in Anc(src)
  BY <1>1, <1>2 DEF JobDecided, BaseSource
<1>4. /\ Anc(src)' = Anc(src) /\ Tree(src)' = Tree(src)
      /\ PendingMeaningful(src, b)' = PendingMeaningful(src, b)
  BY <1>1, <1>3, PendingStays
<1>5. \A c \in Anc(src) : history'[c] = history[c]
  BY <1>1 DEF HistoryGrows, LineagesExist
<1>6. GeneratedAncestors(src)' = GeneratedAncestors(src)
  BY <1>4, <1>5 DEF GeneratedAncestors, IsGenerated
<1>7. Candidates(src, base)' = Candidates(src, base)
  BY <1>2, <1>4, <1>5 DEF Candidates, PendingMeaningful
<1>8. DecisionWith(src, base, clock)' = DecisionWith(src, base, clock)
  BY <1>7 DEF DecisionWith
<1>. QED  BY <1>1, <1>4, <1>6, <1>8 DEF JobDecided, Proven

(* build_snapshot decides from the baseline it has just read.              *)
LEMMA SnapshotDecided ==
    ASSUME TypeOK, LineagesExist, NEW p \in Proc, TakeSnapshot(p)
    PROVE  JobDecided(job[p])'
<1>1. /\ job'[p].src = head /\ job'[p].base = Baseline(head) /\ job'[p].clock = job[p].clock
      /\ job'[p].decision = DecisionFor(head, job[p].clock).commits
  BY TakeSnapshotDoes
<1>2. PICK j : j = job'[p]
  OBVIOUS
<1>3. JobDecided(j)
  BY <1>1, <1>2, BaselineOnLineage, DecidesWith DEF JobDecided
<1>4. UNCHANGED repoVars
  BY DEF TakeSnapshot
<1>5. HistoryGrows /\ tags' = tags /\ head \in Commits
  BY <1>4, UnchangedRepo DEF TypeOK, RepoTypeOK, Commits, repoVars
<1>6. JobDecided(j)'
  BY <1>1, <1>2, <1>3, <1>5, DecidedStays
<1>. QED  BY <1>2, <1>6

LEMMA JobsDecidedNext ==
    /\ TypeOK /\ JobsConsistent /\ LockHeld /\ LineagesExist /\ JobsDecided /\ [Next]_vars
    => JobsDecided'
<1>. SUFFICES ASSUME TypeOK, JobsConsistent, LockHeld, LineagesExist, JobsDecided, [Next]_vars
              PROVE  JobsDecided'
  OBVIOUS
<1>1. HistoryGrows /\ tags \subseteq tags'
  BY TypeStep, TagSteps DEF vars, repoVars, HistoryGrows, Commits
<1>2. ASSUME NEW p \in Proc, pc[p] \in Running, Frozen(job[p], job'[p])
      PROVE  JobDecided(job[p])'
  <2>1. PICK j, k : j = job[p] /\ k = job'[p]
    OBVIOUS
  <2>2. JobDecided(j) /\ j.src \in Commits
    BY <1>2, <2>1 DEF JobsDecided, JobsConsistent, Running, Selecting
  <2>3. JobDecided(j)'
    BY <1>1, <2>2, DecidedStays
  <2>4. k.src = j.src /\ k.base = j.base /\ k.clock = j.clock /\ k.decision = j.decision
    BY <1>2, <2>1 DEF Frozen
  <2>5. JobDecided(k)'
    BY <2>3, <2>4 DEF JobDecided
  <2>. QED  BY <2>1, <2>5
<1>3. CASE \E p \in Proc : Acquire(p) \/ AcquireForRepair(p) \/ Step(p) \/ Disturb(p)
  <2>1. PICK p \in Proc : Acquire(p) \/ AcquireForRepair(p) \/ Step(p) \/ Disturb(p)
    BY <1>3
  <2>2. \A q \in Proc \ {p} : pc'[q] \notin Running
    BY <2>1, OthersIdle DEF Running, Selecting
  <2>3. SUFFICES ASSUME pc'[p] \in Running
                 PROVE  JobDecided(job[p])'
    BY <2>2 DEF JobsDecided
  <2>4. CASE TakeSnapshot(p)
    BY <2>4, SnapshotDecided
  <2>5. CASE ~TakeSnapshot(p)
    <3>1. Step(p) \/ Disturb(p)
      BY <2>1, <2>3 DEF Acquire, AcquireForRepair, TypeOK, Running, Selecting
    <3>. QED  BY <1>2, <2>3, <2>5, <3>1, WasRunning
  <2>. QED  BY <2>4, <2>5
<1>4. CASE UNCHANGED <<pc, job>>
  BY <1>2, <1>4 DEF JobsDecided, Frozen
<1>. QED  BY <1>3, <1>4, WhoMoves
LEMMA StepCarried ==
    ASSUME TypeOK, NEW p \in Proc, Step(p) \/ Disturb(p), tags \subseteq tags',
           job[p].inflight = {} => JobCarried(job[p], pc[p]), job'[p].inflight = {}
    PROVE  JobCarried(job[p], pc[p])'
<1>. DEFINE c == Min(job[p].todo)
<1>1. TaggedSources \subseteq TaggedSources'
  BY DEF TaggedSources
<1>2. CASE pc'[p] \notin Running
  BY <1>2 DEF JobCarried, Running, Selecting
<1>3. CASE TakeSnapshot(p)
  BY <1>3, TakeSnapshotDoes DEF JobCarried, Selecting
<1>4. CASE Scan(p)
  <2>1. /\ job'[p].todo = job[p].decision /\ job'[p].decision = job[p].decision
        /\ pc'[p] = "adopt" => job[p].decision = {}
        /\ pc'[p] \in {"adopt", "select"}
    BY <1>4, ScanDoes DEF Frozen
  <2>. QED  BY <2>1 DEF JobCarried, Selecting
<1>5. CASE pc'[p] \in Running /\ ~TakeSnapshot(p) /\ ~Scan(p)
  <2>1. /\ pc'[p] # "idle"
        /\ ~(RepairPassesOver(p) \/ RepairTag(p)) /\ ~(Ending(p) \/ SubmitFails(p))
    BY <1>5, RepairDoes, EndDoes DEF Running, Selecting
  <2>2. Step(p) /\ ~Survey(p) /\ Frozen(job[p], job'[p])
    BY <1>5, WasRunning
  <2>3. job'[p].decision = job[p].decision
    BY <2>2 DEF Frozen
  <2>4. JobCarried(job[p], pc[p])
    BY <1>5, <2>1, <2>2, InflightStays
  <2>5. CASE AdoptLegacy(p) \/ BeginCompletion(p) \/ PassOver(p) \/ CompleteTag(p)
    <3>1. pc[p] \in {"adopt", "complete"}
      BY <2>5, Zenon DEF AdoptLegacy, BeginCompletion, PassOver, CompleteTag, At
    <3>2. job'[p].decision = {}
      BY <2>3, <2>4, <3>1 DEF JobCarried
    <3>. QED  BY <3>2 DEF JobCarried
  <2>6. CASE Recover(p) \/ PersistManifest(p)
    <3>1. /\ pc[p] \in {"select", "manifest"} /\ pc'[p] = "select"
          /\ job'[p].todo = job[p].todo \ {c} /\ job'[p].done = job[p].done \cup {c}
      BY <2>6, RecoverDoes, PersistManifestDoes
    <3>. HIDE DEF c
    <3>. QED  BY <2>3, <2>4, <3>1 DEF JobCarried, Selecting
  <2>7. CASE BeginSubmit(p) \/ Submit(p) \/ PersistProof(p) \/ FinishSelection(p)
             \/ Stage(p) \/ Commit(p)
    <3>1. /\ job'[p] = job[p]
          /\ \/ pc[p] \in Selecting /\ pc'[p] \in Selecting
             \/ pc[p] = "select" /\ pc'[p] = "durable" /\ job[p].todo = {}
             \/ pc[p] = "stage" /\ pc'[p] = "commit"
             \/ pc[p] = "commit" /\ pc'[p] = "tag"
      BY <2>7, MovesOn DEF FinishSelection, Selecting
    <3>. QED  BY <2>4, <3>1 DEF JobCarried, Selecting
  <2>8. CASE CheckDurable(p)
    <3>1. /\ pc[p] = "durable" /\ pc'[p] \in {"stage", "tag"}
          /\ job'[p].todo = job[p].done
      BY <2>8, CheckDurableDoes
    <3>. QED  BY <2>3, <2>4, <3>1 DEF JobCarried, Selecting
  <2>9. CASE TagNext(p)
    <3>1. /\ pc[p] = "tag" /\ pc'[p] = "tag"
          /\ tags' = tags \cup {StampOf(job[p], c)}
          /\ job'[p].todo = job[p].todo \ {c}
      BY <2>1, <2>9, TagNextDoes
    <3>2. StampOf(job[p], c).src = c
      BY StampOfFacts
    <3>3. c \in TaggedSources'
      BY <3>1, <3>2 DEF TaggedSources
    <3>. HIDE DEF c
    <3>4. job[p].decision \subseteq job[p].todo \cup TaggedSources
      BY <2>4, <3>1 DEF JobCarried
    <3>5. job'[p].decision \subseteq job'[p].todo \cup TaggedSources'
      BY <1>1, <2>3, <3>1, <3>3, <3>4
    <3>. QED  BY <3>1, <3>5 DEF JobCarried, Selecting
  <2>. QED  BY <1>5, <2>1, <2>2, <2>5, <2>6, <2>7, <2>8, <2>9 DEF Step, Ending
<1>. QED  BY <1>2, <1>3, <1>4, <1>5

LEMMA JobsCarriedNext == TypeOK /\ LockHeld /\ JobsCarried /\ [Next]_vars => JobsCarried'
<1>. SUFFICES ASSUME TypeOK, LockHeld, JobsCarried, [Next]_vars PROVE JobsCarried'
  OBVIOUS
<1>1. tags \subseteq tags'
  BY TagSteps
<1>2. CASE \E p \in Proc : Acquire(p) \/ AcquireForRepair(p) \/ Step(p) \/ Disturb(p)
  <2>1. PICK p \in Proc : Acquire(p) \/ AcquireForRepair(p) \/ Step(p) \/ Disturb(p)
    BY <1>2
  <2>2. \A q \in Proc \ {p} : JobCarried(job[q], pc[q])'
    BY <2>1, OthersIdle DEF JobCarried, Selecting
  <2>3. CASE Acquire(p) \/ AcquireForRepair(p)
    <3>1. pc'[p] \in {"snapshot", "survey"}
      BY <2>3 DEF Acquire, AcquireForRepair, TypeOK
    <3>2. JobCarried(job[p], pc[p])'
      BY <3>1 DEF JobCarried, Selecting
    <3>. QED  BY <2>2, <3>2 DEF JobsCarried
  <2>4. CASE Step(p) \/ Disturb(p)
    <3>1. job'[p].inflight = {} => JobCarried(job[p], pc[p])'
      BY <1>1, <2>4, StepCarried DEF JobsCarried
    <3>. QED  BY <2>2, <3>1 DEF JobsCarried
  <2>. QED  BY <2>1, <2>3, <2>4
<1>3. CASE UNCHANGED <<pc, job, tags>>
  BY <1>3 DEF JobsCarried, JobCarried, TaggedSources
<1>. QED  BY <1>2, <1>3, WhoMoves

-----------------------------------------------------------------------------
(* A run without a decision tags nothing below its baseline *)

(* A baseline that is not a recorded one is the tag that is preferred on   *)
(* the lineage: the latest, and of those the one with the greatest id.     *)
LEMMA BaselinePreferred ==
    ASSUME NEW src, Baseline(src) # None, ~Proven(src, Baseline(src)),
           NEW t \in tags, t.src \in Anc(src)
    PROVE  /\ Baseline(src) \in tags
           /\ \/ Baseline(src).at > t.at
              \/ Baseline(src).at = t.at /\ Sha(Baseline(src).src) >= Sha(t.src)
<1>1. Baseline(src) = TagBaseline(src) /\ TagBaseline(src) # None
  <2>. DEFINE found  == {m \in Tree(src).json : m.src \in Anc(src) \cap Tree(src).ots}
              newest == {m \in found : \A n \in found :
                            \/ m.at > n.at
                            \/ m.at = n.at /\ m.src >= n.src}
  <2>1. ProofCommitBaseline(src) # None => /\ ProofCommitBaseline(src) \in newest
                                           /\ GeneratedAncestors(src) # {}
    BY Zenon DEF ProofCommitBaseline
  <2>2. ProofCommitBaseline(src) # None => Proven(src, ProofCommitBaseline(src))
    BY <2>1 DEF Proven
  <2>. QED  BY <2>2 DEF Baseline
<1>. DEFINE onLineage == {u \in tags : u.src \in Anc(src)}
            newest == {u \in onLineage : \A v \in onLineage :
                          \/ u.at > v.at
                          \/ u.at = v.at /\ Sha(u.src) >= Sha(v.src)}
<1>2. TagBaseline(src) \in newest
  BY <1>1, Zenon DEF TagBaseline
<1>. QED  BY <1>1, <1>2

LEMMA SettledStays ==
    ASSUME HistoryGrows, LineagesExist, NEW j, j.src \in Commits, JobDecided(j)
    PROVE  Below(j.base)' = Below(j.base) /\ Proven(j.src, j.base)' = Proven(j.src, j.base)
<1>1. PICK src, base : src = j.src /\ base = j.base
  OBVIOUS
<1>2. base # None => base.src \in Commits
  BY <1>1 DEF JobDecided, LineagesExist
<1>3. Anc(src)' = Anc(src) /\ Tree(src)' = Tree(src)
  BY <1>1, PendingStays
<1>4. \A c \in Anc(src) : history'[c] = history[c]
  BY <1>1 DEF HistoryGrows, LineagesExist
<1>5. GeneratedAncestors(src)' = GeneratedAncestors(src)
  BY <1>3, <1>4 DEF GeneratedAncestors, IsGenerated
<1>6. Proven(src, base)' = Proven(src, base)
  BY <1>3, <1>5 DEF Proven
<1>7. base # None => Anc(base.src)' = Anc(base.src)
  BY <1>2 DEF HistoryGrows, Anc
<1>8. Below(base)' = Below(base)
  BY <1>7 DEF Below
<1>. QED  BY <1>1, <1>6, <1>8

LEMMA SnapshotSettled ==
    ASSUME TypeOK, LineagesExist, Lineal, NEW p \in Proc, TakeSnapshot(p)
    PROVE  JobSettled(job[p], pc[p])'
<1>1. /\ pc'[p] = "scan" /\ job'[p].src = head /\ job'[p].base = Baseline(head)
      /\ job'[p].pending = PendingMeaningful(head, BaseSource(Baseline(head)))
  <2>1. p \in DOMAIN job /\ "pending" \in DOMAIN job[p]
    BY DEF TypeOK, Job
  <2>. QED  BY <2>1, TakeSnapshotDoes DEF TakeSnapshot
<1>2. PICK src, base : src = head /\ base = Baseline(head)
  OBVIOUS
<1>3. UNCHANGED repoVars /\ head \in Commits /\ tags \subseteq Stamp
  BY DEF TakeSnapshot, TypeOK, RepoTypeOK, Commits
<1>4. PendingMeaningful(src, BaseSource(base)) \cap Below(base) = {}
  <2>1. ASSUME base # None
        PROVE  base.src # None
    <3>1. base.src \in Anc(src) /\ Anc(src) \subseteq Nat
      BY <1>2, <1>3, <2>1, BaselineOnLineage, CommitFacts DEF TypeOK
    <3>. QED  BY <3>1, PolicyAssumption
  <2>. QED  BY <2>1 DEF PendingMeaningful, BaseSource, Below
<1>5. ASSUME ~Proven(src, base), NEW t \in tags, t.src \in Below(base), t.at = base.at
      PROVE  Sha(t.src) <= Sha(base.src)
  <2>1. base # None /\ t.src \in Anc(base.src)
    BY <1>5 DEF Below
  <2>2. t.src \in Anc(src)
    BY <1>2, <1>3, <2>1, BaselineOnLineage DEF Lineal
  <2>3. \/ base.at > t.at
        \/ Sha(base.src) >= Sha(t.src)
    BY <1>2, <1>5, <2>1, <2>2, BaselinePreferred
  <2>4. t.at \in Nat
    BY <1>3 DEF Stamp
  <2>. QED  BY <1>5, <2>3, <2>4
<1>6. /\ Below(base)' = Below(base) /\ Proven(src, base)' = Proven(src, base)
      /\ tags' = tags
  BY <1>3 DEF repoVars, Below, Proven, Anc, Tree, GeneratedAncestors, IsGenerated
<1>. QED  BY <1>1, <1>2, <1>4, <1>5, <1>6 DEF JobSettled, Selecting

LEMMA StepSettled ==
    ASSUME TypeOK, JobsConsistent, LineagesExist, HistoryGrows, JobsDecided, JobsSettled,
           NEW p \in Proc, Step(p) \/ Disturb(p), ~TakeSnapshot(p),
           pc'[p] \in Running, job'[p].decision = {}, job'[p].inflight = {}
    PROVE  JobSettled(job[p], pc[p])'
<1>1. pc[p] \in Running /\ Frozen(job[p], job'[p]) /\ Step(p) /\ ~Survey(p)
  BY WasRunning
<1>2. PICK j, k, step : j = job[p] /\ k = job'[p] /\ step = pc'[p]
  OBVIOUS
<1>3. k.src = j.src /\ k.base = j.base /\ j.decision = {}
  BY <1>1, <1>2 DEF Frozen
<1>4. JobSettled(j, pc[p])
  <2>1. ~Scan(p) => job[p].inflight = {}
    BY <1>1, InflightStays DEF Running, Selecting
  <2>2. Scan(p) => pc[p] = "scan"
    BY DEF Scan, At
  <2>. QED  BY <1>1, <1>2, <1>3, <2>1, <2>2 DEF JobsSettled
<1>5. Below(k.base)' = Below(j.base) /\ Proven(k.src, k.base)' = Proven(j.src, j.base)
  <2>1. JobDecided(j) /\ j.src \in Commits
    BY <1>1, <1>2 DEF JobsDecided, JobsConsistent, Running, Selecting
  <2>. QED  BY <1>3, <2>1, SettledStays
<1>6. pc[p] \notin Selecting \cup {"durable"}
  BY <1>4 DEF JobSettled
<1>7. ASSUME /\ step \notin Selecting \cup {"durable"}
             /\ step \in {"stage", "commit", "tag"} => k.todo = {}
             /\ step \in {"scan", "adopt"} => k.pending \cap Below(j.base) = {}
             /\ step = "complete" => k.todo \cap Below(j.base) = {},
             \A t \in tags' : t \in tags \/ t.src \notin Below(j.base)
      PROVE  JobSettled(k, step)'
  BY <1>3, <1>4, <1>5, <1>7 DEF JobSettled
<1>8. CASE Scan(p)
  <2>1. step = "adopt" /\ k.pending = j.pending /\ tags' = tags
    <3>1. InFlight(j.src, j.decision) = {}
      BY <1>2, <1>8, ScanDoes
    <3>2. p \in DOMAIN pc /\ p \in DOMAIN job /\ "pending" \in DOMAIN job[p]
      BY DEF TypeOK, Job
    <3>3. pc' = [pc EXCEPT ![p] = "adopt"]
      BY <1>2, <1>3, <1>8, <3>1 DEF Scan, Goto
    <3>4. k.pending = j.pending /\ tags' = tags
      BY <1>2, <1>8, <3>2 DEF Scan, repoVars
    <3>. QED  BY <1>2, <3>2, <3>3, <3>4
  <2>2. pc[p] = "scan"
    BY <1>8 DEF Scan, At
  <2>. QED  BY <1>2, <1>4, <1>7, <2>1, <2>2 DEF JobSettled, Selecting
<1>9. CASE AdoptLegacy(p)
  <2>1. step = "stage" /\ k.todo = {} /\ tags' = tags
    BY <1>2, <1>9, AdoptLegacyDoes DEF JobsConsistent, AdoptLegacy, repoVars
  <2>. QED  BY <1>2, <1>7, <2>1 DEF Selecting
<1>10. CASE BeginCompletion(p)
  <2>1. /\ pc[p] = "adopt" /\ step = "complete" /\ tags' = tags
        /\ k.todo \subseteq ({BaseSource(j.base)} \ {None}) \cup j.pending
    BY <1>2, <1>10 DEF BeginCompletion, At, Goto, TypeOK, repoVars
  <2>2. BaseSource(j.base) \notin Below(j.base)
    BY DEF BaseSource, Below
  <2>3. k.todo \cap Below(j.base) = {}
    BY <1>4, <2>1, <2>2 DEF JobSettled
  <2>. QED  BY <1>2, <1>7, <2>1, <2>3 DEF Selecting
<1>11. CASE CompleteTag(p)
  <2>1. PICK c : c = NextToComplete(j)
    OBVIOUS
  <2>2. PICK m : m = CompletionEvidence(j, c)
    OBVIOUS
  <2>3. /\ pc[p] = "complete" /\ j.todo # {} /\ m # None
        /\ TagOrFail(p, m, [j EXCEPT !.todo = @ \ {c}, !.rec = @ \cup {m}])
    BY <1>2, <1>11, <2>1, <2>2, Zenon DEF CompleteTag, At
  <2>4. step # "idle"
    BY <1>2 DEF Running, Selecting
  <2>5. j \in Job
    BY <1>2, JobFacts
  <2>6. step = "complete" /\ tags' = tags \cup {m} /\ k.todo = j.todo \ {c}
    <3>1. p \in DOMAIN pc /\ p \in DOMAIN job
      BY DEF TypeOK
    <3>2. ~TagCollides(m)
      BY <1>2, <2>3, <2>4, <3>1 DEF TagOrFail, End
    <3>3. /\ tags' = tags \cup {m} /\ pc' = pc
          /\ job' = [job EXCEPT ![p] = [j EXCEPT !.todo = @ \ {c}, !.rec = @ \cup {m}]]
      BY <2>3, <3>2 DEF TagOrFail
    <3>4. k = [j EXCEPT !.todo = @ \ {c}, !.rec = @ \cup {m}]
      BY <1>2, <3>1, <3>3
    <3>5. k.todo = j.todo \ {c}
      BY <2>5, <3>4 DEF Job
    <3>. QED  BY <1>2, <2>3, <3>3, <3>5
  <2>7. c \in j.todo
    <3>1. j.todo \in SUBSET Nat /\ None \notin j.todo
      BY <1>2, JobFacts, PolicyAssumption
    <3>2. Min(j.todo) \in j.todo
      BY <2>3, <3>1, MinType
    <3>. QED  BY <2>1, <3>1, <3>2 DEF NextToComplete, BaseSource
  <2>8. m.src = c
    BY <2>2, <2>3, EvidenceFacts
  <2>9. j.todo \cap Below(j.base) = {}
    BY <1>4, <2>3 DEF JobSettled
  <2>. QED  BY <1>2, <1>7, <2>6, <2>7, <2>8, <2>9 DEF Selecting
<1>12. CASE PassOver(p)
  <2>1. /\ pc[p] = "complete" /\ step = "complete" /\ tags' = tags
        /\ k.todo \subseteq j.todo
    BY <1>2, <1>12 DEF PassOver, At, Goto, TypeOK, repoVars
  <2>. QED  BY <1>2, <1>4, <1>7, <2>1 DEF JobSettled, Selecting
<1>13. CASE Stage(p) \/ Commit(p)
  <2>1. /\ k = j /\ pc[p] \in {"stage", "commit"} /\ step \in {"commit", "tag"}
    BY <1>2, <1>13, MovesOn
  <2>2. tags' = tags
    BY <1>13, Zenon DEF Stage, Commit
  <2>. QED  BY <1>2, <1>4, <1>7, <2>1, <2>2 DEF JobSettled, Selecting
<1>14. CASE TagNext(p)
  BY <1>2, <1>4, <1>14, TagNextDoes DEF JobSettled
<1>15. ASSUME \/ Recover(p) \/ BeginSubmit(p) \/ Submit(p) \/ PersistProof(p)
              \/ PersistManifest(p) \/ FinishSelection(p) \/ CheckDurable(p)
       PROVE  FALSE
  BY <1>6, <1>15 DEF Recover, BeginSubmit, Submit, PersistProof, PersistManifest,
     FinishSelection, CheckDurable, At, Selecting
<1>16. ~(RepairPassesOver(p) \/ RepairTag(p)) /\ ~(Ending(p) \/ SubmitFails(p))
  BY RepairDoes, EndDoes DEF Running, Selecting
<1>. QED  BY <1>1, <1>2, <1>8, <1>9, <1>10, <1>11, <1>12, <1>13, <1>14, <1>15, <1>16
          DEF Step, Ending

LEMMA JobsSettledNext ==
    /\ TypeOK /\ JobsConsistent /\ LockHeld /\ LineagesExist /\ Lineal
    /\ JobsDecided /\ JobsSettled /\ [Next]_vars
    => JobsSettled'
<1>. SUFFICES ASSUME TypeOK, JobsConsistent, LockHeld, LineagesExist, Lineal,
                     JobsDecided, JobsSettled, [Next]_vars
              PROVE  JobsSettled'
  OBVIOUS
<1>1. HistoryGrows
  BY TypeStep DEF vars, repoVars, HistoryGrows, Commits
<1>2. CASE \E p \in Proc : Acquire(p) \/ AcquireForRepair(p) \/ Step(p) \/ Disturb(p)
  <2>1. PICK p \in Proc : Acquire(p) \/ AcquireForRepair(p) \/ Step(p) \/ Disturb(p)
    BY <1>2
  <2>2. \A q \in Proc \ {p} : pc'[q] \notin Running
    BY <2>1, OthersIdle DEF Running, Selecting
  <2>3. SUFFICES ASSUME pc'[p] \in Running, job'[p].decision = {},
                        pc'[p] = "scan" \/ job'[p].inflight = {}
                 PROVE  JobSettled(job[p], pc[p])'
    BY <2>2 DEF JobsSettled
  <2>4. Step(p) \/ Disturb(p)
    BY <2>1, <2>3 DEF Acquire, AcquireForRepair, TypeOK, Running, Selecting
  <2>5. CASE TakeSnapshot(p)
    BY <2>5, SnapshotSettled
  <2>6. CASE ~TakeSnapshot(p)
    <3>1. Step(p) /\ ~Survey(p)
      BY <2>3, <2>4, <2>6, WasRunning
    <3>2. ~(RepairPassesOver(p) \/ RepairTag(p)) /\ ~(Ending(p) \/ SubmitFails(p))
      BY <2>3, RepairDoes, EndDoes DEF Running, Selecting
    <3>3. pc'[p] # "scan"
      BY <2>6, <3>1, <3>2, MovesOn, ScanDoes, AdoptLegacyDoes, CheckDurableDoes, RecoverDoes,
         PersistManifestDoes, TagNextDoes
         DEF Step, Ending, BeginCompletion, CompleteTag, TagOrFail, PassOver, Goto, End,
             TypeOK, At
    <3>. QED  BY <1>1, <2>3, <2>4, <2>6, <3>3, StepSettled
  <2>. QED  BY <2>5, <2>6
<1>3. CASE UNCHANGED <<pc, job, tags>>
  <2>1. SUFFICES ASSUME NEW p \in Proc, pc[p] \in Running, JobSettled(job[p], pc[p])
                 PROVE  JobSettled(job[p], pc[p])'
    BY <1>3 DEF JobsSettled
  <2>2. PICK j, step : j = job[p] /\ step = pc[p]
    OBVIOUS
  <2>3. JobDecided(j) /\ j.src \in Commits
    BY <2>1, <2>2 DEF JobsDecided, JobsConsistent, Running, Selecting
  <2>4. Below(j.base)' = Below(j.base) /\ Proven(j.src, j.base)' = Proven(j.src, j.base)
    BY <1>1, <2>3, SettledStays
  <2>5. JobSettled(j, step)'
    BY <1>3, <2>1, <2>2, <2>4 DEF JobSettled
  <2>. QED  BY <1>3, <2>2, <2>5
<1>. QED  BY <1>2, <1>3, WhoMoves

-----------------------------------------------------------------------------
(* Once the newest commit is recorded, nothing is due *)

(* What is true of the history, the stores and the submissions. *)
Ordered ==
    /\ TypeOK /\ LineagesExist /\ Lineal /\ Chained /\ StoresAttested /\ IsFiniteSet(calendar)
    /\ TimesOrdered /\ HeadIsNewest /\ Dated /\ InOrder
    /\ Ascending /\ TreesPast /\ TopRecorded

(* If HEAD's tree has the newest commit's proof and manifest, the baseline *)
(* is that commit: manifests are in the order of their sources.            *)
LEMMA TopProven ==
    ASSUME Ordered, NEW t \in Commits, Tops(t, head),
           NEW s \in Tree(head).json, s.src = t, t \in Tree(head).ots, NEW clock
    PROVE  DecisionFor(head, clock).commits = {}
<1>1. RepoTypeOK /\ head \in Commits /\ head \in Nat /\ t \in Nat
  BY CommitFacts DEF Ordered, TypeOK, RepoTypeOK, Commits
<1>2. t < head
  BY <1>1 DEF Ordered, TreesPast
<1>3. Anc(t) \subseteq 1..t /\ head \in Anc(head)
  BY <1>1 DEF Ordered, Lineal
<1>4. GeneratedAncestors(head) # {}
  <2>1. head \notin Anc(t)
    BY <1>1, <1>2, <1>3
  <2>. QED  BY <1>3, <2>1 DEF Tops, GeneratedAncestors
<1>5. Tree(head).json \subseteq calendar /\ tags \subseteq calendar
  BY <1>1 DEF Ordered, StoresAttested
<1>6. IsFiniteSet(Tree(head).json)
  BY <1>5, FS_Subset DEF Ordered
<1>7. PICK base : base = Baseline(head)
  OBVIOUS
<1>8. base \in Stamp /\ (base.at > s.at \/ (base.at = s.at /\ base.src >= s.src))
  <2>1. s.src \in Anc(head) /\ s.src \in Tree(head).ots
    BY DEF Tops
  <2>. QED  BY <1>1, <1>4, <1>6, <1>7, <2>1, NewestProof
<1>9. base # None
  BY <1>8, AbsentStamp
<1>10. base.src \in Anc(head) /\ base \in calendar
  BY <1>5, <1>7, <1>9, BaselineOnLineage DEF Proven
<1>11. base.src \in Anc(t)
  BY <1>10 DEF Ordered, Dated, Tops
<1>12. base.src = t
  <2>1. base.src \in Nat /\ base.at \in Nat /\ s.at \in Nat /\ base.src <= t
    <3>1. s \in Stamp
      BY <1>1, CommitFacts
    <3>. QED  BY <1>1, <1>3, <1>8, <1>11, <3>1 DEF Stamp
  <2>2. base.src # t => base.at <= s.at
    BY <1>5, <1>10, <1>11 DEF Ordered, InOrder
  <2>. QED  BY <1>1, <1>8, <2>1, <2>2
<1>13. PendingMeaningful(head, BaseSource(base)) = {}
  <2>1. BaseSource(base) = t /\ t # None
    BY <1>1, <1>9, <1>12, PolicyAssumption DEF BaseSource
  <2>. QED  BY <2>1 DEF PendingMeaningful, Tops
<1>. QED  BY <1>7, <1>13, DecidesWith, DecidesPending

(* What records the newest commit anywhere, HEAD's tree has. *)
LEMMA TopWitnessed ==
    ASSUME Ordered, NEW t \in Commits, Tops(t, head), NEW s, s.src = t, Witnessed(s)
    PROVE  t \in Tree(head).ots /\ s \in Tree(head).json
<1>1. RepoTypeOK /\ head \in Commits
  BY DEF Ordered, TypeOK, RepoTypeOK, Commits
<1>2. PICK g \in Commits : t \in Tree(g).ots /\ s \in Tree(g).json
  BY DEF Witnessed
<1>3. t \in Nat /\ g \in Nat /\ t < g
  BY <1>1, <1>2, CommitFacts DEF Ordered, TreesPast
<1>4. t \in Anc(g)
  BY <1>3 DEF Ordered, Ascending, Tops
<1>5. ASSUME NEW c \in Anc(g)
      PROVE  IsGenerated(c) \/ c \in Anc(t)
  <2>1. /\ c \in Nat /\ t \in Nat /\ c \in Commits
        /\ (c \in Anc(t) <=> c <= t) /\ (t \in Anc(c) <=> t <= c)
    BY <1>1, <1>4, ChainOrder DEF Ordered
  <2>2. CASE c <= t
    BY <2>1, <2>2 DEF Ordered, Chained, Tops
  <2>3. CASE ~(c <= t)
    <3>1. t \in Anc(c) /\ c # t
      BY <1>4, <2>1, <2>3 DEF Ordered, Chained
    <3>. QED  BY <2>1, <3>1 DEF Ordered, HeadIsNewest
  <2>. QED  BY <2>2, <2>3
<1>6. Tops(t, g)
  BY <1>4, <1>5 DEF Tops
<1>7. Holds(Tree(head), Tree(g))
  BY <1>6 DEF Ordered, TopRecorded
<1>. QED  BY <1>2, <1>7 DEF Holds

(* If the newest commit is tagged, HEAD's tree has its pair.               *)
LEMMA TopTagged ==
    ASSUME Ordered, ProofCommit, TagsWitnessed, NEW t \in Commits, Tops(t, head),
           NEW s \in tags, s.src = t, NEW clock
    PROVE  DecisionFor(head, clock).commits = {}
<1>1. Witnessed(s)
  BY DEF TagsWitnessed
<1>. QED  BY <1>1, TopWitnessed, TopProven

(* Under fixed_time alone, what is not due for one baseline of a lineage is *)
(* not due for the newest of HEAD's.                                        *)
LEMMA StillNotDue ==
    ASSUME IdsOrdered, ~EveryCommit, MaxAge = None, Ordered, ScheduleOnly, IsFiniteSet(tags),
           NEW base, base # None, base.src \in Anc(head),
           base \in tags \/ Proven(head, base),
           NEW clock \in Nat, ~FixedTimeDue(LastFixedTime(base), clock)
    PROVE  DecisionFor(head, clock).commits = {}
<1>1. RepoTypeOK /\ head \in Commits
  BY DEF Ordered, TypeOK, RepoTypeOK, Commits
<1>2. Tree(head).json \subseteq calendar /\ tags \subseteq calendar /\ calendar \subseteq Stamp
  BY <1>1 DEF Ordered, TypeOK, StoresAttested
<1>3. PICK newest : newest = Baseline(head)
  OBVIOUS
<1>4. newest # None /\ newest.at >= base.at
  <2>1. CASE base \in tags
    BY <1>1, <1>3, <2>1, NewestBaseline
  <2>2. CASE Proven(head, base)
    <3>1. IsFiniteSet(Tree(head).json)
      BY <1>2, FS_Subset DEF Ordered
    <3>2. newest \in Stamp /\ (newest.at > base.at \/ newest.at = base.at)
      BY <1>1, <1>3, <2>2, <3>1, NewestProof DEF Proven
    <3>3. base \in Stamp
      BY <1>2, <2>2 DEF Proven
    <3>. QED  BY <3>2, <3>3, AbsentStamp DEF Stamp
  <2>. QED  BY <2>1, <2>2
<1>5. base \in calendar /\ newest \in calendar
  BY <1>2, <1>3, <1>4, BaselineFacts DEF Proven
<1>6. base.trig = {"fixed_time"} /\ newest.trig = {"fixed_time"}
  BY <1>5 DEF ScheduleOnly
<1>7. /\ LastFixedTime(base) = base.at /\ LastFixedTime(newest) = newest.at
      /\ base.at \in Nat /\ newest.at \in Nat
  BY <1>2, <1>4, <1>5, <1>6 DEF LastFixedTime, Stamp
<1>8. ~FixedTimeDue(LastFixedTime(newest), clock)
  <2>1. CASE FixedPeriod = None
    BY <2>1 DEF FixedTimeDue
  <2>2. CASE FixedPeriod # None
    <3>1. FixedPeriod \in Nat /\ FixedPeriod > 0
      BY <2>2, PolicyAssumption
    <3>2. clock \div FixedPeriod \in Int
      BY <3>1
    <3>3. \A a, b \in Int : a * b \in Int
      OBVIOUS
    <3>4. MostRecentOccurrence(clock) \in Int
      BY <3>1, <3>2, <3>3 DEF MostRecentOccurrence
    <3>5. ~(MostRecentOccurrence(clock) > base.at)
      BY <1>7, <2>2 DEF FixedTimeDue
    <3>6. newest.at # None
      BY <1>7, PolicyAssumption
    <3>. QED  BY <1>4, <1>7, <3>4, <3>5, <3>6 DEF FixedTimeDue
  <2>. QED  BY <2>1, <2>2
<1>9. AggregateTriggers(Candidates(head, newest), LastFixedTime(newest), clock) = {}
  BY <1>8 DEF AggregateTriggers, MaxAgeDue
<1>10. DecisionWith(head, newest, clock).commits = {}
  BY <1>9 DEF DecisionWith, EvaluatePolicy, NoDecision
<1>. QED  BY <1>3, <1>10, DecidesWith

(* What a run decides for includes the newest commit; if it decided for    *)
(* nothing, there was nothing pending or no rule was due.                  *)
LEMMA TopDecided ==
    ASSUME ~EveryCommit \/ InitialAll, Ordered,
           NEW src \in Commits, NEW t \in Commits, Tops(t, src),
           NEW base, base # None => base.src \in Anc(src), NEW clock,
           t \notin DecisionWith(src, base, clock).commits
    PROVE  /\ DecisionWith(src, base, clock).commits = {}
           /\ \/ t \notin PendingMeaningful(src, BaseSource(base))
              \/ /\ ~EveryCommit
                 /\ AggregateTriggers(Candidates(src, base), LastFixedTime(base), clock) = {}
<1>1. RepoTypeOK /\ LineagesExist /\ Lineal /\ TimesOrdered
  BY DEF Ordered, TypeOK
<1>2. CASE EveryCommit
  <2>1. DecisionWith(src, base, clock).commits = PendingMeaningful(src, BaseSource(base))
    BY <1>2, SelectsAll
  <2>. QED  BY <1>1, <2>1, TopPending
<1>3. CASE ~EveryCommit
  <2>1. \A c \in DecisionWith(src, base, clock).commits : c = t
    BY <1>1, <1>3, LatestIsTop
  <2>2. ASSUME t \in PendingMeaningful(src, BaseSource(base)),
               AggregateTriggers(Candidates(src, base), LastFixedTime(base), clock) # {}
        PROVE  FALSE
    <3>1. PICK top : top = [id |-> t, time |-> history[t].time]
      OBVIOUS
    <3>2. LatestPending(Candidates(src, base)) = {top}
      BY <1>1, <2>2, <3>1, TopIsLatest
    <3>3. top \in Candidates(src, base) /\ top.id = t
      BY <2>2, <3>1 DEF Candidates
    <3>4. DecisionWith(src, base, clock).commits
            = {x.id : x \in LatestPending(Candidates(src, base))}
      BY <1>3, <2>2, <3>3 DEF DecisionWith, EvaluatePolicy
    <3>5. t \in {x.id : x \in LatestPending(Candidates(src, base))}
      BY <3>2, <3>3
    <3>. QED  BY <3>4, <3>5
  <2>. QED  BY <1>3, <2>1, <2>2
<1>. QED  BY <1>2, <1>3

(* Under max_age alone, what is not due for one baseline is not due for    *)
(* HEAD's, which is no older a source: nothing below is preferred to it.   *)
LEMMA StillNotOld ==
    ASSUME IdsOrdered, IdsUnique, ~EveryCommit, FixedPeriod = None, Ordered, IsFiniteSet(tags),
           NEW src \in Commits, src \in Anc(head),
           \A c \in Anc(head) \ Anc(src) : IsGenerated(c),
           NEW base,
           base # None => /\ base \in calendar /\ base.src \in Anc(src)
                          /\ GeneratedAncestors(head) # {} => Proven(head, base)
                          /\ \/ Proven(head, base)
                             \/ /\ base \in tags
                                /\ \A t \in tags : t.src \in Below(base) /\ t.at = base.at
                                                    => Sha(t.src) <= Sha(base.src),
           NEW clock, ~MaxAgeDue(Candidates(src, base), clock)
    PROVE  DecisionFor(head, clock).commits = {}
<1>1. /\ RepoTypeOK /\ head \in Commits /\ Lineal /\ LineagesExist /\ Chained /\ InOrder
      /\ Anc(src) \subseteq Anc(head)
  BY DEF Ordered, TypeOK, RepoTypeOK, Commits, Lineal
<1>2. Tree(head).json \subseteq calendar /\ tags \subseteq calendar /\ calendar \subseteq Stamp
  BY <1>1 DEF Ordered, TypeOK, StoresAttested
<1>3. PICK newest : newest = Baseline(head)
  OBVIOUS
<1>4. ASSUME base # None
      PROVE  newest # None /\ base.src \in Anc(newest.src)
  <2>1. /\ base.src \in Anc(head) /\ base.src \in Nat /\ base.at \in Nat
    BY <1>1, <1>2, <1>4 DEF Stamp
  <2>2. CASE Proven(head, base)
    <3>1. IsFiniteSet(Tree(head).json)
      BY <1>2, FS_Subset DEF Ordered
    <3>2. newest \in Stamp /\ (newest.at > base.at \/ (newest.at = base.at /\ newest.src >= base.src))
      BY <1>1, <1>3, <2>1, <2>2, <3>1, NewestProof DEF Proven
    <3>3. newest # None
      BY <3>2, AbsentStamp
    <3>4. newest.src \in Anc(head) /\ newest \in calendar
      BY <1>2, <1>3, <3>3, BaselineOnLineage DEF Proven
    <3>5. newest.src \in Anc(base.src) \ {base.src} => newest.at <= base.at /\ newest.src < base.src
      <4>1. newest.src \in Anc(base.src) => newest.src <= base.src
        BY <1>1, <2>1 DEF Lineal, LineagesExist
      <4>. QED  BY <1>1, <1>4, <2>1, <3>2, <3>4, <4>1 DEF InOrder, Stamp
    <3>. QED  BY <1>1, <2>1, <3>2, <3>3, <3>4, <3>5 DEF Chained, Stamp
  <2>3. CASE ~Proven(head, base)
    <3>1. base \in tags /\ GeneratedAncestors(head) = {}
      BY <1>4, <2>3
    <3>2. newest # None
      BY <1>1, <1>3, <2>1, <3>1, NewestBaseline
    <3>3. ~Proven(head, newest)
      BY <3>1 DEF Proven
    <3>4. /\ newest \in tags
          /\ newest.at > base.at \/ (newest.at = base.at /\ Sha(newest.src) >= Sha(base.src))
      BY <1>3, <2>1, <3>1, <3>2, <3>3, BaselinePreferred
    <3>5. newest.src \in Anc(head) /\ newest \in calendar /\ newest \in Stamp
      BY <1>2, <1>3, <3>2, <3>4, BaselineOnLineage
    <3>6. newest.src \notin Below(base)
      <4>1. SUFFICES ASSUME newest.src \in Below(base) PROVE FALSE
        OBVIOUS
      <4>2. newest.src \in Anc(base.src) \ {base.src}
        BY <1>4, <4>1 DEF Below
      <4>3. newest.at <= base.at
        BY <1>1, <1>4, <3>5, <4>2 DEF InOrder
      <4>4. newest.at = base.at /\ Sha(newest.src) >= Sha(base.src)
        BY <2>1, <3>4, <3>5, <4>3 DEF Stamp
      <4>5. Sha(newest.src) <= Sha(base.src)
        BY <1>4, <2>3, <3>4, <4>1, <4>4
      <4>6. newest.src \in Nat
        BY <3>5 DEF Stamp
      <4>7. Sha(newest.src) = Sha(base.src)
        BY <2>1, <4>4, <4>5, <4>6 DEF IdsOrdered
      <4>. QED  BY <2>1, <4>2, <4>6, <4>7 DEF IdsUnique
    <3>7. newest.src \notin Anc(base.src) \ {base.src}
      BY <1>4, <3>6 DEF Below
    <3>. QED  BY <1>1, <2>1, <3>2, <3>5, <3>7 DEF Chained, Stamp
  <2>. QED  BY <2>2, <2>3
<1>5. PendingMeaningful(head, BaseSource(newest)) \subseteq PendingMeaningful(src, BaseSource(base))
  <2>1. SUFFICES ASSUME NEW c \in PendingMeaningful(head, BaseSource(newest))
                 PROVE  c \in PendingMeaningful(src, BaseSource(base))
    OBVIOUS
  <2>2. c \in Anc(src) /\ ~IsGenerated(c)
    BY <2>1 DEF PendingMeaningful
  <2>3. ASSUME base # None
        PROVE  c \notin Anc(base.src)
    <3>1. newest.src \in Anc(head) /\ newest.src \in Commits /\ newest.src # None
      BY <1>1, <1>3, <1>4, <2>3, BaselineOnLineage, CommitFacts, PolicyAssumption
         DEF LineagesExist
    <3>2. c \notin Anc(newest.src)
      BY <1>4, <2>1, <2>3, <3>1 DEF PendingMeaningful, BaseSource
    <3>. QED  BY <1>1, <1>4, <2>3, <3>1, <3>2 DEF Lineal
  <2>. QED  BY <2>2, <2>3 DEF PendingMeaningful, BaseSource
<1>6. Candidates(head, newest) \subseteq Candidates(src, base)
  BY <1>5 DEF Candidates
<1>7. AggregateTriggers(Candidates(head, newest), LastFixedTime(newest), clock) = {}
  BY <1>6 DEF AggregateTriggers, MaxAgeDue, FixedTimeDue
<1>8. DecisionWith(head, newest, clock).commits = {}
  BY <1>7 DEF DecisionWith, EvaluatePolicy, NoDecision
<1>. QED  BY <1>3, <1>8, DecidesWith

(* Without fixed_time and max_age, only every_commit selects anything.     *)
LEMMA NoRule ==
    ASSUME ~EveryCommit, MaxAge = None, FixedPeriod = None, NEW src, NEW clock
    PROVE  DecisionFor(src, clock).commits = {}
<1>1. PICK base : base = Baseline(src)
  OBVIOUS
<1>2. AggregateTriggers(Candidates(src, base), LastFixedTime(base), clock) = {}
  BY DEF AggregateTriggers, MaxAgeDue, FixedTimeDue
<1>3. DecisionWith(src, base, clock).commits = {}
  BY <1>2 DEF DecisionWith, EvaluatePolicy, NoDecision
<1>. QED  BY <1>1, <1>3, DecidesWith

(* A run that ends well and deferred nothing leaves nothing due.           *)
LEMMA EndsConverged ==
    ASSUME IdsOrdered, ProofCommit,
           \/ ~EveryCommit /\ MaxAge = None
           \/ ~EveryCommit /\ FixedPeriod = None /\ IdsUnique /\ Accrues
           \/ EveryCommit /\ InitialAll,
           Ordered, TagsWitnessed, Topped, ScheduleOnly, IsFiniteSet(tags),
           JobsConsistent, JobsDecided, JobsCarried, JobsSettled, [Next]_vars,
           NEW p \in Proc, EndsOk(p), ~At(p, "repair"), NoNewWork(p), job[p].inflight = {}
    PROVE  DecisionFor(head, job[p].clock).commits = {}
<1>1. TypeOK /\ RepoTypeOK /\ head \in Commits
  BY DEF Ordered, TypeOK, RepoTypeOK, Commits
<1>2. pc[p] \in {"complete", "tag"} /\ job[p].todo = {}
  BY <1>1, EndsWell DEF At
<1>3. PICK src, base, clock, due : /\ src = job[p].src /\ base = job[p].base
                                   /\ clock = job[p].clock /\ due = job[p].decision
  OBVIOUS
<1>4. /\ src \in Commits /\ clock \in Nat
      /\ base # None => base.src \in Anc(src) /\ (base \in tags \/ Proven(src, base))
      /\ due = DecisionWith(src, base, clock).commits
  <2>1. JobDecided(job[p]) /\ job[p].src \in Commits
    BY <1>2 DEF JobsDecided, Running, JobsConsistent
  <2>. QED  BY <1>1, <1>3, <2>1, JobFacts DEF JobDecided
<1>5. due \subseteq TaggedSources
  BY <1>2, <1>3 DEF JobsCarried, JobCarried
<1>6. PICK t \in Commits : Tops(t, src)
  BY <1>4 DEF Topped
<1>7. src \in Anc(head) /\ Anc(src) \subseteq Anc(head)
  BY <1>1, <1>3 DEF NoNewWork, Ordered, Lineal
<1>8. Tops(t, head)
  BY <1>3, <1>6, <1>7 DEF Tops, NoNewWork
<1>9. ASSUME NEW s \in tags, s.src = t
      PROVE  DecisionFor(head, clock).commits = {}
  BY <1>8, <1>9, TopTagged
<1>10. CASE t \in due
  BY <1>3, <1>5, <1>9, <1>10 DEF TaggedSources
<1>11. CASE t \notin due
  <2>1. Proven(src, base) => Proven(head, base)
    <3>1. Holds(Tree(head), Tree(src))
      BY <1>4, <1>6, <1>8 DEF Ordered, TopRecorded
    <3>. QED  BY <1>7, <3>1 DEF Proven, Holds, GeneratedAncestors
  <2>2. /\ due = {}
        /\ \/ t \notin PendingMeaningful(src, BaseSource(base))
           \/ /\ ~EveryCommit
              /\ AggregateTriggers(Candidates(src, base), LastFixedTime(base), clock) = {}
    BY <1>4, <1>6, <1>11, TopDecided
  <2>3. CASE t \notin PendingMeaningful(src, BaseSource(base))
    <3>1. base # None /\ t \in Anc(base.src)
      BY <1>6, <2>3, PolicyAssumption DEF PendingMeaningful, BaseSource, Tops
    <3>2. base \in calendar
      BY <1>4, <3>1 DEF Ordered, StoresAttested, Proven
    <3>3. base.src \in Commits /\ base.src \in Anc(t)
      BY <1>4, <1>6, <3>1, <3>2 DEF Ordered, Dated, Tops
    <3>4. base.src = t
      BY <1>1, <3>1, <3>3, LinealOrder DEF Ordered
    <3>5. CASE base \in tags
      BY <1>3, <1>9, <3>4, <3>5
    <3>6. CASE Proven(src, base)
      <4>1. base \in Tree(head).json /\ t \in Tree(head).ots
        BY <2>1, <3>4, <3>6 DEF Proven
      <4>. QED  BY <1>3, <1>8, <3>4, <4>1, TopProven
    <3>. QED  BY <1>4, <3>1, <3>5, <3>6
  <2>4. CASE /\ ~EveryCommit
             /\ AggregateTriggers(Candidates(src, base), LastFixedTime(base), clock) = {}
    <3>1. /\ ~FixedTimeDue(LastFixedTime(base), clock)
          /\ ~MaxAgeDue(Candidates(src, base), clock)
      BY <2>4 DEF AggregateTriggers
    <3>2. CASE FixedPeriod = None /\ MaxAge = None
      BY <1>3, <2>4, <3>2, NoRule
    <3>3. CASE FixedPeriod # None
      <4>1. base # None
        BY <3>1, <3>3 DEF FixedTimeDue, LastFixedTime
      <4>2. base.src \in Anc(head) /\ (base \in tags \/ Proven(head, base))
        BY <1>4, <1>7, <2>1, <4>1
      <4>. QED  BY <1>3, <1>4, <2>4, <3>1, <3>3, <4>1, <4>2, StillNotDue
    <3>4. CASE FixedPeriod = None /\ MaxAge # None
      <4>1. IdsUnique /\ Accrues
        BY <2>4, <3>4
      <4>2. ASSUME base # None
            PROVE  /\ base \in calendar
                   /\ GeneratedAncestors(head) # {} => Proven(head, base)
                   /\ \/ Proven(head, base)
                      \/ /\ base \in tags
                         /\ \A u \in tags : u.src \in Below(base) /\ u.at = base.at
                                             => Sha(u.src) <= Sha(base.src)
        <5>1. CASE Proven(src, base)
          BY <1>1, <1>4, <2>1, <5>1 DEF Proven, Ordered, StoresAttested
        <5>2. CASE ~Proven(src, base)
          <6>1. base \in tags
            BY <1>4, <4>2, <5>2
          <6>2. PICK g \in Commits : base.src \in Tree(g).ots /\ base \in Tree(g).json
            BY <6>1 DEF TagsWitnessed, Witnessed
          <6>3. Holds(Tree(head), Tree(g))
            BY <4>1, <6>2 DEF Accrues
          <6>4. GeneratedAncestors(head) # {} => Proven(head, base)
            BY <6>2, <6>3 DEF Proven, Holds
          <6>5. JobSettled(job[p], pc[p])
            BY <1>2, <1>3, <2>2 DEF JobsSettled, Running
          <6>6. \A u \in tags : u.src \in Below(base) /\ u.at = base.at
                               => Sha(u.src) <= Sha(base.src)
            BY <1>3, <5>2, <6>5 DEF JobSettled
          <6>. QED  BY <6>1, <6>4, <6>6 DEF Ordered, StoresAttested
        <5>. QED  BY <5>1, <5>2
      <4>. QED  BY <1>3, <1>4, <1>7, <2>4, <3>1, <3>4, <4>1, <4>2, StillNotOld DEF NoNewWork
    <3>. QED  BY <3>2, <3>3, <3>4
  <2>. QED  BY <2>2, <2>3, <2>4
<1>. QED  BY <1>10, <1>11

LEMMA OrderedInvariant ==
    ASSUME OneLineage, Orderly
    PROVE  Spec => []Ordered
<1>1. "reset" \notin DevActions
  BY DEF OneLineage
<1>2. Init => Ascending /\ TreesPast /\ TopRecorded
  <2>. SUFFICES ASSUME Init PROVE Ascending /\ TreesPast /\ TopRecorded
    OBVIOUS
  <2>1. Commits = {1} /\ head = 1 /\ Anc(1) = {1} /\ Tree(1) = EmptyStore
    BY DEF Init, RepoInit, Commits, Anc, Tree
  <2>. QED  BY <2>1, HoldsItself DEF Ascending, TreesPast, TopRecorded, EmptyStore
<1>3. Backed => LineagesExist
  BY DEF Backed
<1>4. Spec => [](TypeOK /\ LineagesExist /\ Lineal)
  BY <1>3, TypeInvariant, LinealInvariant, BackedInvariant, PTL
<1>5. Spec => [](StoresAttested /\ JobsAttested)
  BY TypeInvariant, AttestedInit, AttestedNext, PTL DEF Spec
<1>6. Spec => [](Chained /\ ClaimsPast /\ ClaimsOnRecord /\ JobsClaims)
  BY ClaimsInvariant
<1>7. Spec => [](TimesOrdered /\ Topped /\ HeadIsNewest)
  BY <1>1, ToppedInvariant
<1>8. Spec => []InOrder
  BY OrderInvariant
<1>9. TypeOK /\ Lineal /\ LineagesExist /\ Ascending /\ [Next]_vars => Ascending'
  BY AscendingNext
<1>10. /\ TypeOK /\ Lineal /\ LineagesExist /\ StoresMeaningful /\ Stacked
       /\ TreesPast /\ [Next]_vars
       => TreesPast'
  BY TreesPastNext
<1>11. /\ TypeOK /\ Lineal /\ LineagesExist /\ StoresMeaningful /\ Stacked
       /\ TopRecorded /\ [Next]_vars
       => TopRecorded'
  BY TopRecordedNext
<1>12. Spec => []Stacked
  BY StackedInvariant
<1>13. Spec => [](Ascending /\ TreesPast /\ TopRecorded)
  BY <1>2, <1>4, <1>9, <1>10, <1>11, <1>12, MeaningfulInvariant, PTL DEF Spec
<1>14. Spec => [](Dated /\ IsFiniteSet(calendar))
  BY DatedInvariant, FiniteCalendar, PTL
<1>. QED  BY <1>4, <1>5, <1>6, <1>7, <1>8, <1>13, <1>14, PTL DEF Ordered

(* Running twice stamps once: when a run ends in success, has deferred     *)
(* nothing to finish earlier stamps first, and found nobody else's commits *)
(* on top of its source, build_snapshot with the same policy at the same   *)
(* instant selects nothing. Proofs must go into commits, since equal tag   *)
(* times leave no newest tag; nobody repairs, resets or merges; and        *)
(* max_age is not combined with fixed_time. Under max_age nobody removes   *)
(* committed proofs; under every_commit nobody removes proof files, and    *)
(* all of the initial history is to be stamped.                            *)
THEOREM RunsConverge ==
    ASSUME IdsOrdered, ProofCommit, ~Repairs, {"reset", "merge"} \cap DevActions = {},
           \/ ~EveryCommit /\ MaxAge = None
           \/ ~EveryCommit /\ FixedPeriod = None /\ IdsUnique /\ "drop" \notin DevActions
           \/ EveryCommit /\ InitialAll /\ {"clean", "drop"} \cap DevActions = {}
    PROVE  Spec => Converged
<1>. DEFINE Settles == \A p \in Proc :
                         EndsOk(p) /\ ~At(p, "repair") /\ NoNewWork(p) /\ job[p].inflight = {}
                           => DecisionFor(head, job[p].clock).commits = {}
<1>. DEFINE Held == MaxAge = None \/ EveryCommit \/ Accrues
<1>1. OneLineage /\ Orderly /\ "reset" \notin DevActions
  BY DEF OneLineage, Orderly
<1>2. Ordered /\ TagsWitnessed /\ Topped /\ ScheduleOnly /\ IsFiniteSet(tags) /\ JobsConsistent
      /\ JobsDecided /\ JobsCarried /\ JobsSettled /\ Held /\ [Next]_vars
      => Settles
  BY EndsConverged
<1>3. Ordered /\ TagsWitnessed /\ Topped /\ ScheduleOnly /\ IsFiniteSet(tags) /\ JobsConsistent
      /\ JobsDecided /\ JobsCarried /\ JobsSettled /\ Held /\ [Next]_vars
      => [Settles]_vars
  BY <1>2
<1>. HIDE DEF Settles
<1>4. Init => ScheduleOnly /\ JobsDecided /\ JobsCarried /\ JobsSettled
  BY DEF Init, ScheduleOnly, JobsDecided, JobsCarried, JobCarried, JobsSettled, Running,
     Selecting, NoJob
<1>5. Spec => []Ordered
  BY <1>1, OrderedInvariant
<1>6. Spec => [](TimesOrdered /\ Topped /\ HeadIsNewest)
  BY <1>1, ToppedInvariant
<1>7. Spec => [](OneManifest /\ JobsFaithful /\ TagsWitnessed)
  BY <1>1, WitnessedInvariant
<1>8. Spec => [](StoresAttested /\ JobsAttested)
  BY TypeInvariant, AttestedInit, AttestedNext, PTL DEF Spec
<1>9. Spec => []ScheduleOnly
  BY TypeInvariant, LockInvariant, OwnDecisionInvariant, <1>4, <1>8, ScheduleOnlyNext, PTL
     DEF Spec
<1>10. Ordered => LineagesExist /\ Lineal
  BY DEF Ordered
<1>11. Spec => [](JobsDecided /\ JobsCarried /\ JobsSettled)
  BY TypeInvariant, LockInvariant, <1>4, <1>5, <1>10, JobsDecidedNext, JobsCarriedNext,
     JobsSettledNext, PTL DEF Spec
<1>12. Spec => []Held
  <2>1. CASE MaxAge = None \/ EveryCommit
    <3>1. Held
      BY <2>1
    <3>. QED  BY <3>1, PTL
  <2>2. CASE ~(MaxAge = None \/ EveryCommit)
    <3>1. FilesStay
      BY <2>2 DEF FilesStay
    <3>2. Accrues => Held
      OBVIOUS
    <3>. QED  BY <3>1, <3>2, AccruesInvariant, PTL
  <2>. QED  BY <2>1, <2>2
<1>13. Spec => [][Settles]_vars
  BY TypeInvariant, FiniteTags, <1>3, <1>5, <1>6, <1>7, <1>9, <1>11, <1>12, PTL DEF Spec
<1>. QED  BY <1>13, PTL DEF Settles, Converged
=============================================================================
