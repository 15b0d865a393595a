----------------------- MODULE OtsRunRecovery_proofs -----------------------
(***************************************************************************)
(* Proofs about recovery: what interrupted runs left behind is taken up    *)
(* before anything new is paid for, is not paid for twice, and is finished *)
(* or handed on.  They hold where nobody makes HEAD jump (git reset        *)
(* --hard): OtsRun's runs show what happens there.                         *)
(*                                                                         *)
(*   PaidForFirst     no submission while another one is in flight         *)
(*   PaidOnce         no submission for a source that has anything left of *)
(*                    its stamp                                            *)
(*   NothingStranded  success leaves nothing in flight that the run has    *)
(*                    not deferred itself                                  *)
(*                                                                         *)
(* The second needs that nobody removes committed files (git rm) either.   *)
(* It rests on Accrues: HEAD's tree has every file any commit has, and the *)
(* index and the working tree have those of HEAD.  The first two follow    *)
(* from OnlyOwn, and the second from what backs a tag as well.  The third  *)
(* needs JobsAccounted: what was in flight when a run looked is on its     *)
(* lists until it is tagged or in HEAD's tree.  That this covers HEAD's    *)
(* lineage follows from StoresMeaningful and ProofsKept.                   *)
(*                                                                         *)
(* OneManifest and JobsFaithful, which say that a run knows no other stamp *)
(* of a source than the manifest on disk, are for TagsAreDurable, in       *)
(* OtsRunClaims_proofs.                                                    *)
(***************************************************************************)
EXTENDS OtsRunBacking_proofs

-----------------------------------------------------------------------------
(* Stores *)

LEMMA HoldsItself == ASSUME NEW a PROVE Holds(a, a)
  BY DEF Holds

LEMMA HoldsChain ==
    ASSUME NEW a, NEW b, NEW c, Holds(a, b), Holds(b, c)
    PROVE  Holds(a, c)
  BY DEF Holds

LEMMA HoldsPairs ==
    ASSUME NEW a, NEW b, Holds(a, b), NEW c, HasPair(b, c)
    PROVE  HasPair(a, c)
  BY DEF Holds, HasPair, Described

(* What is replaced by a store that holds it all only gains. *)
LEMMA PutGains ==
    ASSUME NEW store, NEW from, Holds(from, store), NEW S
    PROVE  Holds(Put(store, from, S), store) /\ Holds(from, Put(store, from, S))
  BY DEF Holds, Put

LEMMA PutHolds ==
    ASSUME NEW a, NEW b, Holds(b, a), NEW from, NEW S
    PROVE  Holds(Put(b, from, S), Put(a, from, S))
  BY DEF Holds, Put

-----------------------------------------------------------------------------
(* HEAD's tree accrues *)

(* Nobody makes HEAD jump or removes committed files. *)
FilesStay == {"reset", "drop"} \cap DevActions = {}

LEMMA NewCommitAccrues ==
    ASSUME RepoTypeOK, Accrues, NEW ancestry \in SUBSET Nat, NEW generated \in BOOLEAN,
           NEW claims \in SUBSET Nat, NEW tree \in Store,
           NewCommit(ancestry, generated, claims, tree),
           Holds(tree, Tree(head)), Holds(index', tree), Holds(work', index')
    PROVE  Accrues'
<1>1. /\ Commits' = Commits \cup {head'}
      /\ \A c \in Commits : c # head' /\ history'[c] = history[c]
      /\ history'[head'].anc = ancestry \cup {head'}
      /\ history'[head'].claims = claims
      /\ history'[head'].tree = tree
  BY NewCommitRecords
<1>2. \A c \in Commits : Holds(tree, Tree(c))
  BY HoldsChain DEF Accrues
<1>3. Tree(head)' = tree /\ \A c \in Commits : Tree(c)' = Tree(c)
  BY <1>1 DEF Tree
<1>4. \A c \in Commits' : Holds(tree, Tree(c)')
  <2>1. PICK h : h = head'
    OBVIOUS
  <2>2. Tree(h)' = tree /\ Commits' = Commits \cup {h}
    BY <1>1, <2>1 DEF Tree
  <2>. QED  BY <1>2, <1>3, <2>2, HoldsItself
<1>. QED  BY <1>3, <1>4 DEF Accrues, Holds

LEMMA SameHistoryAccrues ==
    ASSUME Accrues, UNCHANGED <<history, head>>, Holds(index', Tree(head)),
           Holds(work', index')
    PROVE  Accrues'
  BY DEF Accrues, Commits, Tree, Holds

(* A merge brings nothing that HEAD does not have already. *)
LEMMA MergeGainsNothing ==
    ASSUME RepoTypeOK, Accrues, DevMerge
    PROVE  \E c \in Commits, tree \in Store :
              /\ NewCommit(Anc(head) \cup Anc(c), FALSE, {}, tree)
              /\ tree = Tree(head) /\ index' = tree /\ work' = work
<1>. DEFINE ours == Tree(head)
            GainOts(c) == Tree(c).ots \ ours.ots
            GainJson(c) == {m \in Tree(c).json : m.src \notin Described(ours)}
            With(store, c) == [ots  |-> store.ots \cup GainOts(c),
                               json |-> store.json \cup GainJson(c)]
<1>1. PICK c \in Commits :
         /\ NewCommit(Anc(head) \cup Anc(c), FALSE, {}, With(ours, c))
         /\ index' = With(ours, c) /\ work' = With(work, c)
  BY DEF DevMerge
<1>2. head \in Commits /\ work \in Store /\ ours \in Store
  BY CommitFacts DEF RepoTypeOK, Commits
<1>3. GainOts(c) = {} /\ GainJson(c) = {}
  BY DEF Accrues, Holds, Described
<1>4. \A store \in Store : store = [ots |-> store.ots, json |-> store.json]
  BY DEF Store
<1>5. With(ours, c) = ours /\ With(work, c) = work
  BY <1>2, <1>3, <1>4
<1>. HIDE DEF With
<1>. QED  BY <1>1, <1>2, <1>5

LEMMA AccruesDev ==
    ASSUME RepoTypeOK, Accrues, FilesStay, DevStep
    PROVE  Accrues'
<1>1. /\ head \in Commits /\ index \in Store /\ work \in Store
      /\ Anc(head) \in SUBSET Nat /\ IsGenerated(head) \in BOOLEAN
      /\ history[head].claims \in SUBSET Nat /\ Tree(head) \in Store
      /\ FALSE \in BOOLEAN /\ {} \in SUBSET Nat
      /\ Holds(index, Tree(head)) /\ Holds(work, index) /\ Holds(work, Tree(head))
  <2>1. head \in Commits /\ index \in Store /\ work \in Store
    BY DEF RepoTypeOK, Commits
  <2>2. Holds(index, Tree(head)) /\ Holds(work, index)
    BY DEF Accrues
  <2>. QED  BY <2>1, <2>2, CommitFacts, HoldsChain
<1>2. CASE DevCommit
  <2>1. PICK all \in BOOLEAN :
          /\ NewCommit(Anc(head), FALSE, {}, IF all THEN work ELSE index)
          /\ index' = (IF all THEN work ELSE index) /\ work' = work
    BY <1>2 DEF DevCommit
  <2>. DEFINE tree == IF all THEN work ELSE index
  <2>2. tree \in Store /\ Holds(tree, Tree(head)) /\ Holds(work, tree)
    BY <1>1, HoldsItself
  <2>. HIDE DEF tree
  <2>3. NewCommit(Anc(head), FALSE, {}, tree) /\ index' = tree /\ work' = work
    BY <2>1 DEF tree
  <2>. QED  BY <1>1, <2>2, <2>3, HoldsItself, NewCommitAccrues
<1>3. CASE DevAmend
  <2>1. /\ NewCommit(Anc(head) \ {head}, IsGenerated(head), history[head].claims, index)
        /\ index' = index /\ work' = work
    BY <1>3 DEF DevAmend
  <2>2. Anc(head) \ {head} \in SUBSET Nat
    BY <1>1
  <2>. QED  BY <1>1, <2>1, <2>2, HoldsItself, NewCommitAccrues
<1>4. CASE DevMerge
  <2>1. PICK c \in Commits, tree \in Store :
              /\ NewCommit(Anc(head) \cup Anc(c), FALSE, {}, tree)
              /\ tree = Tree(head) /\ index' = tree /\ work' = work
    BY <1>4, MergeGainsNothing
  <2>2. Anc(head) \cup Anc(c) \in SUBSET Nat
    BY <1>1, CommitFacts
  <2>. QED  BY <1>1, <2>1, <2>2, HoldsItself, NewCommitAccrues
<1>5. CASE DevClean
  <2>1. /\ UNCHANGED <<history, head, index>>
        /\ work' = [ots  |-> work.ots \cap index.ots,
                    json |-> {m \in work.json : m.src \in Described(index)}]
    BY <1>5 DEF DevClean
  <2>2. Holds(work', index)
    BY <1>1, <2>1 DEF Holds, Described
  <2>. QED  BY <1>1, <2>1, <2>2, SameHistoryAccrues
<1>6. CASE Tick
  BY <1>1, <1>6, SameHistoryAccrues DEF Tick
<1>7. ~DevReset /\ ~DevDrop
  BY DEF DevReset, DevDrop, Dev, FilesStay
<1>. QED  BY <1>2, <1>3, <1>4, <1>5, <1>6, <1>7 DEF DevStep

LEMMA AccruesNext ==
    FilesStay => (TypeOK /\ Accrues /\ [Next]_vars => Accrues')
<1>. SUFFICES ASSUME FilesStay, TypeOK, Accrues, [Next]_vars PROVE Accrues'
  OBVIOUS
<1>1. /\ RepoTypeOK /\ head \in Commits /\ work \in Store
      /\ Holds(index, Tree(head)) /\ Holds(work, index) /\ Holds(work, Tree(head))
  BY HoldsChain DEF TypeOK, RepoTypeOK, Commits, Accrues
<1>2. CASE UNCHANGED <<history, head, index, work>>
  BY <1>1, <1>2, SameHistoryAccrues
<1>3. CASE \E p \in Proc : Acquire(p) \/ AcquireForRepair(p) \/ Step(p) \/ Disturb(p)
  <2>1. PICK p \in Proc : \/ PersistProof(p) \/ PersistManifest(p) \/ Stage(p)
                          \/ Commit(p) \/ LeavesFiles(p)
    BY <1>3, ProcessSteps
  <2>2. CASE PersistProof(p) \/ PersistManifest(p)
    <3>1. UNCHANGED <<history, head, index>> /\ Holds(work', work)
      BY <1>1, <2>2 DEF PersistProof, PersistManifest, Holds, Store
    <3>. QED  BY <1>1, <3>1, HoldsChain, SameHistoryAccrues
  <2>3. CASE Stage(p)
    <3>1. /\ UNCHANGED <<history, head, work>>
          /\ index' = Put(index, work, job[p].done)
      BY <2>3 DEF Stage, StagePaths
    <3>2. Holds(index', index) /\ Holds(work, index')
      BY <1>1, <3>1, PutGains
    <3>. QED  BY <1>1, <3>1, <3>2, HoldsChain, SameHistoryAccrues
  <2>4. CASE Commit(p)
    <3>. DEFINE S == job[p].done
                tree == Put(Tree(head), work, S)
    <3>1. /\ NewCommit(Anc(head), TRUE, S, tree)
          /\ index' = Put(index, work, S) /\ work' = work
      BY <2>4 DEF Commit, GeneratedProofCommit
    <3>2. /\ tree \in Store /\ Anc(head) \in SUBSET Nat /\ S \in SUBSET Nat
          /\ TRUE \in BOOLEAN
      BY <1>1, CommitFacts, PutFacts, JobFacts
    <3>3. /\ Holds(tree, Tree(head)) /\ Holds(index', tree) /\ Holds(work', index')
      BY <1>1, <3>1, PutGains, PutHolds
    <3>. HIDE DEF S, tree
    <3>. QED  BY <1>1, <3>1, <3>2, <3>3, NewCommitAccrues
  <2>5. CASE LeavesFiles(p)
    BY <1>2, <2>5, LeavesFilesFacts
  <2>. QED  BY <2>1, <2>2, <2>3, <2>4, <2>5
<1>4. CASE DevStep
  BY <1>1, <1>4, AccruesDev
<1>5. CASE EnableProofCommit \/ UNCHANGED vars
  BY <1>2, <1>5 DEF EnableProofCommit, vars, repoVars
<1>. QED  BY <1>3, <1>4, <1>5 DEF Next, DevStep

LEMMA AccruesInvariant ==
    ASSUME FilesStay
    PROVE  Spec => []Accrues
<1>1. Init => Accrues
  <2>. SUFFICES ASSUME Init PROVE Accrues
    OBVIOUS
  <2>1. /\ Commits = {1} /\ head = 1 /\ Tree(1) = EmptyStore
        /\ index = EmptyStore /\ work = EmptyStore
    BY DEF Init, RepoInit, Commits, Tree
  <2>. QED  BY <2>1, HoldsItself DEF Accrues
<1>. QED  BY TypeInvariant, <1>1, AccruesNext, PTL DEF Spec

-----------------------------------------------------------------------------
(* Nothing else in flight *)

(* Nobody makes HEAD jump, and a merge brings files only that are there. *)
Calm == "reset" \notin DevActions /\ ("merge" \in DevActions => Accrues)

(* The developer puts nothing new on disk then. *)
LEMMA DevWork ==
    ASSUME RepoTypeOK, Calm, DevStep
    PROVE  Holds(work, work') /\ UNCHANGED tags
<1>1. UNCHANGED tags
  BY DEF DevStep, DevCommit, DevAmend, DevReset, DevMerge, DevDrop, DevClean, Tick, Dev
<1>2. CASE DevCommit \/ DevAmend \/ Tick
  BY <1>1, <1>2, HoldsItself DEF DevCommit, DevAmend, Tick
<1>3. CASE DevMerge
  <2>1. Accrues
    BY <1>3 DEF DevMerge, Dev, Calm
  <2>2. work' = work
    BY <1>3, <2>1, MergeGainsNothing
  <2>. QED  BY <1>1, <2>2, HoldsItself
<1>4. CASE DevDrop
  <2>1. PICK c : work' = Put(work, EmptyStore, {c})
    BY <1>4 DEF DevDrop
  <2>. QED  BY <1>1, <2>1 DEF Put, EmptyStore, Holds
<1>5. CASE DevClean
  BY <1>1, <1>5 DEF DevClean, Holds
<1>6. ~DevReset
  BY DEF DevReset, Dev, Calm
<1>. QED  BY <1>2, <1>3, <1>4, <1>5, <1>6 DEF DevStep

(* Nothing comes to be in flight besides a run's own work when neither a   *)
(* file of another source comes to disk nor a tag goes.                    *)
LEMMA InFlightShrinks ==
    ASSUME HistoryGrows, NEW src \in Commits, NEW S,
           tags \subseteq tags',
           work'.ots \subseteq work.ots \cup S,
           \A m \in work'.json : m \in work.json \/ m.src \in S,
           InFlight(src, S) = {}
    PROVE  InFlight(src, S)' = {}
<1>1. Anc(src)' = Anc(src) /\ Tree(src)' = Tree(src)
  BY DEF HistoryGrows, Anc, Tree
<1>2. \A c : c \in TaggedSources => c \in TaggedSources'
  BY DEF TaggedSources
<1>3. \A c : c \notin S /\ HasPair(work, c)' => HasPair(work, c)
  BY DEF HasPair, Described
<1>4. \A c \in InFlight(src, S)' : c \in InFlight(src, S)
  BY <1>1, <1>2, <1>3 DEF InFlight
<1>. QED  BY <1>4

LEMMA OnlyOwnNext ==
    /\ TypeOK /\ JobsConsistent /\ LockHeld /\ OwnDecision /\ Calm
    /\ OnlyOwn /\ [Next]_vars
    => OnlyOwn'
<1>. SUFFICES ASSUME TypeOK, JobsConsistent, LockHeld, OwnDecision, Calm, OnlyOwn,
                     [Next]_vars
              PROVE  OnlyOwn'
  OBVIOUS
<1>1. HistoryGrows
  BY TypeStep DEF vars, repoVars, HistoryGrows, Commits
<1>2. ASSUME NEW p \in Proc, pc[p] \in Selecting, job[p].todo # {},
             Frozen(job[p], job'[p]), tags' = tags,
             work'.ots \subseteq work.ots \cup job[p].decision,
             \A m \in work'.json : m \in work.json \/ m.src \in job[p].decision
      PROVE  InFlight(job[p].src, job[p].decision)' = {}
  <2>1. PICK c \in Commits : c = job[p].src
    BY <1>2 DEF JobsConsistent, Selecting
  <2>2. PICK S : S = job[p].decision
    OBVIOUS
  <2>3. InFlight(c, S) = {}
    BY <1>2, <2>1, <2>2 DEF OnlyOwn
  <2>4. InFlight(c, S)' = {}
    BY <1>1, <1>2, <2>1, <2>2, <2>3, InFlightShrinks
  <2>5. job'[p].src = c /\ job'[p].decision = S
    BY <1>2, <2>1, <2>2 DEF Frozen
  <2>. QED  BY <2>4, <2>5
<1>3. CASE \E p \in Proc : Acquire(p) \/ AcquireForRepair(p) \/ Step(p) \/ Disturb(p)
  <2>1. PICK p \in Proc : Acquire(p) \/ AcquireForRepair(p) \/ Step(p) \/ Disturb(p)
    BY <1>3
  <2>2. \A q \in Proc \ {p} : pc'[q] \notin Selecting /\ pc'[q] # "submit"
    BY <2>1, OthersIdle DEF Selecting
  <2>3. SUFFICES /\ pc'[p] \in Selecting /\ job'[p].todo # {}
                       => InFlight(job[p].src, job[p].decision)' = {}
                 /\ pc'[p] = "submit" => Min(job'[p].todo) \notin work'.ots
    BY <2>2 DEF OnlyOwn
  <2>4. CASE Scan(p)
    <3>1. PICK c \in Commits : c = job[p].src
      BY <2>4 DEF Scan, At, JobsConsistent
    <3>2. PICK S : S = job[p].decision
      OBVIOUS
    <3>3. /\ pc'[p] # "submit" /\ job'[p].src = c /\ job'[p].decision = S
          /\ job'[p].todo # {} => InFlight(c, S) = {}
      BY <2>4, <3>1, <3>2, ScanDoes DEF Frozen
    <3>4. UNCHANGED <<tags, work>>
      BY <2>4 DEF Scan, repoVars
    <3>5. InFlight(c, S) = {} => InFlight(c, S)' = {}
      BY <1>1, <3>4, InFlightShrinks
    <3>. QED  BY <3>3, <3>5
  <2>5. CASE Recover(p) \/ PersistManifest(p) \/ BeginSubmit(p) \/ Submit(p)
             \/ PersistProof(p)
    <3>1. pc[p] \in Selecting /\ Frozen(job[p], job'[p]) /\ job'[p].todo \subseteq job[p].todo
      BY <2>5, RecoverDoes, PersistManifestDoes, MovesOn DEF Selecting
    <3>2. CASE job[p].todo = {}
      <4>1. job'[p].todo = {} /\ pc[p] \notin {"submit", "proof", "manifest"}
            /\ ~BeginSubmit(p)
        BY <3>1, <3>2 DEF JobsConsistent, BeginSubmit
      <4>2. pc'[p] # "submit"
        BY <2>5, <4>1, RecoverDoes, PersistManifestDoes, MovesOn
      <4>. QED  BY <4>1, <4>2
    <3>3. CASE job[p].todo # {}
      <4>. DEFINE c == Min(job[p].todo)
      <4>1. c \in job[p].decision
        BY <3>1, <3>3, JobFacts, MinType DEF OwnDecision
      <4>2. /\ tags' = tags /\ work'.ots \subseteq work.ots \cup {c}
            /\ \A m \in work'.json : m \in work.json \/ m.src = c
        <5>1. CASE PersistProof(p)
          BY <5>1 DEF PersistProof, TypeOK, RepoTypeOK, Store
        <5>2. CASE PersistManifest(p)
          <6>1. /\ tags' = tags
                /\ work' = [work EXCEPT !.json = work.json \cup {StampOf(job[p], c)}]
            BY <5>2 DEF PersistManifest
          <6>2. StampOf(job[p], c).src = c
            BY StampOfFacts
          <6>. QED  BY <6>1, <6>2 DEF TypeOK, RepoTypeOK, Store
        <5>3. CASE Recover(p) \/ BeginSubmit(p) \/ Submit(p)
          BY <5>3 DEF Recover, BeginSubmit, Submit, repoVars
        <5>. QED  BY <2>5, <5>1, <5>2, <5>3
      <4>. HIDE DEF c
      <4>3. InFlight(job[p].src, job[p].decision)' = {}
        BY <1>2, <3>1, <3>3, <4>1, <4>2
      <4>4. pc'[p] = "submit" => Min(job'[p].todo) \notin work'.ots
        <5>1. CASE BeginSubmit(p)
          BY <5>1 DEF BeginSubmit, repoVars
        <5>2. CASE ~BeginSubmit(p)
          BY <2>5, <5>2, RecoverDoes, PersistManifestDoes, MovesOn
        <5>. QED  BY <5>1, <5>2
      <4>. QED  BY <4>3, <4>4
    <3>. QED  BY <3>2, <3>3
  <2>6. CASE FinishSelection(p) \/ Stage(p) \/ Commit(p) \/ AdoptLegacy(p)
             \/ CheckDurable(p) \/ TagNext(p)
    <3>1. pc'[p] \in {"durable", "stage", "commit", "tag", "idle"}
      BY <2>6, MovesOn, AdoptLegacyDoes, CheckDurableDoes, TagNextDoes
    <3>. QED  BY <3>1 DEF Selecting
  <2>7. CASE Acquire(p) \/ AcquireForRepair(p) \/ TakeSnapshot(p) \/ Survey(p)
             \/ Ending(p) \/ SubmitFails(p)
             \/ BeginCompletion(p) \/ PassOver(p) \/ CompleteTag(p)
             \/ RepairPassesOver(p) \/ RepairTag(p)
    <3>1. pc'[p] \in {"snapshot", "scan", "survey", "repair", "complete", "idle"}
      BY <2>7, AcquireDoes, TakeSnapshotDoes, SurveyDoes, EndDoes, OtherwiseDoes
    <3>. QED  BY <3>1 DEF Selecting
  <2>. QED  BY <2>1, <2>4, <2>5, <2>6, <2>7 DEF Step, Disturb, Ending
<1>4. CASE (DevStep /\ UNCHANGED runVars) \/ EnableProofCommit \/ UNCHANGED vars
  <2>1. UNCHANGED <<pc, job, tags>> /\ Holds(work, work')
    <3>1. CASE DevStep /\ UNCHANGED runVars
      BY <3>1, DevWork DEF runVars, TypeOK
    <3>2. CASE EnableProofCommit \/ UNCHANGED vars
      BY <3>2, HoldsItself DEF EnableProofCommit, Dev, vars, repoVars, runVars
    <3>. QED  BY <1>4, <3>1, <3>2
  <2>2. ASSUME NEW p \in Proc, pc'[p] \in Selecting, job'[p].todo # {}
        PROVE  InFlight(job[p].src, job[p].decision)' = {}
    BY <1>2, <2>1, <2>2 DEF Frozen, Holds
  <2>3. ASSUME NEW p \in Proc, pc'[p] = "submit"
        PROVE  Min(job'[p].todo) \notin work'.ots
    BY <2>1, <2>3 DEF OnlyOwn, Holds
  <2>. QED  BY <2>2, <2>3 DEF OnlyOwn
<1>. QED  BY <1>3, <1>4 DEF Next, DevStep

LEMMA OnlyOwnInvariant ==
    ASSUME "reset" \notin DevActions
    PROVE  Spec => []OnlyOwn
<1>1. Init => OwnDecision /\ OnlyOwn
  BY DEF Init, OwnDecision, OnlyOwn, Selecting
<1>2. Spec => []OwnDecision
  BY TypeInvariant, LockInvariant, <1>1, OwnDecisionNext, PTL DEF Spec
<1>3. CASE "merge" \in DevActions
  <2>1. FilesStay
    BY <1>3, RepoAssumption DEF FilesStay
  <2>2. Spec => []Accrues
    BY <2>1, AccruesInvariant
  <2>3. Accrues => Calm
    BY DEF Calm
  <2>. QED  BY TypeInvariant, LockInvariant, <1>1, <1>2, <2>2, <2>3, OnlyOwnNext, PTL DEF Spec
<1>4. CASE "merge" \notin DevActions
  <2>1. Calm
    BY <1>4 DEF Calm
  <2>2. /\ TypeOK /\ JobsConsistent /\ LockHeld /\ OwnDecision /\ OnlyOwn /\ [Next]_vars
        => OnlyOwn'
    BY <2>1, OnlyOwnNext
  <2>. QED  BY TypeInvariant, LockInvariant, <1>1, <1>2, <2>2, PTL DEF Spec
<1>. QED  BY <1>3, <1>4

(* A blocked run converges on what is already paid for: no run submits     *)
(* while a source besides its own decision has a proof and a manifest that *)
(* neither a tag nor its frozen source's tree records.  The run looked for *)
(* them at the start; until it submits it has waited for the calendars for *)
(* other sources, and the developer has gone on working.                   *)
THEOREM PaidForFirst ==
    ASSUME "reset" \notin DevActions
    PROVE  Spec => NothingInFlightAtSubmit
<1>. DEFINE First == \A p \in Proc : Submits(p) => InFlight(job[p].src, job[p].decision) = {}
<1>1. JobsConsistent /\ OnlyOwn => First
  BY DEF JobsConsistent, OnlyOwn, Submits, At, Selecting
<1>2. JobsConsistent /\ OnlyOwn => [First]_vars
  BY <1>1
<1>. HIDE DEF First
<1>3. Spec => []OnlyOwn
  BY OnlyOwnInvariant
<1>4. Spec => [][First]_vars
  BY TypeInvariant, <1>2, <1>3, PTL DEF Spec
<1>. QED  BY <1>4, PTL DEF First, NothingInFlightAtSubmit

-----------------------------------------------------------------------------
(* Nothing is paid for twice *)

(* A run writes proofs and manifests and deletes none. *)
LEMMA ProcessWork ==
    ASSUME TypeOK, NEW p \in Proc,
           Acquire(p) \/ AcquireForRepair(p) \/ Step(p) \/ Disturb(p)
    PROVE  Holds(work', work)
<1>1. CASE PersistProof(p) \/ PersistManifest(p)
  BY <1>1 DEF PersistProof, PersistManifest, Holds, TypeOK, RepoTypeOK, Store
<1>2. CASE Stage(p) \/ Commit(p)
  BY <1>2, HoldsItself DEF Stage, Commit
<1>3. CASE LeavesFiles(p)
  BY <1>3, LeavesFilesFacts, HoldsItself
<1>. QED  BY <1>1, <1>2, <1>3, ProcessSteps

LEMMA WorkGrows ==
    ASSUME FilesStay, "clean" \notin DevActions, TypeOK, [Next]_vars
    PROVE  Holds(work', work)
<1>1. CASE DevMerge
  BY <1>1 DEF DevMerge, Holds
<1>2. CASE DevCommit \/ DevAmend \/ Tick \/ EnableProofCommit \/ UNCHANGED vars
  BY <1>2, HoldsItself DEF DevCommit, DevAmend, Tick, EnableProofCommit, vars, repoVars
<1>3. ~DevReset /\ ~DevDrop /\ ~DevClean
  BY DEF DevReset, DevDrop, DevClean, Dev, FilesStay
<1>. QED  BY <1>1, <1>2, <1>3, ProcessWork DEF Next

(* What a completion tags from is a pair in the tree of the frozen source, *)
(* or on disk.                                                             *)
LEMMA EvidencePairs ==
    ASSUME NEW j, NEW c, CompletionEvidence(j, c) # None
    PROVE  HasPair(Tree(j.src), c) \/ HasPair(work, c)
  BY DEF CompletionEvidence, CommittedEvidence

LEMMA AllOnDisk ==
    ASSUME Accrues, NEW g \in Commits
    PROVE  Holds(work, Tree(g))
  BY HoldsChain DEF Accrues

LEMMA TaggedPresent ==
    ASSUME FilesStay, "clean" \notin DevActions, TypeOK, JobsConsistent, Accrues,
           Present, [Next]_vars
    PROVE  \A c \in TaggedSources' : HasPair(work, c)
<1>1. \A t \in tags : HasPair(work, t.src)
  BY DEF Present, TaggedSources
<1>2. CASE \E p \in Proc : CompleteTag(p) \/ TagNext(p) \/ RepairTag(p)
  <2>1. PICK p \in Proc : CompleteTag(p) \/ TagNext(p) \/ RepairTag(p)
    BY <1>2
  <2>2. PICK s : tags' \subseteq tags \cup {s} /\ HasPair(work, s.src)
    <3>1. CASE CompleteTag(p)
      <4>. DEFINE c == NextToComplete(job[p])
                  m == CompletionEvidence(job[p], c)
      <4>1. /\ m # None /\ \E j : TagOrFail(p, m, j)
            /\ job[p].src \in Commits
        BY <3>1, Zenon DEF CompleteTag, At, JobsConsistent
      <4>2. m.src = c
        BY <4>1, EvidenceFacts
      <4>3. HasPair(work, c)
        BY <4>1, EvidencePairs, AllOnDisk, HoldsPairs
      <4>. HIDE DEF c, m
      <4>4. tags' \subseteq tags \cup {m}
        BY <4>1 DEF TagOrFail
      <4>. QED  BY <4>2, <4>3, <4>4
    <3>2. CASE TagNext(p)
      <4>. DEFINE c == Min(job[p].todo)
                  s == StampOf(job[p], c)
      <4>1. /\ pc[p] = "tag" /\ job[p].todo # {} /\ tags' \subseteq tags \cup {s}
        BY <3>2, TagNextDoes
      <4>2. HasPair(work, c)
        BY <4>1, JobFacts, MinType DEF Present, JobPresent
      <4>3. s.src = c
        BY StampOfFacts
      <4>. HIDE DEF c, s
      <4>. QED  BY <4>1, <4>2, <4>3
    <3>3. CASE RepairTag(p)
      <4>1. PICK c, j : HasPair(work, c) /\ TagOrFail(p, ManifestOf(work, c), j)
        BY <3>3, Zenon DEF RepairTag, Repairable
      <4>2. ManifestOf(work, c).src = c
        BY <4>1, ManifestFacts
      <4>3. tags' \subseteq tags \cup {ManifestOf(work, c)}
        BY <4>1 DEF TagOrFail
      <4>. QED  BY <4>1, <4>2, <4>3
    <3>. QED  BY <2>1, <3>1, <3>2, <3>3
  <2>. QED  BY <1>1, <2>2 DEF TaggedSources
<1>3. CASE ~ \E p \in Proc : CompleteTag(p) \/ TagNext(p) \/ RepairTag(p)
  BY <1>1, <1>3, TagsUntouched DEF TaggedSources
<1>. QED  BY <1>2, <1>3

LEMMA PresentNext ==
    FilesStay /\ "clean" \notin DevActions =>
      (/\ TypeOK /\ JobsConsistent /\ LockHeld /\ Accrues /\ Present /\ [Next]_vars
       => Present')
<1>. SUFFICES ASSUME FilesStay, "clean" \notin DevActions, TypeOK, JobsConsistent,
                     LockHeld, Accrues, Present, [Next]_vars
              PROVE  Present'
  OBVIOUS
<1>1. Holds(work', work) /\ \A c : HasPair(work, c) => HasPair(work, c)'
  <2>1. Holds(work', work)
    BY WorkGrows
  <2>. QED  BY <2>1 DEF Holds, HasPair, Described
<1>2. \A c \in TaggedSources' : HasPair(work, c)'
  BY <1>1, TaggedPresent
<1>3. SUFFICES \A p \in Proc : JobPresent(job[p], pc[p])'
  BY <1>2 DEF Present
<1>4. CASE \E p \in Proc : Acquire(p) \/ AcquireForRepair(p) \/ Step(p) \/ Disturb(p)
  <2>1. PICK p \in Proc : Acquire(p) \/ AcquireForRepair(p) \/ Step(p) \/ Disturb(p)
    BY <1>4
  <2>2. \A q \in Proc \ {p} : JobPresent(job[q], pc[q])'
    BY <2>1, OthersIdle DEF JobPresent, Selecting
  <2>3. SUFFICES JobPresent(job[p], pc[p])'
    BY <2>2
  <2>4. JobPresent(job[p], pc[p])
    BY DEF Present
  <2>0. PICK c : c = Min(job[p].todo)
    OBVIOUS
  <2>5. CASE Scan(p)
    <3>1. /\ pc'[p] \in {"adopt", "select"}
          /\ job'[p].done = InFlight(job[p].src, job[p].decision)
      BY <2>5, ScanDoes
    <3>2. \A d \in InFlight(job[p].src, job[p].decision) : HasPair(work, d)
      BY DEF InFlight
    <3>. QED  BY <1>1, <3>1, <3>2 DEF JobPresent, Selecting
  <2>6. CASE Recover(p)
    <3>1. /\ pc[p] = "select" /\ pc'[p] = "select" /\ HasPair(work, c)
          /\ job'[p].done = job[p].done \cup {c}
      BY <2>0, <2>6, RecoverDoes
    <3>. QED  BY <1>1, <2>4, <3>1 DEF JobPresent, Selecting
  <2>7. CASE PersistManifest(p)
    <3>1. /\ pc[p] = "manifest" /\ pc'[p] = "select"
          /\ job'[p].done = job[p].done \cup {c}
      BY <2>0, <2>7, PersistManifestDoes
    <3>2. HasPair(work, c)'
      <4>1. work' = [work EXCEPT !.json = work.json \cup {StampOf(job[p], c)}]
        BY <2>0, <2>7 DEF PersistManifest
      <4>2. StampOf(job[p], c).src = c /\ c \in work.ots
        BY <2>0, <2>4, <3>1, StampOfFacts DEF JobPresent
      <4>. QED  BY <4>1, <4>2 DEF HasPair, Described, TypeOK, RepoTypeOK, Store
    <3>. QED  BY <1>1, <2>0, <2>4, <3>1, <3>2 DEF JobPresent, Selecting
  <2>8. CASE PersistProof(p)
    <3>1. /\ pc[p] = "proof" /\ pc'[p] = "manifest" /\ job'[p] = job[p]
      BY <2>8, MovesOn
    <3>2. c \in work'.ots
      BY <2>0, <2>8 DEF PersistProof, TypeOK, RepoTypeOK, Store
    <3>. QED  BY <1>1, <2>0, <2>4, <3>1, <3>2 DEF JobPresent, Selecting
  <2>9. CASE BeginSubmit(p) \/ Submit(p) \/ FinishSelection(p) \/ Stage(p) \/ Commit(p)
    <3>1. /\ job'[p] = job[p]
          /\ \/ pc[p] \in {"select", "submit"} /\ pc'[p] \in {"submit", "proof", "durable"}
             \/ pc[p] \in {"stage", "commit"} /\ pc'[p] \in {"commit", "tag"}
      BY <2>9, MovesOn
    <3>. QED  BY <1>1, <2>4, <3>1 DEF JobPresent, Selecting
  <2>10. CASE AdoptLegacy(p)
    <3>1. pc'[p] = "stage" /\ job'[p].todo = {}
      BY <2>10, AdoptLegacyDoes DEF JobsConsistent
    <3>. QED  BY <3>1 DEF JobPresent, Selecting
  <2>11. CASE CheckDurable(p)
    <3>1. /\ pc[p] = "durable" /\ pc'[p] \in {"stage", "tag"} /\ job'[p].todo = job[p].done
      BY <2>11, CheckDurableDoes
    <3>. QED  BY <1>1, <2>4, <3>1 DEF JobPresent, Selecting
  <2>12. CASE TagNext(p)
    <3>1. /\ pc[p] = "tag"
          /\ \/ pc'[p] = "idle"
             \/ pc'[p] = "tag" /\ job'[p].todo \subseteq job[p].todo
      BY <2>12, TagNextDoes
    <3>. QED  BY <1>1, <2>4, <3>1 DEF JobPresent, Selecting
  <2>13. CASE Acquire(p) \/ AcquireForRepair(p) \/ TakeSnapshot(p) \/ Survey(p)
             \/ Ending(p) \/ SubmitFails(p)
             \/ BeginCompletion(p) \/ PassOver(p) \/ CompleteTag(p)
             \/ RepairPassesOver(p) \/ RepairTag(p)
    <3>1. pc'[p] \in {"snapshot", "scan", "survey", "repair", "complete", "idle"}
      BY <2>13, AcquireDoes, TakeSnapshotDoes, SurveyDoes, EndDoes, OtherwiseDoes
    <3>. QED  BY <3>1 DEF JobPresent, Selecting
  <2>. QED  BY <2>1, <2>5, <2>6, <2>7, <2>8, <2>9, <2>10, <2>11, <2>12, <2>13
            DEF Step, Disturb, Ending
<1>5. CASE UNCHANGED <<pc, job>>
  BY <1>1, <1>5 DEF Present, JobPresent, Holds
<1>. QED  BY <1>4, <1>5, WhoMoves

(* What is tagged is on disk: where nothing is cleaned away, or where some *)
(* commit holds it.                                                        *)
LEMMA TaggedOnDisk ==
    ASSUME FilesStay, "clean" \notin DevActions \/ (ProofCommit /\ ~Repairs)
    PROVE  Spec => [](\A t \in tags : HasPair(work, t.src))
<1>1. Spec => []Accrues
  BY AccruesInvariant
<1>2. CASE "clean" \notin DevActions
  <2>1. Init => Present
    BY DEF Init, RepoInit, Present, JobPresent, TaggedSources, Selecting
  <2>2. /\ TypeOK /\ JobsConsistent /\ LockHeld /\ Accrues /\ Present /\ [Next]_vars
        => Present'
    BY <1>2, PresentNext
  <2>3. Present => \A t \in tags : HasPair(work, t.src)
    BY DEF Present, TaggedSources
  <2>. QED  BY TypeInvariant, LockInvariant, <1>1, <2>1, <2>2, <2>3, PTL DEF Spec
<1>3. CASE ProofCommit /\ ~Repairs
  <2>1. Spec => []TagsBacked
    BY <1>3, TagsAreBacked
  <2>2. Accrues /\ TagsBacked => \A t \in tags : HasPair(work, t.src)
    BY <1>3, AllOnDisk, HoldsPairs DEF TagsBacked
  <2>. QED  BY <1>1, <2>1, <2>2, PTL
<1>. QED  BY <1>2, <1>3

(* A source is not submitted while a proof of it is left on disk or in     *)
(* HEAD's tree, or a tag: the run has looked for the proof file only, and  *)
(* relies on a committed or tagged one being on disk.  Removing a proof    *)
(* from the repository undoes that on purpose, and a clean does where      *)
(* proofs are not committed or where a repair has tagged what was not.     *)
THEOREM PaidOnce ==
    ASSUME {"reset", "drop"} \cap DevActions = {},
           "clean" \notin DevActions \/ (ProofCommit /\ ~Repairs)
    PROVE  Spec => NoResubmission
<1>. DEFINE Tagged == \A t \in tags : HasPair(work, t.src)
            Once == \A p \in Proc : Submits(p) =>
                      Min(job[p].todo) \notin work.ots \cup Tree(head).ots \cup TaggedSources
<1>1. OnlyOwn /\ Accrues /\ TypeOK /\ Tagged => Once
  <2>. SUFFICES ASSUME OnlyOwn, Accrues, TypeOK, Tagged, NEW p \in Proc, pc[p] = "submit"
                PROVE  Min(job[p].todo) \notin work.ots \cup Tree(head).ots \cup TaggedSources
    BY DEF Submits, At
  <2>1. Min(job[p].todo) \notin work.ots
    BY DEF OnlyOwn
  <2>2. Tree(head).ots \subseteq work.ots
    BY AllOnDisk DEF TypeOK, RepoTypeOK, Commits, Holds
  <2>3. TaggedSources \subseteq work.ots
    BY DEF TaggedSources, HasPair
  <2>. QED  BY <2>1, <2>2, <2>3
<1>2. OnlyOwn /\ Accrues /\ TypeOK /\ Tagged => [Once]_vars
  BY <1>1
<1>3. Spec => []OnlyOwn /\ []Accrues /\ []Tagged
  BY OnlyOwnInvariant, AccruesInvariant, TaggedOnDisk DEF FilesStay
<1>. HIDE DEF Once, Tagged
<1>4. Spec => [][Once]_vars
  BY TypeInvariant, <1>2, <1>3, PTL DEF Spec
<1>. QED  BY <1>4, PTL DEF Once, NoResubmission

-----------------------------------------------------------------------------
(* The stamp on disk is the stamp that is tagged *)

(* A run that learns more, and nothing that disagrees with the disk, gives *)
(* a source the stamp it gave it before.                                   *)
LEMMA StampedStays ==
    ASSUME NEW j, NEW k, NEW c, StampedAs(j, c),
           k.at = j.at, k.trig = j.trig, j.rec \subseteq k.rec,
           \A m \in k.rec, n \in k.rec \cup work.json : m.src = n.src => m = n
    PROVE  StampedAs(k, c)
<1>1. CASE \E m \in k.rec : m.src = c
  <2>1. StampOf(k, c) \in k.rec /\ StampOf(k, c).src = c
    BY <1>1, StampOfFacts
  <2>. QED  BY <2>1 DEF StampedAs
<1>2. CASE \A m \in k.rec : m.src # c
  <2>1. StampOf(k, c) = StampOf(j, c)
    BY <1>2, StampOfFacts
  <2>. QED  BY <2>1 DEF StampedAs
<1>. QED  BY <1>1, <1>2

(* Where the disk tells a run nothing new, its job stays faithful. *)
LEMMA FaithfulStays ==
    ASSUME HistoryGrows, Holds(work, work'), NEW j, NEW step, JobFaithful(j, step)
    PROVE  JobFaithful(j, step)'
<1>1. work'.json \subseteq work.json
  BY DEF Holds
<1>2. \A s : Witnessed(s) => Witnessed(s)'
  BY DEF Witnessed, HistoryGrows, Tree
<1>. QED  BY <1>1, <1>2 DEF JobFaithful, StampedAs

LEMMA OneManifestNext ==
    TypeOK /\ Calm /\ OneManifest /\ [Next]_vars => OneManifest'
<1>. SUFFICES ASSUME TypeOK, Calm, OneManifest, [Next]_vars PROVE OneManifest'
  OBVIOUS
<1>1. CASE Holds(work, work')
  BY <1>1 DEF OneManifest, Holds
<1>2. CASE DevStep
  BY <1>1, <1>2, DevWork DEF TypeOK
<1>3. CASE EnableProofCommit \/ UNCHANGED vars
  BY <1>1, <1>3, HoldsItself DEF EnableProofCommit, vars, repoVars
<1>4. CASE \E p \in Proc : Acquire(p) \/ AcquireForRepair(p) \/ Step(p) \/ Disturb(p)
  <2>1. PICK p \in Proc : \/ PersistProof(p) \/ PersistManifest(p) \/ Stage(p)
                          \/ Commit(p) \/ LeavesFiles(p)
    BY <1>4, ProcessSteps
  <2>2. CASE PersistManifest(p)
    <3>. DEFINE c == Min(job[p].todo)
                s == StampOf(job[p], c)
    <3>1. /\ \A m \in work.json : m.src = c => m = s
          /\ work' = [work EXCEPT !.json = work.json \cup {s}]
      BY <2>2 DEF PersistManifest
    <3>2. work'.json = work.json \cup {s} /\ s.src = c
      BY <3>1, StampOfFacts DEF TypeOK, RepoTypeOK, Store
    <3>. HIDE DEF c, s
    <3>. QED  BY <3>1, <3>2 DEF OneManifest
  <2>3. CASE PersistProof(p) \/ Stage(p) \/ Commit(p) \/ LeavesFiles(p)
    <3>1. work'.json = work.json
      BY <2>3, LeavesFilesFacts DEF PersistProof, Stage, Commit, TypeOK, RepoTypeOK, Store
    <3>. QED  BY <3>1 DEF OneManifest
  <2>. QED  BY <2>1, <2>2, <2>3
<1>. QED  BY <1>2, <1>3, <1>4 DEF Next, DevStep

(* What is recovered, submitted and persisted. *)
LEMMA SelectionFaithful ==
    ASSUME TypeOK, JobsConsistent, OneManifest, HistoryGrows, NEW p \in Proc,
           JobFaithful(job[p], pc[p]),
           \/ Scan(p) \/ Recover(p) \/ BeginSubmit(p) \/ Submit(p)
           \/ PersistProof(p) \/ PersistManifest(p) \/ FinishSelection(p)
    PROVE  JobFaithful(job[p], pc[p])'
<1>0. PICK c : c = Min(job[p].todo)
  OBVIOUS
<1>. DEFINE Agrees(j, store) == \A m \in j.rec, n \in j.rec \cup store.json :
                                   m.src = n.src => m = n
<1>1. CASE Scan(p)
  <2>. DEFINE fl == InFlight(job[p].src, job[p].decision)
  <2>1. /\ pc'[p] \in {"adopt", "select"} /\ work' = work
        /\ job'[p].done = fl
        /\ job'[p].rec = {m \in work.json : m.src \in fl}
    BY <1>1, ScanDoes DEF Scan, repoVars
  <2>. HIDE DEF fl
  <2>2. Agrees(job'[p], work')
    BY <2>1 DEF OneManifest
  <2>3. \A d \in job'[p].done : StampedAs(job[p], d)'
    <3>1. ASSUME NEW d \in fl, NEW m \in work.json, m.src = d
          PROVE  m = StampOf(job'[p], d)
      <4>1. m \in job'[p].rec
        BY <2>1, <3>1
      <4>2. StampOf(job'[p], d) \in job'[p].rec /\ StampOf(job'[p], d).src = d
        BY <3>1, <4>1, StampOfFacts
      <4>. QED  BY <2>2, <3>1, <4>1, <4>2
    <3>. QED  BY <2>1, <3>1 DEF StampedAs, StampOf
  <2>. QED  BY <2>1, <2>2, <2>3 DEF JobFaithful, Selecting
<1>2. CASE Recover(p)
  <2>1. /\ pc[p] = "select" /\ pc'[p] = "select" /\ Frozen(job[p], job'[p])
        /\ HasPair(work, c) /\ work' = work
        /\ job'[p].done = job[p].done \cup {c}
        /\ job'[p].rec = job[p].rec \cup {ManifestOf(work, c)}
    BY <1>0, <1>2, RecoverDoes DEF Recover, repoVars
  <2>2. ManifestOf(work, c) \in work.json /\ ManifestOf(work, c).src = c
    BY <2>1, ManifestFacts
  <2>3. Agrees(job[p], work) /\ \A d \in job[p].done : StampedAs(job[p], d)
    BY <2>1 DEF JobFaithful, Selecting
  <2>4. Agrees(job'[p], work)
    BY <2>1, <2>2, <2>3 DEF OneManifest
  <2>5. PICK k : k = job'[p]
    OBVIOUS
  <2>6. \A d \in k.done : StampedAs(k, d)
    <3>1. ASSUME NEW d \in job[p].done
          PROVE  StampedAs(k, d)
      BY <2>1, <2>3, <2>4, <2>5, StampedStays DEF Frozen
    <3>2. StampedAs(k, c)
      <4>1. StampOf(k, c) \in k.rec /\ StampOf(k, c).src = c
        BY <2>1, <2>2, <2>5, StampOfFacts
      <4>. QED  BY <2>4, <2>5, <4>1 DEF StampedAs
    <3>. QED  BY <2>1, <2>5, <3>1, <3>2
  <2>. QED  BY <2>1, <2>4, <2>5, <2>6 DEF JobFaithful, Selecting, StampedAs, StampOf
<1>3. CASE PersistManifest(p)
  <2>. DEFINE s == StampOf(job[p], c)
  <2>1. /\ pc[p] = "manifest" /\ pc'[p] = "select" /\ Frozen(job[p], job'[p])
        /\ job'[p].done = job[p].done \cup {c} /\ job'[p].rec = job[p].rec
    BY <1>0, <1>3, PersistManifestDoes
  <2>2. /\ \A m \in work.json : m.src = c => m = s
        /\ work'.json = work.json \cup {s}
    BY <1>0, <1>3 DEF PersistManifest, TypeOK, RepoTypeOK, Store
  <2>3. s.src = c /\ (s \in job[p].rec \/ \A m \in job[p].rec : m.src # c)
    BY StampOfFacts
  <2>4. Agrees(job[p], work) /\ \A d \in job[p].done : StampedAs(job[p], d)
    BY <2>1 DEF JobFaithful, Selecting
  <2>. HIDE DEF s
  <2>5. Agrees(job'[p], work')
    BY <2>1, <2>2, <2>3, <2>4
  <2>6. \A d : StampOf(job[p], d)' = StampOf(job[p], d)
    BY <2>1 DEF StampOf, Frozen
  <2>7. ASSUME NEW d \in job'[p].done, NEW m \in work'.json, m.src = d
        PROVE  m = StampOf(job[p], d)
    BY <2>1, <2>2, <2>3, <2>4, <2>7 DEF StampedAs, s
  <2>8. \A d \in job'[p].done : StampedAs(job[p], d)'
    BY <2>6, <2>7 DEF StampedAs
  <2>. QED  BY <2>1, <2>5, <2>8 DEF JobFaithful, Selecting
<1>4. CASE BeginSubmit(p) \/ Submit(p) \/ PersistProof(p) \/ FinishSelection(p)
  <2>1. /\ pc[p] \in Selecting /\ pc'[p] \in Selecting \cup {"durable"}
        /\ job'[p] = job[p]
    BY <1>4, MovesOn DEF Selecting
  <2>2. work'.json = work.json
    BY <1>4 DEF BeginSubmit, Submit, PersistProof, FinishSelection, repoVars, TypeOK,
                RepoTypeOK, Store
  <2>3. \A d : StampOf(job[p], d)' = StampOf(job[p], d)
    BY <2>1 DEF StampOf
  <2>. QED  BY <2>1, <2>2, <2>3 DEF JobFaithful, Selecting, StampedAs
<1>. QED  BY <1>1, <1>2, <1>3, <1>4

(* What is checked, staged, committed and tagged. *)
LEMMA DurabilityFaithful ==
    ASSUME TypeOK, JobsConsistent, Backed, JobsBacked, Stacked, HistoryGrows,
           NEW p \in Proc, JobFaithful(job[p], pc[p]),
           AdoptLegacy(p) \/ CheckDurable(p) \/ Stage(p) \/ Commit(p) \/ TagNext(p)
    PROVE  JobFaithful(job[p], pc[p])'
<1>1. \A s : Witnessed(s) => Witnessed(s)'
  BY DEF Witnessed, HistoryGrows, Tree
<1>2. CASE AdoptLegacy(p)
  <2>1. pc'[p] = "stage" /\ job'[p].todo = {}
    BY <1>2, AdoptLegacyDoes DEF JobsConsistent
  <2>. QED  BY <2>1 DEF JobFaithful, Selecting
<1>3. CASE CheckDurable(p)
  <2>1. /\ pc[p] = "durable" /\ Frozen(job[p], job'[p])
        /\ pc'[p] = IF job[p].keep /\ ~PathsAreCommitted(job[p].done)
                    THEN "stage" ELSE "tag"
        /\ job'[p].todo = job[p].done /\ job'[p].rec = job[p].rec
        /\ work' = work
    BY <1>3, CheckDurableDoes DEF CheckDurable, repoVars
  <2>2. \A d : StampOf(job[p], d)' = StampOf(job[p], d)
    BY <2>1 DEF StampOf, Frozen
  <2>3. \A d \in job[p].done : StampedAs(job[p], d)
    BY <2>1 DEF JobFaithful, Selecting
  <2>4. CASE job[p].keep /\ ~PathsAreCommitted(job[p].done)
    <3>1. pc'[p] = "stage"
      BY <2>1, <2>4
    <3>. QED  BY <2>1, <2>2, <2>3, <3>1 DEF JobFaithful, Selecting, StampedAs
  <2>5. CASE ~(job[p].keep /\ ~PathsAreCommitted(job[p].done))
    <3>1. pc'[p] = "tag"
      BY <2>1, <2>5
    <3>2. ASSUME job[p].keep, NEW d \in job[p].done
          PROVE  Witnessed(StampOf(job[p], d))
      <4>1. head \in Commits /\ HasPair(Tree(head), d)
        BY <2>5, <3>2 DEF PathsAreCommitted, TypeOK, RepoTypeOK, Commits
      <4>2. PICK m \in Tree(head).json : m.src = d
        BY <4>1 DEF HasPair, Described
      <4>3. m \in work.json
        BY <4>2 DEF Stacked, Holds
      <4>4. m = StampOf(job[p], d)
        BY <2>3, <4>2, <4>3 DEF StampedAs
      <4>. QED  BY <4>1, <4>2, <4>4 DEF Witnessed, HasPair
    <3>3. job'[p].keep => \A d \in job'[p].todo : Witnessed(StampOf(job[p], d))'
      BY <1>1, <2>1, <2>2, <3>2 DEF Frozen
    <3>. QED  BY <3>1, <3>3 DEF JobFaithful, Selecting
  <2>. QED  BY <2>4, <2>5
<1>4. CASE Stage(p)
  <2>1. pc[p] = "stage" /\ pc'[p] = "commit" /\ job'[p] = job[p] /\ work' = work
    BY <1>4, MovesOn DEF Stage
  <2>. QED  BY <2>1 DEF JobFaithful, Selecting, StampedAs, StampOf
<1>5. CASE Commit(p)
  <2>. DEFINE S == job[p].done
              tree == Put(Tree(head), work, S)
  <2>1. /\ pc[p] = "commit" /\ pc'[p] = "tag" /\ job'[p] = job[p]
        /\ CanCommit(S) /\ NewCommit(Anc(head), TRUE, S, tree)
    BY <1>5, MovesOn DEF Commit, GeneratedProofCommit
  <2>2. /\ RepoTypeOK /\ S \in SUBSET Nat /\ Anc(head) \in SUBSET Nat
        /\ tree \in Store /\ TRUE \in BOOLEAN
    BY JobFacts, CommitFacts, PutFacts DEF TypeOK, RepoTypeOK, Commits
  <2>3. job[p].todo \subseteq S /\ \A d \in job[p].todo : StampedAs(job[p], d)
    BY <2>1 DEF JobsBacked, JobBacked, JobFaithful
  <2>4. ASSUME NEW d \in job[p].todo
        PROVE  d \in tree.ots /\ StampOf(job[p], d) \in tree.json
    <3>1. HasPair(tree, d) /\ d \in S
      BY <2>1, <2>3, CommittedPairs
    <3>2. PICK m \in tree.json : m.src = d
      BY <3>1 DEF HasPair, Described
    <3>3. m \in work.json
      BY <3>1, <3>2 DEF Put
    <3>4. m = StampOf(job[p], d)
      BY <2>3, <3>2, <3>3 DEF StampedAs
    <3>. QED  BY <3>1, <3>2, <3>4 DEF HasPair
  <2>. HIDE DEF S, tree
  <2>5. PICK h \in Commits' : Tree(h)' = tree
    <3>1. /\ Commits' = Commits \cup {head'}
          /\ \A c \in Commits : c # head' /\ history'[c] = history[c]
          /\ history'[head'].anc = Anc(head) \cup {head'}
          /\ history'[head'].claims = S
          /\ history'[head'].tree = tree
      <4>1. NewCommit(Anc(head), TRUE, S, tree)
        BY <2>1
      <4>. QED  BY <2>2, <4>1, NewCommitRecords, Zenon
    <3>. QED  BY <3>1 DEF Tree
  <2>6. \A d \in job[p].todo : Witnessed(StampOf(job[p], d))'
    <3>1. ASSUME NEW d \in job[p].todo
          PROVE  Witnessed(StampOf(job[p], d))'
      <4>1. PICK s : s = StampOf(job[p], d)
        OBVIOUS
      <4>2. StampOf(job[p], d)' = s /\ s.src = d
        BY <2>1, <4>1, StampOfFacts DEF StampOf
      <4>3. s.src \in Tree(h)'.ots /\ s \in Tree(h)'.json
        BY <2>4, <2>5, <4>1, <4>2
      <4>. QED  BY <2>5, <4>2, <4>3 DEF Witnessed
    <3>. QED  BY <3>1
  <2>. QED  BY <2>1, <2>6 DEF JobFaithful, Selecting
<1>6. CASE TagNext(p)
  <2>1. /\ pc[p] = "tag"
        /\ \/ pc'[p] = "idle"
           \/ /\ pc'[p] = "tag" /\ Frozen(job[p], job'[p])
              /\ job'[p].todo \subseteq job[p].todo /\ job'[p].rec = job[p].rec
    BY <1>6, TagNextDoes
  <2>2. CASE pc'[p] = "idle"
    BY <2>2 DEF JobFaithful, Selecting
  <2>3. CASE pc'[p] = "tag" /\ Frozen(job[p], job'[p])
             /\ job'[p].todo \subseteq job[p].todo /\ job'[p].rec = job[p].rec
    <3>1. \A d : StampOf(job[p], d)' = StampOf(job[p], d)
      BY <2>3 DEF StampOf, Frozen
    <3>2. job'[p].keep => \A d \in job'[p].todo : Witnessed(StampOf(job[p], d))'
      BY <1>1, <2>1, <2>3, <3>1 DEF Frozen, JobFaithful
    <3>. QED  BY <2>3, <3>2 DEF JobFaithful, Selecting
  <2>. QED  BY <2>1, <2>2, <2>3
<1>. QED  BY <1>2, <1>3, <1>4, <1>5, <1>6

LEMMA FaithfulNext ==
    /\ TypeOK /\ JobsConsistent /\ LockHeld /\ Backed /\ JobsBacked /\ Calm /\ Stacked
    /\ OneManifest /\ JobsFaithful /\ [Next]_vars
    => JobsFaithful'
<1>. SUFFICES ASSUME TypeOK, JobsConsistent, LockHeld, Backed, JobsBacked, Calm, Stacked,
                     OneManifest, JobsFaithful, [Next]_vars
              PROVE  \A p \in Proc : JobFaithful(job[p], pc[p])'
  BY DEF JobsFaithful
<1>1. HistoryGrows
  BY TypeStep DEF vars, repoVars, HistoryGrows, Commits
<1>2. CASE \E p \in Proc : Acquire(p) \/ AcquireForRepair(p) \/ Step(p) \/ Disturb(p)
  <2>1. PICK p \in Proc : Acquire(p) \/ AcquireForRepair(p) \/ Step(p) \/ Disturb(p)
    BY <1>2
  <2>2. \A q \in Proc \ {p} : JobFaithful(job[q], pc[q])'
    BY <2>1, OthersIdle DEF JobFaithful, Selecting
  <2>3. SUFFICES JobFaithful(job[p], pc[p])'
    BY <2>2
  <2>4. JobFaithful(job[p], pc[p])
    BY DEF JobsFaithful
  <2>5. CASE \/ Scan(p) \/ Recover(p) \/ BeginSubmit(p) \/ Submit(p)
             \/ PersistProof(p) \/ PersistManifest(p) \/ FinishSelection(p)
    BY <1>1, <2>4, <2>5, SelectionFaithful
  <2>6. CASE AdoptLegacy(p) \/ CheckDurable(p) \/ Stage(p) \/ Commit(p) \/ TagNext(p)
    BY <1>1, <2>4, <2>6, DurabilityFaithful
  <2>7. CASE Acquire(p) \/ AcquireForRepair(p) \/ TakeSnapshot(p) \/ Survey(p)
             \/ Ending(p) \/ SubmitFails(p)
             \/ BeginCompletion(p) \/ PassOver(p) \/ CompleteTag(p)
             \/ RepairPassesOver(p) \/ RepairTag(p)
    <3>1. pc'[p] \in {"snapshot", "scan", "survey", "repair", "complete", "idle"}
      BY <2>7, AcquireDoes, TakeSnapshotDoes, SurveyDoes, EndDoes, OtherwiseDoes
    <3>. QED  BY <3>1 DEF JobFaithful, Selecting
  <2>. QED  BY <2>1, <2>5, <2>6, <2>7 DEF Step, Disturb, Ending
<1>3. CASE (DevStep /\ UNCHANGED runVars) \/ EnableProofCommit \/ UNCHANGED vars
  <2>1. UNCHANGED <<pc, job>> /\ Holds(work, work')
    <3>1. CASE DevStep /\ UNCHANGED runVars
      BY <3>1, DevWork DEF runVars, TypeOK
    <3>2. CASE EnableProofCommit \/ UNCHANGED vars
      BY <3>2, HoldsItself DEF EnableProofCommit, vars, repoVars, runVars
    <3>. QED  BY <1>3, <3>1, <3>2
  <2>2. ASSUME NEW p \in Proc
        PROVE  JobFaithful(job[p], pc[p])'
    <3>1. PICK j, step : j = job[p] /\ step = pc[p] /\ JobFaithful(j, step)
      BY DEF JobsFaithful
    <3>2. JobFaithful(j, step)'
      BY <1>1, <2>1, <3>1, FaithfulStays
    <3>. QED  BY <2>1, <3>1, <3>2
  <2>. QED  BY <2>2
<1>. QED  BY <1>2, <1>3 DEF Next, DevStep

(* Whatever the frozen lineage claims and the disk has, some commit whose  *)
(* files are all on disk has.                                              *)
ClaimsFound(j) ==
    \A c \in Claimed(j.src) : HasPair(work, c) =>
        \E g \in Commits : HasPair(Tree(g), c) /\ Holds(work, Tree(g))

(* A completion tags what a commit holds: it finds the manifest in the     *)
(* frozen source's tree, or a claim whose manifest is the one on disk.     *)
LEMMA CompletedWitnessed ==
    ASSUME OneManifest, NEW j, j.src \in Commits, ClaimsFound(j), NEW c,
           CompletionEvidence(j, c) # None
    PROVE  Witnessed(CompletionEvidence(j, c))
<1>. DEFINE m == CompletionEvidence(j, c)
<1>1. m.src = c
  BY EvidenceFacts
<1>2. CASE CommittedEvidence(c, j.src) # None
  <2>1. HasPair(Tree(j.src), c) /\ m = ManifestOf(Tree(j.src), c)
    BY <1>2 DEF CommittedEvidence, CompletionEvidence
  <2>2. m \in Tree(j.src).json
    BY <2>1, ManifestFacts
  <2>. QED  BY <1>1, <2>1, <2>2 DEF Witnessed, HasPair
<1>3. CASE CommittedEvidence(c, j.src) = None
  <2>1. CompletionClaims(j, c) # {} /\ HasPair(work, c) /\ m = ManifestOf(work, c)
    BY <1>3 DEF CompletionEvidence
  <2>2. c \in Claimed(j.src)
    BY <2>1 DEF CompletionClaims, Claiming, GeneratedAncestors, Claimed
  <2>3. PICK g \in Commits : HasPair(Tree(g), c) /\ Holds(work, Tree(g))
    BY <2>1, <2>2 DEF ClaimsFound
  <2>4. PICK n \in Tree(g).json : n.src = c
    BY <2>3 DEF HasPair, Described
  <2>5. n \in work.json /\ m \in work.json
    BY <2>1, <2>3, <2>4, ManifestFacts DEF Holds
  <2>6. n = m
    BY <1>1, <2>4, <2>5 DEF OneManifest
  <2>. QED  BY <1>1, <2>3, <2>6 DEF Witnessed, HasPair
<1>. QED  BY <1>2, <1>3

ClaimsKept == \A p \in Proc : pc[p] = "complete" => ClaimsFound(job[p])

TagsWitnessed == ProofCommit => \A t \in tags : Witnessed(t)

LEMMA TagsWitnessedNext ==
    /\ TypeOK /\ JobsConsistent /\ ClaimsKept /\ OneManifest /\ JobsFaithful
    /\ KeptThroughout /\ ~Repairing /\ TagsWitnessed /\ [Next]_vars
    => TagsWitnessed'
<1>. SUFFICES ASSUME TypeOK, JobsConsistent, ClaimsKept, OneManifest, JobsFaithful,
                     KeptThroughout, ~Repairing, TagsWitnessed, [Next]_vars, ProofCommit
              PROVE  \A t \in tags' : Witnessed(t)'
  BY DEF TagsWitnessed
<1>1. HistoryGrows
  BY TypeStep DEF vars, repoVars, HistoryGrows, Commits
<1>2. \A s : Witnessed(s) => Witnessed(s)'
  BY <1>1 DEF Witnessed, HistoryGrows, Tree
<1>3. SUFFICES \A t \in tags' \ tags : Witnessed(t)
  BY <1>2 DEF TagsWitnessed
<1>4. CASE \E p \in Proc : CompleteTag(p) \/ TagNext(p) \/ RepairTag(p)
  <2>1. PICK p \in Proc : CompleteTag(p) \/ TagNext(p) \/ RepairTag(p)
    BY <1>4
  <2>2. ~RepairTag(p)
    BY DEF RepairTag, At, Repairing
  <2>3. CASE CompleteTag(p)
    <3>. DEFINE m == CompletionEvidence(job[p], NextToComplete(job[p]))
    <3>1. /\ m # None /\ job[p].src \in Commits /\ \E j : TagOrFail(p, m, j)
          /\ ClaimsFound(job[p])
      BY <2>3 DEF CompleteTag, At, JobsConsistent, ClaimsKept
    <3>2. Witnessed(m)
      BY <3>1, CompletedWitnessed
    <3>. HIDE DEF m
    <3>3. tags' \subseteq tags \cup {m}
      BY <3>1 DEF TagOrFail
    <3>. QED  BY <3>2, <3>3
  <2>4. CASE TagNext(p)
    <3>. DEFINE c == Min(job[p].todo)
    <3>1. /\ pc[p] = "tag" /\ job[p].todo # {}
          /\ tags' \subseteq tags \cup {StampOf(job[p], c)}
      BY <2>4, TagNextDoes
    <3>2. c \in job[p].todo /\ job[p].keep
      BY <3>1, JobFacts, MinType DEF KeptThroughout
    <3>3. Witnessed(StampOf(job[p], c))
      BY <3>1, <3>2 DEF JobsFaithful, JobFaithful
    <3>. QED  BY <3>1, <3>3
  <2>. QED  BY <2>1, <2>2, <2>3, <2>4
<1>5. CASE ~ \E p \in Proc : CompleteTag(p) \/ TagNext(p) \/ RepairTag(p)
  BY <1>5, TagsUntouched
<1>. QED  BY <1>4, <1>5

-----------------------------------------------------------------------------
(* What a successful run leaves: sources are never generated commits *)

(* All sources that have a proof somewhere. *)
Stored == work.ots \cup index.ots \cup UNION {Tree(g).ots : g \in Commits}

LEMMA PolicySelects ==
    ASSUME NEW pending, NEW hasBaseline, NEW lastFixed, NEW t
    PROVE  \A c \in EvaluatePolicy(pending, hasBaseline, lastFixed, t).commits :
              \E x \in pending : x.id = c
<1>1. LatestPending(pending) \subseteq pending
  BY DEF LatestPending
<1>. DEFINE d == EvaluatePolicy(pending, hasBaseline, lastFixed, t)
            latest == {x.id : x \in LatestPending(pending)}
            every == {x.id : x \in pending}
<1>2. d.commits \in {{}, latest, every}
  BY DEF EvaluatePolicy, NoDecision
<1>. HIDE DEF d
<1>3. \A c \in d.commits : \E x \in pending : x.id = c
  BY <1>1, <1>2
<1>. QED  BY <1>3 DEF d

(* What build_snapshot selects is pending, and pending means meaningful. *)
LEMMA SelectsMeaningful ==
    ASSUME NEW src, Anc(src) \subseteq Commits, NEW t
    PROVE  Meaningful(DecisionFor(src, t).commits)
<1>. DEFINE base == Baseline(src)
            pend == PendingMeaningful(src, BaseSource(base))
            ps   == {[id |-> c, time |-> history[c].time] : c \in pend}
<1>1. \A x \in ps : x.id \in pend
  OBVIOUS
<1>2. DecisionFor(src, t) = EvaluatePolicy(ps, base # None, LastFixedTime(base), t)
  BY DEF DecisionFor
<1>3. \A c \in pend : c \in Commits /\ ~IsGenerated(c)
  BY DEF PendingMeaningful
<1>. HIDE DEF base, pend, ps
<1>4. \A c \in DecisionFor(src, t).commits : \E x \in ps : x.id = c
  BY <1>2, PolicySelects
<1>. QED  BY <1>1, <1>3, <1>4 DEF Meaningful

LEMMA MeaningfulStays ==
    ASSUME HistoryGrows
    PROVE  \A c \in Commits : ~IsGenerated(c) => c \in Commits' /\ ~IsGenerated(c)'
  BY DEF HistoryGrows, IsGenerated

(* Files come from other stores, or are those of a meaningful source. *)
LEMMA StoresMeaningfulStep ==
    ASSUME HistoryGrows, StoresMeaningful, NEW X, Meaningful(X),
           work'.ots \subseteq Stored \cup X, index'.ots \subseteq Stored,
           \A g \in Commits' \ Commits : history'[g].tree.ots \subseteq Stored
    PROVE  StoresMeaningful'
<1>1. \A c \in Stored \cup X : c \in Commits' /\ ~IsGenerated(c)'
  BY MeaningfulStays DEF StoresMeaningful, Meaningful, Stored
<1>2. \A g \in Commits' : Tree(g)'.ots \subseteq Stored
  BY DEF HistoryGrows, Tree, Stored
<1>. QED  BY <1>1, <1>2 DEF StoresMeaningful, Meaningful

LEMMA DevStored ==
    ASSUME RepoTypeOK, DevStep
    PROVE  work'.ots \subseteq Stored /\ index'.ots \subseteq Stored
<1>1. head \in Commits /\ Tree(head).ots \subseteq Stored
      /\ work.ots \subseteq Stored /\ index.ots \subseteq Stored
      /\ \A c \in Commits : Tree(c).ots \subseteq Stored
  BY DEF RepoTypeOK, Commits, Stored
<1>2. CASE DevCommit \/ DevAmend \/ Tick
  BY <1>1, <1>2 DEF DevCommit, DevAmend, Tick
<1>3. CASE DevReset
  <2>1. PICK c \in Commits : /\ index' = Tree(c)
                             /\ work'.ots = (work.ots \ index.ots) \cup Tree(c).ots
    BY <1>3 DEF DevReset
  <2>. QED  BY <1>1, <2>1
<1>4. CASE DevMerge
  <2>1. PICK c \in Commits :
          /\ index'.ots = Tree(head).ots \cup (Tree(c).ots \ Tree(head).ots)
          /\ work'.ots = work.ots \cup (Tree(c).ots \ Tree(head).ots)
    BY <1>4 DEF DevMerge
  <2>. QED  BY <1>1, <2>1
<1>5. CASE DevDrop
  <2>1. PICK c : index' = Put(index, EmptyStore, {c}) /\ work' = Put(work, EmptyStore, {c})
    BY <1>5 DEF DevDrop
  <2>. QED  BY <1>1, <2>1, PutParts DEF EmptyStore
<1>6. CASE DevClean
  BY <1>1, <1>6 DEF DevClean
<1>. QED  BY <1>2, <1>3, <1>4, <1>5, <1>6 DEF DevStep

LEMMA StoresMeaningfulNext ==
    /\ TypeOK /\ JobsConsistent /\ OwnDecision /\ StoresMeaningful /\ JobsMeaningful
    /\ RepoTypeOK' /\ [Next]_vars
    => StoresMeaningful'
<1>. SUFFICES ASSUME TypeOK, JobsConsistent, OwnDecision, StoresMeaningful, JobsMeaningful,
                     RepoTypeOK', [Next]_vars
              PROVE  StoresMeaningful'
  OBVIOUS
<1>1. HistoryGrows
  BY TypeStep DEF vars, repoVars, HistoryGrows, Commits
<1>2. /\ RepoTypeOK /\ work \in Store /\ index' \in Store /\ head \in Commits
      /\ work.ots \subseteq Stored /\ index.ots \subseteq Stored
      /\ Tree(head).ots \subseteq Stored /\ Meaningful({})
  BY DEF TypeOK, RepoTypeOK, Commits, Stored, Meaningful
<1>3. CASE UNCHANGED <<history, head, index, work>>
  <2>1. Commits' = Commits
    BY <1>3 DEF Commits
  <2>. QED  BY <1>1, <1>2, <1>3, <2>1, StoresMeaningfulStep
<1>4. CASE DevStep
  <2>1. work'.ots \subseteq Stored /\ index'.ots \subseteq Stored
    BY <1>2, <1>4, DevStored
  <2>2. \A g \in Commits' \ Commits : history'[g].tree = index'
    <3>1. CASE UNCHANGED history
      BY <3>1 DEF Commits
    <3>2. ASSUME NEW ancestry \in Ancestries, NEW generated \in BOOLEAN,
                 NEW claims \in SUBSET Nat, NEW tree \in Store, tree = index',
                 NewCommit(ancestry, generated, claims, tree)
          PROVE  \A g \in Commits' \ Commits : history'[g].tree = index'
      <4>1. ancestry \in SUBSET Nat
        BY <1>2, CommitFacts DEF Ancestries
      <4>. QED  BY <1>2, <3>2, <4>1, NewCommitFacts
    <3>. QED  BY <1>2, <1>4, <3>1, <3>2, DevCommits
  <2>. QED  BY <1>1, <1>2, <2>1, <2>2, StoresMeaningfulStep
<1>5. CASE \E p \in Proc : Acquire(p) \/ AcquireForRepair(p) \/ Step(p) \/ Disturb(p)
  <2>1. PICK p \in Proc : \/ PersistProof(p) \/ PersistManifest(p) \/ Stage(p)
                          \/ Commit(p) \/ LeavesFiles(p)
    BY <1>5, ProcessSteps
  <2>2. CASE PersistProof(p)
    <3>. DEFINE c == Min(job[p].todo)
    <3>1. /\ UNCHANGED <<history, index>> /\ work'.ots = work.ots \cup {c}
          /\ pc[p] = "proof" /\ job[p].todo # {}
      BY <1>2, <2>2 DEF PersistProof, At, JobsConsistent, Store
    <3>2. c \in job[p].decision /\ Meaningful(job[p].decision)
      BY <3>1, JobFacts, MinType DEF OwnDecision, JobsMeaningful, Selecting
    <3>. HIDE DEF c
    <3>3. Meaningful({c}) /\ Commits' = Commits
      BY <3>1, <3>2 DEF Meaningful, Commits
    <3>. QED  BY <1>1, <1>2, <3>1, <3>3, StoresMeaningfulStep
  <2>3. CASE PersistManifest(p)
    <3>1. UNCHANGED <<history, index>> /\ work'.ots = work.ots
      BY <1>2, <2>3 DEF PersistManifest, Store
    <3>2. Commits' = Commits
      BY <3>1 DEF Commits
    <3>. QED  BY <1>1, <1>2, <3>1, <3>2, StoresMeaningfulStep
  <2>4. CASE Stage(p)
    <3>1. UNCHANGED <<history, work>> /\ index'.ots \subseteq index.ots \cup work.ots
      BY <2>4, PutParts DEF Stage, StagePaths
    <3>2. Commits' = Commits
      BY <3>1 DEF Commits
    <3>. QED  BY <1>1, <1>2, <3>1, <3>2, StoresMeaningfulStep
  <2>5. CASE Commit(p)
    <3>. DEFINE S == job[p].done
                tree == Put(Tree(head), work, S)
    <3>0. /\ NewCommit(Anc(head), TRUE, S, tree) /\ work' = work
          /\ index' = Put(index, work, S)
      BY <2>5 DEF Commit, GeneratedProofCommit
    <3>1. /\ index'.ots \subseteq index.ots \cup work.ots
          /\ tree.ots \subseteq Tree(head).ots \cup work.ots
      BY <3>0, PutParts
    <3>2. /\ tree \in Store /\ Anc(head) \in SUBSET Nat /\ S \in SUBSET Nat
          /\ TRUE \in BOOLEAN
      BY <1>2, CommitFacts, PutFacts, JobFacts
    <3>. HIDE DEF S, tree
    <3>3. \A g \in Commits' \ Commits : history'[g].tree = tree
      BY <1>2, <3>0, <3>2, NewCommitFacts
    <3>. QED  BY <1>1, <1>2, <3>0, <3>1, <3>3, StoresMeaningfulStep
  <2>6. CASE LeavesFiles(p)
    BY <1>3, <2>6, LeavesFilesFacts
  <2>. QED  BY <2>1, <2>2, <2>3, <2>4, <2>5, <2>6
<1>6. CASE EnableProofCommit \/ UNCHANGED vars
  BY <1>3, <1>6 DEF EnableProofCommit, vars, repoVars
<1>. QED  BY <1>4, <1>5, <1>6 DEF Next, DevStep

LEMMA JobsMeaningfulNext ==
    /\ TypeOK /\ JobsConsistent /\ LockHeld /\ Lineal /\ JobsMeaningful /\ [Next]_vars
    => JobsMeaningful'
<1>. SUFFICES ASSUME TypeOK, JobsConsistent, LockHeld, Lineal, JobsMeaningful, [Next]_vars
              PROVE  JobsMeaningful'
  OBVIOUS
<1>1. HistoryGrows
  BY TypeStep DEF vars, repoVars, HistoryGrows, Commits
<1>2. \A S : Meaningful(S) => \A c \in S : c \in Commits' /\ ~IsGenerated(c)'
  BY <1>1, MeaningfulStays DEF Meaningful
<1>. DEFINE Choosing == {"scan"} \cup Selecting
<1>3. ASSUME NEW p \in Proc, pc[p] \in Choosing, Frozen(job[p], job'[p])
      PROVE  Meaningful(job[p].decision)'
  BY <1>2, <1>3 DEF JobsMeaningful, Meaningful, Frozen
<1>4. CASE \E p \in Proc : Acquire(p) \/ AcquireForRepair(p) \/ Step(p) \/ Disturb(p)
  <2>1. PICK p \in Proc : Acquire(p) \/ AcquireForRepair(p) \/ Step(p) \/ Disturb(p)
    BY <1>4
  <2>2. \A q \in Proc \ {p} : pc'[q] \notin Choosing
    BY <2>1, OthersIdle DEF Selecting
  <2>3. SUFFICES pc'[p] \in Choosing => Meaningful(job[p].decision)'
    BY <2>2 DEF JobsMeaningful
  <2>4. CASE TakeSnapshot(p)
    <3>1. Anc(head) \subseteq Commits
      BY AncestriesClosed DEF TypeOK, Ancestries
    <3>2. PICK S : S = DecisionFor(head, job[p].clock).commits
      OBVIOUS
    <3>3. Meaningful(S) /\ job'[p].decision = S
      BY <2>4, <3>1, <3>2, SelectsMeaningful, TakeSnapshotDoes
    <3>. QED  BY <1>2, <3>3 DEF Meaningful
  <2>5. CASE Scan(p) \/ Recover(p) \/ PersistManifest(p) \/ BeginSubmit(p) \/ Submit(p)
             \/ PersistProof(p)
    <3>1. pc[p] \in Choosing /\ Frozen(job[p], job'[p])
      BY <2>5, ScanDoes, RecoverDoes, PersistManifestDoes, MovesOn DEF Scan, At, Selecting
    <3>. QED  BY <1>3, <3>1
  <2>6. CASE FinishSelection(p) \/ Stage(p) \/ Commit(p) \/ AdoptLegacy(p)
             \/ CheckDurable(p) \/ TagNext(p)
    <3>1. pc'[p] \in {"durable", "stage", "commit", "tag", "idle"}
      BY <2>6, MovesOn, AdoptLegacyDoes, CheckDurableDoes, TagNextDoes
    <3>. QED  BY <3>1 DEF Selecting
  <2>7. CASE Acquire(p) \/ AcquireForRepair(p) \/ Survey(p) \/ Ending(p) \/ SubmitFails(p)
             \/ BeginCompletion(p) \/ PassOver(p) \/ CompleteTag(p)
             \/ RepairPassesOver(p) \/ RepairTag(p)
    <3>1. pc'[p] \in {"snapshot", "survey", "repair", "complete", "idle"}
      BY <2>7, AcquireDoes, SurveyDoes, EndDoes, OtherwiseDoes
    <3>. QED  BY <3>1 DEF Selecting
  <2>. QED  BY <2>1, <2>4, <2>5, <2>6, <2>7 DEF Step, Disturb, Ending
<1>5. CASE UNCHANGED <<pc, job>>
  BY <1>3, <1>5 DEF JobsMeaningful, Frozen
<1>. QED  BY <1>4, <1>5, WhoMoves

LEMMA MeaningfulInvariant == Spec => [](StoresMeaningful /\ JobsMeaningful)
<1>1. Init => OwnDecision /\ StoresMeaningful /\ JobsMeaningful
  <2>. SUFFICES ASSUME Init PROVE OwnDecision /\ StoresMeaningful /\ JobsMeaningful
    OBVIOUS
  <2>1. Commits = {1} /\ Tree(1) = EmptyStore /\ work = EmptyStore /\ index = EmptyStore
    BY DEF Init, RepoInit, Commits, Tree
  <2>2. StoresMeaningful
    BY <2>1 DEF StoresMeaningful, Meaningful, EmptyStore
  <2>3. OwnDecision /\ JobsMeaningful
    BY DEF Init, OwnDecision, JobsMeaningful, Selecting
  <2>. QED  BY <2>2, <2>3
<1>2. TypeOK => RepoTypeOK
  BY DEF TypeOK
<1>. QED  BY TypeInvariant, LockInvariant, LinealInvariant, <1>1, <1>2, OwnDecisionNext,
             StoresMeaningfulNext, JobsMeaningfulNext, PTL DEF Spec

-----------------------------------------------------------------------------
(* Generated commits keep the proofs of what they are made on *)

LEMMA NewCommitKind ==
    ASSUME RepoTypeOK, NEW ancestry \in SUBSET Nat, NEW generated \in BOOLEAN,
           NEW claims \in SUBSET Nat, NEW tree \in Store,
           NewCommit(ancestry, generated, claims, tree)
    PROVE  history'[head'].generated = generated /\ history'[head'].time = now
<1>. DEFINE info == [anc |-> ancestry \cup {Len(history) + 1}, generated |-> generated,
                     claims |-> claims, time |-> now, tree |-> tree]
<1>1. history \in Seq(CommitInfo) /\ Len(history) \in Nat
  BY DEF RepoTypeOK
<1>2. info \in CommitInfo
  <2>1. Len(history) + 1 \in Nat
    BY <1>1
  <2>2. ancestry \cup {Len(history) + 1} \in SUBSET Nat
    BY <2>1, Zenon
  <2>3. now \in Nat
    BY DEF RepoTypeOK
  <2>. QED  BY <2>2, <2>3, Zenon DEF CommitInfo
<1>3. history' = Append(history, info) /\ head' = Len(history) + 1
  BY DEF NewCommit
<1>4. info.generated = generated /\ info.time = now
  OBVIOUS
<1>. HIDE DEF info
<1>5. history'[Len(history) + 1] = info
  BY <1>1, <1>2, <1>3, AppendedFacts
<1>. QED  BY <1>3, <1>4, <1>5

(* An ancestor is older, and so has no younger one among its own. *)
LEMMA LinealOrder ==
    ASSUME RepoTypeOK, Lineal, NEW d \in Commits, NEW c \in Anc(d), c # d
    PROVE  d \notin Anc(c)
<1>1. Commits \subseteq Nat /\ Commits = 1..Len(history) /\ Len(history) \in Nat
  BY DEF RepoTypeOK, Commits
<1>2. c \in 1..d /\ d \in Nat
  BY <1>1 DEF Lineal
<1>3. c < d /\ c \in Commits
  BY <1>1, <1>2
<1>4. Anc(c) \subseteq 1..c
  BY <1>3 DEF Lineal
<1>. QED  BY <1>2, <1>3, <1>4

(* A commit that is not generated stands between itself and what is below. *)
LEMMA NewCommitKeeps ==
    ASSUME RepoTypeOK, Lineal, ProofsKept, NEW ancestry \in SUBSET Commits,
           NEW generated \in BOOLEAN, NEW claims \in SUBSET Nat, NEW tree \in Store,
           NewCommit(ancestry, generated, claims, tree),
           generated => /\ Tree(head).ots \subseteq tree.ots
                        /\ \/ ancestry = Anc(head)
                           \/ ancestry = Anc(head) \ {head} /\ IsGenerated(head)
    PROVE  ProofsKept'
<1>1. /\ ancestry \in SUBSET Nat /\ head \in Commits
      /\ \A d \in Commits : d \in Anc(d) /\ Anc(d) \subseteq Commits
  <2>1. ancestry \in SUBSET Nat /\ head \in Commits /\ Commits \subseteq Nat
    BY DEF RepoTypeOK, Commits
  <2>2. \A d \in Commits : Anc(d) \subseteq Commits
    BY DEF Lineal, RepoTypeOK, Commits
  <2>. QED  BY <2>1, <2>2 DEF Lineal
<1>2. PICK n : n = head'
  OBVIOUS
<1>3. /\ Commits' = Commits \cup {head'}
      /\ \A c \in Commits : c # head' /\ history'[c] = history[c]
      /\ history'[head'].anc = ancestry \cup {head'}
      /\ history'[head'].claims = claims
      /\ history'[head'].tree = tree
  BY <1>1, NewCommitRecords
<1>4. /\ Commits' = Commits \cup {n} /\ n \notin Commits
      /\ Anc(n)' = ancestry \cup {n} /\ Tree(n)' = tree /\ IsGenerated(n)' = generated
  BY <1>1, <1>2, <1>3, NewCommitKind DEF Anc, Tree, IsGenerated
<1>5. \A c \in Commits : /\ Anc(c)' = Anc(c) /\ Tree(c)' = Tree(c)
                         /\ IsGenerated(c)' = IsGenerated(c)
  BY <1>3 DEF Anc, Tree, IsGenerated
<1>6. ASSUME NEW g \in Commits, NEW c \in Anc(g),
             \A d \in Anc(g) \ Anc(c)' : IsGenerated(d)'
      PROVE  Tree(c)'.ots \subseteq Tree(g)'.ots
  <2>1. c \in Commits /\ \A d \in Anc(g) \ Anc(c) : IsGenerated(d)
    BY <1>1, <1>5, <1>6
  <2>. QED  BY <1>5, <2>1 DEF ProofsKept
<1>7. ASSUME NEW c \in ancestry, \A d \in (ancestry \cup {n}) \ Anc(c)' : IsGenerated(d)'
      PROVE  Tree(c)'.ots \subseteq tree.ots
  <2>1. c \in Commits /\ n \notin Anc(c) /\ Anc(c)' = Anc(c)
    BY <1>1, <1>4, <1>5
  <2>2. generated /\ Tree(head).ots \subseteq tree.ots /\ c \in Anc(head)
    BY <1>4, <1>7, <2>1
  <2>3. \A d \in ancestry \ Anc(c) : IsGenerated(d)
    BY <1>1, <1>5, <1>7, <2>1
  <2>4. CASE c = head
    BY <1>5, <2>2, <2>4, <1>1
  <2>5. CASE c # head /\ (head \in ancestry \ Anc(c) \/ IsGenerated(head))
    <3>1. \A d \in Anc(head) \ Anc(c) : IsGenerated(d)
      BY <2>2, <2>3, <2>5
    <3>2. Tree(c).ots \subseteq Tree(head).ots
      BY <1>1, <2>2, <3>1 DEF ProofsKept
    <3>. QED  BY <1>5, <2>1, <2>2, <3>2
  <2>6. head \in ancestry \ Anc(c) \/ IsGenerated(head) \/ c = head
    <3>1. CASE ancestry = Anc(head)
      <4>1. c # head => head \notin Anc(c)
        BY <1>1, <2>1, <2>2, LinealOrder
      <4>. QED  BY <1>1, <3>1, <4>1
    <3>2. CASE ancestry = Anc(head) \ {head} /\ IsGenerated(head)
      BY <3>2
    <3>. QED  BY <2>2, <3>1, <3>2
  <2>. QED  BY <2>4, <2>5, <2>6
<1>8. \A g \in Commits' : \A c \in Anc(g)' :
         (\A d \in Anc(g)' \ Anc(c)' : IsGenerated(d)') => Tree(c)'.ots \subseteq Tree(g)'.ots
  <2>1. \A g \in Commits : \A c \in Anc(g)' :
           (\A d \in Anc(g)' \ Anc(c)' : IsGenerated(d)') => Tree(c)'.ots \subseteq Tree(g)'.ots
    BY <1>5, <1>6
  <2>2. \A c \in Anc(n)' :
           (\A d \in Anc(n)' \ Anc(c)' : IsGenerated(d)') => Tree(c)'.ots \subseteq Tree(n)'.ots
    BY <1>4, <1>7
  <2>. QED  BY <1>4, <2>1, <2>2
<1>. QED  BY <1>8 DEF ProofsKept

LEMMA SameHistoryKeeps ==
    ASSUME ProofsKept, UNCHANGED history
    PROVE  ProofsKept'
  BY DEF ProofsKept, Commits, Anc, Tree, IsGenerated

LEMMA ProofsKeptNext ==
    TypeOK /\ RepoTypeOK' /\ Lineal /\ Backed /\ ProofsKept /\ [Next]_vars => ProofsKept'
<1>. SUFFICES ASSUME TypeOK, RepoTypeOK', Lineal, Backed, ProofsKept, [Next]_vars
              PROVE  ProofsKept'
  OBVIOUS
<1>1. /\ RepoTypeOK /\ head \in Commits /\ index' \in Store
      /\ FALSE \in BOOLEAN /\ TRUE \in BOOLEAN /\ {} \in SUBSET Nat
      /\ Tree(head).ots \subseteq index.ots /\ index.ots \subseteq work.ots
  BY DEF TypeOK, RepoTypeOK, Commits, Backed, Layered, Within
<1>2. CASE UNCHANGED history
  BY <1>2, SameHistoryKeeps
<1>3. CASE DevStep
  <2>1. ASSUME NEW ancestry \in Ancestries, NewCommit(ancestry, FALSE, {}, index')
        PROVE  ProofsKept'
    BY <1>1, <2>1, AncestriesClosed, NewCommitKeeps
  <2>2. CASE DevCommit \/ DevDrop
    <3>1. NewCommit(Anc(head), FALSE, {}, index')
      BY <2>2 DEF DevCommit, DevDrop
    <3>. QED  BY <2>1, <3>1 DEF Ancestries
  <2>3. CASE DevMerge
    <3>1. PICK c \in Commits : NewCommit(Anc(head) \cup Anc(c), FALSE, {}, index')
      BY <2>3 DEF DevMerge
    <3>. QED  BY <2>1, <3>1 DEF Ancestries
  <2>4. CASE DevAmend
    <3>. DEFINE ancestry == Anc(head) \ {head}
                kind == IsGenerated(head)
                claims == history[head].claims
    <3>1. NewCommit(ancestry, kind, claims, index') /\ Tree(head).ots \subseteq index'.ots
      BY <1>1, <2>4 DEF DevAmend
    <3>2. ancestry \in Ancestries /\ kind \in BOOLEAN /\ claims \in SUBSET Nat
          /\ (kind => ancestry = Anc(head) \ {head} /\ IsGenerated(head))
      BY <1>1, CommitFacts DEF Ancestries
    <3>. HIDE DEF ancestry, kind, claims
    <3>. QED  BY <1>1, <3>1, <3>2, AncestriesClosed, NewCommitKeeps
  <2>5. CASE DevReset \/ DevClean \/ Tick
    BY <1>2, <2>5 DEF DevReset, DevClean, Tick
  <2>. QED  BY <1>3, <2>2, <2>3, <2>4, <2>5 DEF DevStep
<1>4. CASE \E p \in Proc : Acquire(p) \/ AcquireForRepair(p) \/ Step(p) \/ Disturb(p)
  <2>1. PICK p \in Proc : \/ PersistProof(p) \/ PersistManifest(p) \/ Stage(p)
                          \/ Commit(p) \/ LeavesFiles(p)
    BY <1>4, ProcessSteps
  <2>2. CASE Commit(p)
    <3>. DEFINE S == job[p].done
                tree == Put(Tree(head), work, S)
    <3>1. NewCommit(Anc(head), TRUE, S, tree)
      BY <2>2 DEF Commit, GeneratedProofCommit
    <3>2. tree \in Store /\ S \in SUBSET Nat /\ Anc(head) \in Ancestries
      BY <1>1, CommitFacts, PutFacts, JobFacts DEF Ancestries, RepoTypeOK
    <3>3. Tree(head).ots \subseteq tree.ots
      BY <1>1, PutParts
    <3>. HIDE DEF S, tree
    <3>. QED  BY <1>1, <3>1, <3>2, <3>3, AncestriesClosed, NewCommitKeeps
  <2>3. CASE PersistProof(p) \/ PersistManifest(p) \/ Stage(p) \/ LeavesFiles(p)
    BY <1>2, <2>3, LeavesFilesFacts DEF PersistProof, PersistManifest, Stage
  <2>. QED  BY <2>1, <2>2, <2>3
<1>5. CASE EnableProofCommit \/ UNCHANGED vars
  BY <1>2, <1>5 DEF EnableProofCommit, vars, repoVars
<1>. QED  BY <1>3, <1>4, <1>5 DEF Next, DevStep

LEMMA ProofsKeptInvariant == Spec => []ProofsKept
<1>1. Init => ProofsKept
  <2>. SUFFICES ASSUME Init PROVE ProofsKept
    OBVIOUS
  <2>1. Commits = {1} /\ Anc(1) = {1}
    BY DEF Init, RepoInit, Commits, Anc
  <2>. QED  BY <2>1 DEF ProofsKept
<1>2. TypeOK => RepoTypeOK
  BY DEF TypeOK
<1>. QED  BY TypeInvariant, LinealInvariant, BackedInvariant, <1>1, <1>2, ProofsKeptNext,
             PTL DEF Spec

-----------------------------------------------------------------------------
(* What is outstanding is on somebody's list *)

(* What HEAD's tree has recorded, and is still on disk, stays recorded. *)
HeadKeeps == \A c \in Tree(head).ots : c \in work'.ots => c \in Tree(head)'.ots

LEMMA CommitKeepsHead ==
    ASSUME RepoTypeOK, NEW ancestry \in SUBSET Nat, NEW generated \in BOOLEAN,
           NEW claims \in SUBSET Nat, NEW tree \in Store,
           NewCommit(ancestry, generated, claims, tree)
    PROVE  (\A c \in Tree(head).ots : c \in work'.ots => c \in tree.ots) => HeadKeeps
<1>1. /\ Commits' = Commits \cup {head'}
      /\ \A c \in Commits : c # head' /\ history'[c] = history[c]
      /\ history'[head'].anc = ancestry \cup {head'}
      /\ history'[head'].claims = claims
      /\ history'[head'].tree = tree
  BY NewCommitRecords, SMTT(30)
<1>. QED  BY <1>1 DEF HeadKeeps, Tree

LEMMA SameHead ==
    ASSUME UNCHANGED <<history, head>>
    PROVE  HeadKeeps
  BY DEF HeadKeeps, Tree

LEMMA HeadKeepsNext ==
    ASSUME TypeOK, Backed, Calm, [Next]_vars
    PROVE  HeadKeeps
<1>1. /\ RepoTypeOK /\ head \in Commits /\ index \in Store /\ work \in Store
      /\ FALSE \in BOOLEAN /\ TRUE \in BOOLEAN /\ {} \in SUBSET Nat
      /\ Tree(head).ots \subseteq index.ots /\ index.ots \subseteq work.ots
  BY DEF TypeOK, RepoTypeOK, Commits, Backed, Layered, Within
<1>2. /\ Anc(head) \in SUBSET Nat /\ Anc(head) \ {head} \in SUBSET Nat
      /\ IsGenerated(head) \in BOOLEAN /\ history[head].claims \in SUBSET Nat
  BY <1>1, CommitFacts
<1>3. CASE DevCommit
  <2>1. PICK tree \in {work, index} : NewCommit(Anc(head), FALSE, {}, tree)
    BY <1>3 DEF DevCommit
  <2>2. tree \in Store /\ Tree(head).ots \subseteq tree.ots
    BY <1>1
  <2>. QED  BY <1>1, <1>2, <2>1, <2>2, CommitKeepsHead
<1>4. CASE DevAmend
  <2>1. NewCommit(Anc(head) \ {head}, IsGenerated(head), history[head].claims, index)
    BY <1>4 DEF DevAmend
  <2>. QED  BY <1>1, <1>2, <2>1, CommitKeepsHead
<1>5. CASE DevMerge
  <2>1. Accrues
    BY <1>5 DEF DevMerge, Dev, Calm
  <2>2. PICK c \in Commits, tree \in Store :
              /\ NewCommit(Anc(head) \cup Anc(c), FALSE, {}, tree)
              /\ tree = Tree(head)
    BY <1>1, <1>5, <2>1, MergeGainsNothing
  <2>3. Anc(head) \cup Anc(c) \in SUBSET Nat
    BY <1>1, <1>2, CommitFacts
  <2>. QED  BY <1>1, <2>2, <2>3, CommitKeepsHead
<1>6. CASE DevDrop
  <2>1. PICK c : /\ index' = Put(index, EmptyStore, {c})
                 /\ work' = Put(work, EmptyStore, {c})
                 /\ NewCommit(Anc(head), FALSE, {}, index')
    BY <1>6 DEF DevDrop
  <2>2. \A d \in Tree(head).ots : d \in work'.ots => d \in index'.ots
    BY <1>1, <2>1 DEF Put, EmptyStore
  <2>3. index' \in Store
    BY <1>6, DevType, TypeStep, <1>1 DEF DevStep, TypeOK, RepoTypeOK
  <2>. QED  BY <1>1, <1>2, <2>1, <2>2, <2>3, CommitKeepsHead
<1>7. CASE DevClean \/ Tick \/ EnableProofCommit \/ UNCHANGED vars
  BY <1>7, SameHead DEF DevClean, Tick, EnableProofCommit, vars, repoVars
<1>8. CASE \E p \in Proc : Acquire(p) \/ AcquireForRepair(p) \/ Step(p) \/ Disturb(p)
  <2>1. PICK p \in Proc : \/ PersistProof(p) \/ PersistManifest(p) \/ Stage(p)
                          \/ Commit(p) \/ LeavesFiles(p)
    BY <1>8, ProcessSteps
  <2>2. CASE Commit(p)
    <3>. DEFINE S == job[p].done
                tree == Put(Tree(head), work, S)
    <3>1. NewCommit(Anc(head), TRUE, S, tree)
      BY <2>2 DEF Commit, GeneratedProofCommit
    <3>2. tree \in Store /\ S \in SUBSET Nat
      BY <1>1, CommitFacts, PutFacts, JobFacts
    <3>3. Tree(head).ots \subseteq tree.ots
      BY <1>1, PutParts
    <3>. HIDE DEF S, tree
    <3>. QED  BY <1>1, <1>2, <3>1, <3>2, <3>3, CommitKeepsHead
  <2>3. CASE PersistProof(p) \/ PersistManifest(p) \/ Stage(p)
    BY <2>3, SameHead DEF PersistProof, PersistManifest, Stage
  <2>4. CASE LeavesFiles(p)
    BY <2>4, LeavesFilesFacts, SameHead
  <2>. QED  BY <2>1, <2>2, <2>3, <2>4
<1>9. ~DevReset
  BY DEF DevReset, Dev, Calm
<1>. QED  BY <1>3, <1>4, <1>5, <1>6, <1>7, <1>8, <1>9 DEF Next

(* What a run found in flight, like what it froze, stays as it is. *)
LEMMA InflightStays ==
    ASSUME TypeOK, NEW p \in Proc, Step(p), ~TakeSnapshot(p), ~Survey(p), ~Scan(p)
    PROVE  \/ pc'[p] = "idle" /\ job'[p] = NoJob
           \/ /\ job'[p].src = job[p].src /\ job'[p].inflight = job[p].inflight
              /\ Deferred(job[p])' = Deferred(job[p])
<1>0. job[p] \in Job
  BY JobFacts
<1>. PICK src, fl, due : /\ src = job[p].src /\ fl = job[p].inflight
                         /\ due = job[p].decision
  OBVIOUS
<1>. DEFINE Same(k) == k.src = src /\ k.inflight = fl /\ k.decision = due
<1>1. ASSUME NEW k, NEW a, NEW b, NEW c,
             \/ k = [job[p] EXCEPT !.todo = a]
             \/ k = [job[p] EXCEPT !.done = a]
             \/ k = [job[p] EXCEPT !.todo = a, !.done = b]
             \/ k = [job[p] EXCEPT !.todo = a, !.rec = c]
             \/ k = [job[p] EXCEPT !.todo = a, !.done = b, !.rec = c]
      PROVE  Same(k)
  BY <1>0, <1>1 DEF Job
<1>2. SUFFICES Same(job'[p]) \/ (pc'[p] = "idle" /\ job'[p] = NoJob)
  BY DEF Deferred
<1>3. PICK k : k = job'[p]
  OBVIOUS
<1>4. \A j : job' = [job EXCEPT ![p] = j] => job'[p] = j
  BY DEF TypeOK
<1>5. CASE Ending(p)
  BY <1>5, EndDoes
<1>6. CASE AdoptLegacy(p) \/ BeginCompletion(p) \/ PassOver(p) \/ CheckDurable(p)
  <2>1. PICK a : \/ k = [job[p] EXCEPT !.todo = a]
                 \/ k = [job[p] EXCEPT !.done = a]
    BY <1>3, <1>4, <1>6 DEF AdoptLegacy, BeginCompletion, PassOver, CheckDurable
  <2>2. Same(k)
    BY <1>1, <2>1
  <2>. QED  BY <1>3, <2>2
<1>7. CASE Recover(p)
  <2>1. PICK a, b, c : job' = [job EXCEPT ![p] = [job[p] EXCEPT !.todo = a, !.done = b,
                                                                !.rec = c]]
    BY <1>7, Zenon DEF Recover
  <2>2. k = [job[p] EXCEPT !.todo = a, !.done = b, !.rec = c]
    BY <1>3, <1>4, <2>1
  <2>3. Same(k)
    BY <1>1, <2>2
  <2>. QED  BY <1>3, <2>3
<1>8. CASE PersistManifest(p) \/ RepairPassesOver(p)
  <2>1. PICK a, b : job' = [job EXCEPT ![p] = [job[p] EXCEPT !.todo = a, !.done = b]]
    <3>1. CASE PersistManifest(p)
      BY <3>1, Zenon DEF PersistManifest
    <3>2. CASE RepairPassesOver(p)
      BY <3>2, Zenon DEF RepairPassesOver
    <3>. QED  BY <1>8, <3>1, <3>2
  <2>2. k = [job[p] EXCEPT !.todo = a, !.done = b]
    BY <1>3, <1>4, <2>1
  <2>3. Same(k)
    BY <1>1, <2>2
  <2>. QED  BY <1>3, <2>3
<1>9. CASE CompleteTag(p) \/ TagNext(p) \/ RepairTag(p)
  <2>1. PICK stamp, a, c : \/ TagOrFail(p, stamp, [job[p] EXCEPT !.todo = a, !.rec = c])
                           \/ TagOrFail(p, stamp, [job[p] EXCEPT !.todo = a])
    BY <1>9, Zenon DEF CompleteTag, TagNext, RepairTag
  <2>2. \/ pc'[p] = "idle" /\ job'[p] = NoJob
        \/ k = [job[p] EXCEPT !.todo = a, !.rec = c] \/ k = [job[p] EXCEPT !.todo = a]
        \/ k = job[p]
    BY <1>3, <2>1 DEF TagOrFail, End, TypeOK
  <2>3. CASE pc'[p] = "idle" /\ job'[p] = NoJob
    BY <2>3
  <2>4. CASE \/ k = [job[p] EXCEPT !.todo = a, !.rec = c]
             \/ k = [job[p] EXCEPT !.todo = a]
    <3>1. Same(k)
      BY <1>1, <2>4
    <3>. QED  BY <1>3, <3>1
  <2>5. CASE k = job[p]
    BY <1>3, <2>5
  <2>. QED  BY <2>2, <2>3, <2>4, <2>5
<1>10. CASE BeginSubmit(p) \/ Submit(p) \/ PersistProof(p) \/ FinishSelection(p)
           \/ Stage(p) \/ Commit(p)
  <2>1. job'[p] = job[p]
    BY <1>10, MovesOn
  <2>. QED  BY <2>1
<1>. QED  BY <1>5, <1>6, <1>7, <1>8, <1>9, <1>10 DEF Step, Ending

(* Nothing comes to be outstanding besides the sources whose files a step  *)
(* brings to disk.                                                         *)
LEMMA OutstandingShrinks ==
    ASSUME HistoryGrows, HeadKeeps, NEW p \in Proc, job[p].src \in Commits,
           job'[p].src = job[p].src, Deferred(job[p])' = Deferred(job[p]),
           tags \subseteq tags', NEW X,
           work'.ots \subseteq work.ots \cup X,
           \A m \in work'.json : m \in work.json \/ m.src \in X
    PROVE  /\ Outstanding(job[p])' \subseteq Outstanding(job[p]) \cup X
           /\ \A t \in tags' : t.src \notin Outstanding(job[p])'
<1>1. PICK src \in Commits : src = job[p].src
  OBVIOUS
<1>2. PICK S : S = Deferred(job[p])
  OBVIOUS
<1>3. Anc(src)' = Anc(src) /\ Tree(src)' = Tree(src)
  BY DEF HistoryGrows, Anc, Tree
<1>4. \A c : c \in TaggedSources => c \in TaggedSources'
  BY DEF TaggedSources
<1>5. \A c : c \notin X /\ HasPair(work, c)' => HasPair(work, c)
  BY DEF HasPair, Described
<1>6. ASSUME NEW c, c \in InFlight(src, S)', c \notin Tree(head)'.ots, c \notin X
      PROVE  c \in InFlight(src, S) \ Tree(head).ots
  <2>1. /\ c \in work'.ots /\ c \notin S /\ c \notin TaggedSources'
        /\ c \notin Tree(src)'.ots /\ HasPair(work, c)' /\ c \in Anc(src)'
    BY <1>6 DEF InFlight
  <2>2. c \in work.ots /\ c \notin Tree(head).ots
    BY <1>6, <2>1 DEF HeadKeeps
  <2>. QED  BY <1>3, <1>4, <1>5, <1>6, <2>1, <2>2 DEF InFlight
<1>7. Outstanding(job[p])' = InFlight(src, S)' \ Tree(head)'.ots
  BY <1>1, <1>2 DEF Outstanding, InFlight
<1>8. Outstanding(job[p]) = InFlight(src, S) \ Tree(head).ots
  BY <1>1, <1>2 DEF Outstanding
<1>9. \A t \in tags' : t.src \notin InFlight(src, S)'
  BY DEF InFlight, TaggedSources
<1>. QED  BY <1>6, <1>7, <1>8, <1>9

LEMMA UntaggedShrinks ==
    ASSUME HistoryGrows, HeadKeeps, NEW p \in Proc, job[p].src \in Commits,
           job'[p].src = job[p].src, tags \subseteq tags',
           work'.ots \subseteq work.ots
    PROVE  /\ Untagged(job[p])' \subseteq Untagged(job[p])
           /\ \A t \in tags' : t.src \notin Untagged(job[p])'
<1>1. PICK src \in Commits : src = job[p].src
  OBVIOUS
<1>2. Anc(src)' = Anc(src)
  BY DEF HistoryGrows, Anc
<1>3. Untagged(job[p])' = ((work'.ots \cap Anc(src)') \ TaggedSources') \ Tree(head)'.ots
  BY <1>1 DEF Untagged
<1>4. Untagged(job[p]) = ((work.ots \cap Anc(src)) \ TaggedSources) \ Tree(head).ots
  BY <1>1 DEF Untagged
<1>. QED  BY <1>2, <1>3, <1>4 DEF HeadKeeps, TaggedSources

(* What is in flight depends on the repository alone. *)
LEMMA InFlightUntouched ==
    ASSUME UNCHANGED repoVars, NEW src, NEW S
    PROVE  InFlight(src, S)' = InFlight(src, S) /\ Tree(head)' = Tree(head)
  BY DEF repoVars, InFlight, TaggedSources, HasPair, Described, Anc, Tree

LEMMA ScanAccounted ==
    ASSUME TypeOK, NEW p \in Proc, Scan(p)
    PROVE  Accounted(job[p], pc[p])'
<1>1. PICK src, due, fl : /\ src = job[p].src /\ due = job[p].decision
                          /\ fl = InFlight(src, due)
  OBVIOUS
<1>2. /\ pc'[p] \in {"adopt", "select"} /\ (pc'[p] = "adopt" => due = {} /\ fl = {})
      /\ job'[p].src = src /\ job'[p].decision = due /\ job'[p].inflight = fl
      /\ job'[p].done = fl /\ job'[p].todo = IF fl = {} THEN due ELSE {}
  BY <1>1, ScanDoes DEF Frozen
<1>3. PICK D : D = IF fl = {} THEN {} ELSE due
  OBVIOUS
<1>4. Deferred(job[p])' = D
  BY <1>2, <1>3 DEF Deferred
<1>5. Outstanding(job[p])' = InFlight(src, D)' \ Tree(head)'.ots
  BY <1>2, <1>4 DEF Outstanding, InFlight
<1>6. InFlight(src, D)' = InFlight(src, D)
  BY InFlightUntouched DEF Scan
<1>7. CASE fl = {}
  <2>1. InFlight(src, {}) \subseteq due
    BY <1>1, <1>7 DEF InFlight
  <2>. QED  BY <1>2, <1>3, <1>5, <1>6, <1>7, <2>1 DEF Accounted, Selecting
<1>8. CASE fl # {}
  <2>1. Outstanding(job[p])' \subseteq fl
    BY <1>1, <1>3, <1>5, <1>6, <1>8
  <2>. QED  BY <1>2, <1>8, <2>1 DEF Accounted, Selecting
<1>. QED  BY <1>7, <1>8

(* A repair passes over a proof, or tags its source, or ends. *)
LEMMA RepairDoes ==
    ASSUME TypeOK, NEW p \in Proc, RepairPassesOver(p) \/ RepairTag(p)
    PROVE  /\ pc[p] = "repair"
           /\ \/ pc'[p] = "idle"
              \/ /\ pc'[p] = "repair" /\ job'[p].src = job[p].src
                 /\ UNCHANGED <<history, head, work>> /\ tags \subseteq tags'
                 /\ \E c : /\ job'[p].todo = job[p].todo \ {c}
                           /\ job[p].done \subseteq job'[p].done
                           /\ \/ c \in job'[p].done
                              \/ c \notin Anc(job[p].src) \cap work.ots
                              \/ \E t \in tags' : t.src = c
<1>0. job[p] \in Job /\ \A j : job' = [job EXCEPT ![p] = j] => job'[p] = j
  BY JobFacts DEF TypeOK
<1>1. CASE RepairPassesOver(p)
  <2>1. PICK c, b :
          /\ job' = [job EXCEPT ![p] = [job[p] EXCEPT !.todo = job[p].todo \ {c}, !.done = b]]
          /\ b = IF c \in Anc(job[p].src) \cap work.ots THEN job[p].done \cup {c}
                                                         ELSE job[p].done
    BY <1>1, Zenon DEF RepairPassesOver
  <2>. DEFINE j == [job[p] EXCEPT !.todo = job[p].todo \ {c}, !.done = b]
  <2>2. j.todo = job[p].todo \ {c} /\ j.done = b /\ j.src = job[p].src
    BY <1>0 DEF Job
  <2>3. job'[p] = j
    BY <1>0, <2>1
  <2>. HIDE DEF j
  <2>4. /\ pc[p] = "repair" /\ pc'[p] = "repair"
        /\ UNCHANGED <<history, head, work>> /\ tags' = tags
    BY <1>1 DEF RepairPassesOver, Goto, At, TypeOK, repoVars
  <2>5. job[p].done \subseteq b /\ (c \in b \/ c \notin Anc(job[p].src) \cap work.ots)
    BY <2>1
  <2>. QED  BY <2>2, <2>3, <2>4, <2>5
<1>2. CASE RepairTag(p)
  <2>1. PICK c : /\ Repairable(job[p], c)
                 /\ TagOrFail(p, ManifestOf(work, c),
                              [job[p] EXCEPT !.todo = job[p].todo \ {c}])
    BY <1>2, Zenon DEF RepairTag
  <2>. DEFINE m == ManifestOf(work, c)
              j == [job[p] EXCEPT !.todo = job[p].todo \ {c}]
  <2>2. m.src = c
    BY <2>1, ManifestFacts DEF Repairable
  <2>3. j.todo = job[p].todo \ {c} /\ j.done = job[p].done /\ j.src = job[p].src
    BY <1>0 DEF Job
  <2>4. TagOrFail(p, m, j)
    BY <2>1
  <2>. HIDE DEF m, j
  <2>5. /\ pc[p] = "repair" /\ UNCHANGED <<history, head, work>>
    BY <1>2 DEF RepairTag, At
  <2>6. \/ pc'[p] = "idle"
        \/ pc'[p] = pc[p] /\ job'[p] = j /\ tags' = tags \cup {m}
    BY <1>0, <2>4 DEF TagOrFail, End, TypeOK
  <2>. QED  BY <2>2, <2>3, <2>5, <2>6
<1>. QED  BY <1>1, <1>2

LEMMA RepairAccounted ==
    ASSUME TypeOK, JobsConsistent, HistoryGrows, HeadKeeps, NEW p \in Proc,
           Survey(p) \/ RepairPassesOver(p) \/ RepairTag(p), Accounted(job[p], pc[p])
    PROVE  Accounted(job[p], pc[p])'
<1>0. job[p] \in Job
  BY JobFacts
<1>1. CASE Survey(p)
  <2>. DEFINE j == [job[p] EXCEPT !.src = head, !.todo = work.ots \ TaggedSources]
  <2>1. pc'[p] = "repair" /\ job'[p] = j /\ UNCHANGED repoVars
    BY <1>1 DEF Survey, Goto, TypeOK
  <2>2. j.todo = work.ots \ TaggedSources
    BY <1>0 DEF Job
  <2>. HIDE DEF j
  <2>3. Untagged(job[p])' \subseteq job'[p].todo
    BY <2>1, <2>2 DEF Untagged, repoVars, TaggedSources
  <2>. QED  BY <2>1, <2>3 DEF Accounted, Selecting
<1>2. CASE RepairPassesOver(p) \/ RepairTag(p)
  <2>1. CASE pc'[p] = "idle"
    BY <2>1 DEF Accounted, Selecting
  <2>2. CASE pc'[p] # "idle"
    <3>1. PICK c : /\ pc[p] = "repair" /\ pc'[p] = "repair" /\ job'[p].src = job[p].src
                   /\ UNCHANGED <<history, head, work>> /\ tags \subseteq tags'
                   /\ job'[p].todo = job[p].todo \ {c} /\ job[p].done \subseteq job'[p].done
                   /\ \/ c \in job'[p].done
                      \/ c \notin Anc(job[p].src) \cap work.ots
                      \/ \E t \in tags' : t.src = c
      BY <1>2, <2>2, RepairDoes
    <3>2. job[p].src \in Commits /\ Untagged(job[p]) \subseteq job[p].todo \cup job[p].done
      BY <3>1 DEF JobsConsistent, Accounted
    <3>3. /\ Untagged(job[p])' \subseteq Untagged(job[p])
          /\ \A t \in tags' : t.src \notin Untagged(job[p])'
      BY <3>1, <3>2, UntaggedShrinks
    <3>4. c \notin Anc(job[p].src) \cap work.ots => c \notin Untagged(job[p])
      BY DEF Untagged
    <3>5. Untagged(job[p])' \subseteq job'[p].todo \cup job'[p].done
      BY <3>1, <3>2, <3>3, <3>4
    <3>. QED  BY <3>1, <3>5 DEF Accounted, Selecting
  <2>. QED  BY <2>1, <2>2
<1>. QED  BY <1>1, <1>2

LEMMA StepAccounted ==
    ASSUME TypeOK, JobsConsistent, HistoryGrows, HeadKeeps, NEW p \in Proc,
           Step(p) \/ Disturb(p), Accounted(job[p], pc[p]), tags \subseteq tags'
    PROVE  Accounted(job[p], pc[p])'
<1>. DEFINE c == Min(job[p].todo)
<1>1. CASE Ending(p) \/ SubmitFails(p)
  BY <1>1, EndDoes DEF Accounted, Selecting
<1>2. CASE TakeSnapshot(p)
  BY <1>2, TakeSnapshotDoes DEF Accounted, Selecting
<1>3. CASE Scan(p) \/ Survey(p) \/ RepairPassesOver(p) \/ RepairTag(p)
  BY <1>3, ScanAccounted, RepairAccounted
<1>4. ASSUME Step(p), NEW X, pc[p] \notin {"idle", "snapshot", "survey"}, pc'[p] # "idle",
             ~TakeSnapshot(p), ~Survey(p), ~Scan(p),
             work'.ots \subseteq work.ots \cup X,
             \A m \in work'.json : m \in work.json \/ m.src \in X
      PROVE  /\ Outstanding(job[p])' \subseteq Outstanding(job[p]) \cup X
             /\ \A t \in tags' : t.src \notin Outstanding(job[p])'
  <2>1. job'[p].src = job[p].src /\ Deferred(job[p])' = Deferred(job[p])
    BY <1>4, InflightStays
  <2>2. job[p].src \in Commits
    BY <1>4 DEF JobsConsistent
  <2>. QED  BY <1>4, <2>1, <2>2, OutstandingShrinks
<1>5. ASSUME Step(p), pc[p] \notin {"idle", "snapshot", "survey"}, pc'[p] # "idle",
             ~TakeSnapshot(p), ~Survey(p), ~Scan(p), work' = work
      PROVE  /\ Outstanding(job[p])' \subseteq Outstanding(job[p])
             /\ \A t \in tags' : t.src \notin Outstanding(job[p])'
  <2>1. /\ Outstanding(job[p])' \subseteq Outstanding(job[p]) \cup {}
        /\ \A t \in tags' : t.src \notin Outstanding(job[p])'
    BY <1>4, <1>5
  <2>. QED  BY <2>1
<1>6. CASE Recover(p)
  <2>1. /\ pc[p] = "select" /\ pc'[p] = "select"
        /\ job'[p].todo = job[p].todo \ {c} /\ job'[p].done = job[p].done \cup {c}
    BY <1>6, RecoverDoes
  <2>2. Step(p) /\ ~TakeSnapshot(p) /\ ~Survey(p) /\ ~Scan(p) /\ work' = work
    BY <1>6, <2>1 DEF Step, Recover, repoVars, TakeSnapshot, Survey, Scan, At
  <2>. HIDE DEF c
  <2>3. Outstanding(job[p])' \subseteq Outstanding(job[p])
    BY <1>5, <2>1, <2>2
  <2>. QED  BY <2>1, <2>3 DEF Accounted, Selecting
<1>7. CASE BeginSubmit(p) \/ Submit(p) \/ FinishSelection(p) \/ Stage(p) \/ Commit(p)
  <2>1. /\ job'[p] = job[p]
        /\ \/ pc[p] = "select" /\ pc'[p] = "submit"
           \/ pc[p] = "submit" /\ pc'[p] = "proof"
           \/ pc[p] = "select" /\ pc'[p] = "durable" /\ job[p].todo = {}
           \/ pc[p] \in {"stage", "commit"} /\ pc'[p] \in {"commit", "tag"}
    BY <1>7, MovesOn DEF FinishSelection
  <2>2. Step(p) /\ ~TakeSnapshot(p) /\ ~Survey(p) /\ ~Scan(p) /\ work' = work
    BY <1>7, <2>1 DEF Step, BeginSubmit, Submit, FinishSelection, Stage, Commit, repoVars,
                      TakeSnapshot, Survey, Scan, At
  <2>3. Outstanding(job[p])' \subseteq Outstanding(job[p])
    BY <1>5, <2>1, <2>2
  <2>. QED  BY <2>1, <2>3 DEF Accounted, Selecting
<1>8. CASE PersistProof(p)
  <2>1. pc[p] = "proof" /\ pc'[p] = "manifest" /\ job'[p] = job[p] /\ job[p].todo # {}
    BY <1>8, MovesOn DEF JobsConsistent
  <2>2. c \in job[p].todo
    BY <2>1, JobFacts, MinType
  <2>3. /\ Step(p) /\ ~TakeSnapshot(p) /\ ~Survey(p) /\ ~Scan(p)
        /\ work'.ots \subseteq work.ots \cup {c} /\ work'.json = work.json
    BY <1>8, <2>1 DEF Step, PersistProof, TypeOK, RepoTypeOK, Store,
                      TakeSnapshot, Survey, Scan, At
  <2>. HIDE DEF c
  <2>4. Outstanding(job[p])' \subseteq Outstanding(job[p]) \cup {c}
    BY <1>4, <2>1, <2>3
  <2>. QED  BY <2>1, <2>2, <2>4 DEF Accounted, Selecting
<1>9. CASE PersistManifest(p)
  <2>1. /\ pc[p] = "manifest" /\ pc'[p] = "select"
        /\ job'[p].todo = job[p].todo \ {c} /\ job'[p].done = job[p].done \cup {c}
    BY <1>9, PersistManifestDoes
  <2>2. /\ Step(p) /\ ~TakeSnapshot(p) /\ ~Survey(p) /\ ~Scan(p)
        /\ work' = [work EXCEPT !.json = work.json \cup {StampOf(job[p], c)}]
    BY <1>9, <2>1 DEF Step, PersistManifest, TakeSnapshot, Survey, Scan, At
  <2>3. StampOf(job[p], c).src = c
    BY StampOfFacts
  <2>4. /\ work'.ots \subseteq work.ots \cup {c}
        /\ \A m \in work'.json : m \in work.json \/ m.src \in {c}
    BY <2>2, <2>3 DEF TypeOK, RepoTypeOK, Store
  <2>. HIDE DEF c
  <2>5. Outstanding(job[p])' \subseteq Outstanding(job[p]) \cup {c}
    BY <1>4, <2>1, <2>2, <2>4
  <2>. QED  BY <2>1, <2>5 DEF Accounted, Selecting
<1>10. CASE CheckDurable(p)
  <2>1. /\ pc[p] = "durable" /\ pc'[p] \in {"stage", "tag"} /\ job'[p].todo = job[p].done
    BY <1>10, CheckDurableDoes
  <2>2. Step(p) /\ ~TakeSnapshot(p) /\ ~Survey(p) /\ ~Scan(p) /\ work' = work
    BY <1>10, <2>1 DEF Step, CheckDurable, repoVars, TakeSnapshot, Survey, Scan, At
  <2>3. Outstanding(job[p])' \subseteq Outstanding(job[p])
    BY <1>5, <2>1, <2>2
  <2>. QED  BY <2>1, <2>3 DEF Accounted, Selecting
<1>11. CASE TagNext(p)
  <2>1. CASE pc'[p] = "idle"
    BY <2>1 DEF Accounted, Selecting
  <2>2. CASE pc'[p] # "idle"
    <3>1. /\ pc[p] = "tag" /\ pc'[p] = "tag" /\ job'[p].todo = job[p].todo \ {c}
          /\ StampOf(job[p], c) \in tags'
      BY <1>11, <2>2, TagNextDoes
    <3>2. Step(p) /\ ~TakeSnapshot(p) /\ ~Survey(p) /\ ~Scan(p) /\ work' = work
      BY <1>11, <3>1 DEF Step, TagNext, TakeSnapshot, Survey, Scan, At
    <3>3. StampOf(job[p], c).src = c
      BY StampOfFacts
    <3>. HIDE DEF c
    <3>4. /\ Outstanding(job[p])' \subseteq Outstanding(job[p])
          /\ c \notin Outstanding(job[p])'
      BY <1>5, <2>2, <3>1, <3>2, <3>3
    <3>. QED  BY <3>1, <3>4 DEF Accounted, Selecting
  <2>. QED  BY <2>1, <2>2
<1>12. CASE AdoptLegacy(p) \/ BeginCompletion(p) \/ PassOver(p) \/ CompleteTag(p)
  <2>1. CASE pc'[p] = "idle"
    BY <2>1 DEF Accounted, Selecting
  <2>2. CASE pc'[p] # "idle"
    <3>1. pc[p] \in {"adopt", "complete"} /\ work' = work
      BY <1>12, Zenon DEF AdoptLegacy, BeginCompletion, PassOver, CompleteTag, At, repoVars
    <3>2. pc'[p] \in {"stage", "complete"}
      <4>1. CASE AdoptLegacy(p)
        BY <4>1, AdoptLegacyDoes
      <4>2. CASE BeginCompletion(p) \/ PassOver(p)
        BY <4>2 DEF BeginCompletion, PassOver, Goto, TypeOK
      <4>3. CASE CompleteTag(p)
        <5>1. pc[p] = "complete" /\ \E stamp, j : TagOrFail(p, stamp, j)
          BY <4>3, Zenon DEF CompleteTag, At
        <5>. QED  BY <2>2, <5>1 DEF TagOrFail, End, TypeOK
      <4>. QED  BY <1>12, <4>1, <4>2, <4>3
    <3>3. Step(p) /\ ~TakeSnapshot(p) /\ ~Survey(p) /\ ~Scan(p)
      BY <1>12, <3>1 DEF Step, TakeSnapshot, Survey, Scan, At
    <3>4. Outstanding(job[p])' \subseteq Outstanding(job[p])
      BY <1>5, <2>2, <3>1, <3>3
    <3>. QED  BY <3>1, <3>2, <3>4 DEF Accounted, Selecting
  <2>. QED  BY <2>1, <2>2
<1>. QED  BY <1>1, <1>2, <1>3, <1>6, <1>7, <1>8, <1>9, <1>10, <1>11, <1>12
         DEF Step, Disturb, Ending

LEMMA AccountedNext ==
    /\ TypeOK /\ JobsConsistent /\ LockHeld /\ Backed /\ Calm /\ JobsAccounted /\ [Next]_vars
    => JobsAccounted'
<1>. SUFFICES ASSUME TypeOK, JobsConsistent, LockHeld, Backed, Calm, JobsAccounted,
                     [Next]_vars
              PROVE  JobsAccounted'
  OBVIOUS
<1>1. HistoryGrows /\ HeadKeeps
  BY TypeStep, HeadKeepsNext DEF vars, repoVars, HistoryGrows, Commits
<1>2. tags \subseteq tags'
  BY TagSteps
<1>3. CASE \E p \in Proc : Acquire(p) \/ AcquireForRepair(p) \/ Step(p) \/ Disturb(p)
  <2>1. PICK p \in Proc : Acquire(p) \/ AcquireForRepair(p) \/ Step(p) \/ Disturb(p)
    BY <1>3
  <2>2. \A q \in Proc \ {p} : Accounted(job[q], pc[q])'
    BY <2>1, OthersIdle DEF Accounted, Selecting
  <2>3. Accounted(job[p], pc[p])
    BY DEF JobsAccounted
  <2>4. CASE Acquire(p) \/ AcquireForRepair(p)
    <3>1. pc'[p] \in {"snapshot", "survey"}
      BY <2>4 DEF Acquire, AcquireForRepair, TypeOK
    <3>2. Accounted(job[p], pc[p])'
      BY <3>1 DEF Accounted, Selecting
    <3>. QED  BY <2>2, <3>2 DEF JobsAccounted
  <2>5. CASE Step(p) \/ Disturb(p)
    <3>1. Accounted(job[p], pc[p])'
      BY <1>1, <1>2, <2>3, <2>5, StepAccounted
    <3>. QED  BY <2>2, <3>1 DEF JobsAccounted
  <2>. QED  BY <2>1, <2>4, <2>5
<1>4. CASE (DevStep /\ UNCHANGED runVars) \/ EnableProofCommit \/ UNCHANGED vars
  <2>1. UNCHANGED <<pc, job>> /\ Holds(work, work')
    <3>1. CASE DevStep /\ UNCHANGED runVars
      BY <3>1, DevWork DEF runVars, TypeOK
    <3>2. CASE EnableProofCommit \/ UNCHANGED vars
      BY <3>2, HoldsItself DEF EnableProofCommit, Dev, vars, repoVars, runVars
    <3>. QED  BY <1>4, <3>1, <3>2
  <2>2. ASSUME NEW p \in Proc
        PROVE  Accounted(job[p], pc[p])'
    <3>1. CASE pc[p] \in {"idle", "snapshot", "survey"}
      BY <2>1, <3>1 DEF Accounted, Selecting
    <3>2. CASE pc[p] \notin {"idle", "snapshot", "survey"}
      <4>1. job[p].src \in Commits /\ job'[p].src = job[p].src
            /\ Deferred(job[p])' = Deferred(job[p])
        BY <2>1, <3>2 DEF JobsConsistent, Deferred
      <4>2. /\ work'.ots \subseteq work.ots \cup {}
            /\ \A m \in work'.json : m \in work.json \/ m.src \in {}
        BY <2>1 DEF Holds
      <4>3. Outstanding(job[p])' \subseteq Outstanding(job[p]) \cup {}
        BY <1>1, <1>2, <4>1, <4>2, OutstandingShrinks
      <4>4. Untagged(job[p])' \subseteq Untagged(job[p])
        BY <1>1, <1>2, <4>1, <4>2, UntaggedShrinks
      <4>. QED  BY <2>1, <4>3, <4>4 DEF JobsAccounted, Accounted
    <3>. QED  BY <3>1, <3>2
  <2>. QED  BY <2>2 DEF JobsAccounted
<1>. QED  BY <1>3, <1>4 DEF Next, DevStep

LEMMA AccountedInvariant ==
    ASSUME "reset" \notin DevActions
    PROVE  Spec => []JobsAccounted
<1>1. Init => JobsAccounted
  BY DEF Init, JobsAccounted, Accounted, Selecting
<1>2. CASE "merge" \in DevActions
  <2>1. FilesStay
    BY <1>2, RepoAssumption DEF FilesStay
  <2>2. Spec => []Accrues
    BY <2>1, AccruesInvariant
  <2>3. Accrues => Calm
    BY DEF Calm
  <2>. QED  BY TypeInvariant, LockInvariant, BackedInvariant, <1>1, <2>2, <2>3,
               AccountedNext, PTL DEF Spec
<1>3. CASE "merge" \notin DevActions
  <2>1. Calm
    BY <1>3 DEF Calm
  <2>2. /\ TypeOK /\ JobsConsistent /\ LockHeld /\ Backed /\ JobsAccounted /\ [Next]_vars
        => JobsAccounted'
    BY <2>1, AccountedNext
  <2>. QED  BY TypeInvariant, LockInvariant, BackedInvariant, <1>1, <2>2, PTL DEF Spec
<1>. QED  BY <1>2, <1>3

(* Success is reported at the end of a list that has been worked off. *)
LEMMA EndsWell ==
    ASSUME TypeOK, [Next]_vars, NEW p \in Proc, EndsOk(p)
    PROVE  \/ pc[p] \in {"complete", "tag"} /\ job[p].todo = {}
           \/ pc[p] = "repair" /\ job[p].todo = {} /\ job[p].done = {}
<1>1. pc[p] # "idle" /\ pc'[p] = "idle" /\ outcome'[p] = "ok"
  BY DEF EndsOk, At
<1>2. PICK q \in Proc : Acquire(q) \/ AcquireForRepair(q) \/ Step(q) \/ Disturb(q)
  BY <1>1, WhoMoves
<1>3. q = p
  BY <1>1, <1>2, OthersStay
<1>4. ~ \E how : how # "ok" /\ End(p, how)
  BY <1>1 DEF End, TypeOK
<1>5. CASE Ending(p) \/ SubmitFails(p)
  <2>1. FinishCompletion(p) \/ FinishRun(p) \/ FinishRepair(p)
    BY <1>4, <1>5 DEF Ending, RefuseReplay, RefuseState, FailInconsistent, FailSelected,
       PersistFails, StageFails, CommitRefused, CommitVetoed, Crash, SubmitFails
  <2>2. CASE FinishRepair(p)
    BY <1>4, <2>2 DEF FinishRepair, At
  <2>. QED  BY <2>1, <2>2 DEF FinishCompletion, FinishRun, At
<1>6. CASE CompleteTag(p) \/ TagNext(p) \/ RepairTag(p)
  <2>1. \E stamp, j : TagOrFail(p, stamp, j)
    BY <1>6, Zenon DEF CompleteTag, TagNext, RepairTag
  <2>2. End(p, "failed") \/ UNCHANGED pc
    BY <2>1 DEF TagOrFail
  <2>. QED  BY <1>1, <1>4, <2>2
<1>7. CASE ~(Ending(p) \/ SubmitFails(p)) /\ ~(CompleteTag(p) \/ TagNext(p) \/ RepairTag(p))
  <2>1. \E step : step # "idle" /\ pc'[p] = step
    <3>1. CASE Acquire(p) \/ AcquireForRepair(p)
      BY <3>1 DEF Acquire, AcquireForRepair, TypeOK
    <3>2. CASE TakeSnapshot(p) \/ Scan(p) \/ AdoptLegacy(p) \/ Recover(p)
               \/ PersistManifest(p) \/ CheckDurable(p)
      BY <3>2, TakeSnapshotDoes, ScanDoes, AdoptLegacyDoes, RecoverDoes,
         PersistManifestDoes, CheckDurableDoes
    <3>3. CASE BeginSubmit(p) \/ Submit(p) \/ PersistProof(p) \/ FinishSelection(p)
               \/ Stage(p) \/ Commit(p)
      BY <3>3, MovesOn
    <3>4. CASE BeginCompletion(p) \/ PassOver(p) \/ Survey(p) \/ RepairPassesOver(p)
      BY <3>4, Zenon DEF BeginCompletion, PassOver, Survey, RepairPassesOver, Goto, TypeOK
    <3>. QED  BY <1>2, <1>3, <1>7, <3>1, <3>2, <3>3, <3>4 DEF Step, Disturb, Ending
  <2>. QED  BY <1>1, <2>1
<1>. QED  BY <1>5, <1>6, <1>7

(* What is in flight on HEAD's lineage was so on the frozen one, when only *)
(* generated commits came on top.                                          *)
LEMMA InFlightBelow ==
    ASSUME TypeOK, StoresMeaningful, ProofsKept, NEW src \in Anc(head), NEW S,
           \A c \in Anc(head) \ Anc(src) : IsGenerated(c)
    PROVE  InFlight(head, S) \subseteq InFlight(src, S) \ Tree(head).ots
<1>1. head \in Commits
  BY DEF TypeOK, RepoTypeOK, Commits
<1>2. Tree(src).ots \subseteq Tree(head).ots
  BY <1>1 DEF ProofsKept
<1>3. ASSUME NEW c \in InFlight(head, S)
      PROVE  c \in Anc(src)
  <2>1. c \in work.ots /\ c \in Anc(head)
    BY DEF InFlight
  <2>. QED  BY <2>1 DEF StoresMeaningful, Meaningful
<1>. QED  BY <1>2, <1>3 DEF InFlight

(* Interrupted work is not forgotten: when a run or a repair reports       *)
(* success, and only generated commits came on top of what it froze, every *)
(* proof and manifest pair on the lineage is tagged or in HEAD's tree,     *)
(* whoever wrote it and however that run ended, but for what the run has   *)
(* itself deferred.  That holds where nobody makes HEAD jump.              *)
THEOREM NothingStranded ==
    ASSUME "reset" \notin DevActions
    PROVE  Spec => NothingLeftInFlight
<1>. DEFINE Done == \A p \in Proc : EndsOk(p) /\ NoNewWork(p)
                                      => InFlight(head, Deferred(job[p])) = {}
<1>1. TypeOK /\ StoresMeaningful /\ ProofsKept /\ JobsAccounted /\ [Next]_vars => Done
  <2>. SUFFICES ASSUME TypeOK, StoresMeaningful, ProofsKept, JobsAccounted, [Next]_vars,
                       NEW p \in Proc, EndsOk(p), NoNewWork(p)
                PROVE  InFlight(head, Deferred(job[p])) = {}
    OBVIOUS
  <2>1. InFlight(head, Deferred(job[p])) \subseteq Outstanding(job[p])
    BY InFlightBelow DEF NoNewWork, Outstanding
  <2>2. Outstanding(job[p]) \subseteq Untagged(job[p])
    BY DEF Outstanding, Untagged, InFlight
  <2>3. Accounted(job[p], pc[p])
    BY DEF JobsAccounted
  <2>4. CASE pc[p] \in {"complete", "tag"} /\ job[p].todo = {}
    BY <2>1, <2>3, <2>4 DEF Accounted
  <2>5. CASE pc[p] = "repair" /\ job[p].todo = {} /\ job[p].done = {}
    BY <2>1, <2>2, <2>3, <2>5 DEF Accounted
  <2>. QED  BY <2>4, <2>5, EndsWell
<1>2. TypeOK /\ StoresMeaningful /\ ProofsKept /\ JobsAccounted /\ [Next]_vars => [Done]_vars
  BY <1>1
<1>. HIDE DEF Done
<1>3. Spec => []JobsAccounted
  BY AccountedInvariant
<1>4. Spec => [][Done]_vars
  BY TypeInvariant, MeaningfulInvariant, ProofsKeptInvariant, <1>2, <1>3, PTL DEF Spec
<1>. QED  BY <1>4, PTL DEF Done, NothingLeftInFlight
=============================================================================
