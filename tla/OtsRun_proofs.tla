---------------------------- MODULE OtsRun_proofs ----------------------------
(***************************************************************************)
(* What TLAPS proves about `git ots run`, for every policy, every set of   *)
(* invocations, every choice of faults and crash points and every bound.   *)
(*                                                                         *)
(*   TypeCorrect      every reachable state is well typed                  *)
(*   MutualExclusion  the lock keeps overlapping invocations apart         *)
(*   Truthful         every tag states a submission the calendars accepted *)
(*   Implementation   runs and repairs implement StampLedger               *)
(*                                                                         *)
(* Each follows from an inductive invariant: TypeOK /\ JobsConsistent,     *)
(* LockHeld, and StoresAttested /\ JobsAttested, defined in                *)
(* OtsRunProperties.  There is one lemma per phase of run() and per        *)
(* invariant, and one for everything the developer does.                   *)
(***************************************************************************)
EXTENDS OtsRunProperties, WellFoundedInduction, SequenceTheorems, TLAPS

(* A set of natural numbers that has an element has a least one, which is  *)
(* the one Min chooses: the next source of a loop is one of those left.    *)
LEMMA MinType ==
    ASSUME NEW S \in SUBSET Nat, S # {}
    PROVE  Min(S) \in S /\ Min(S) \in Nat
<1>1. PICK n \in S : \A m \in S : <<m, n>> \notin OpToRel(<, Nat)
  BY NatLessThanWellFounded, WFMin
<1>2. \A m \in S : ~(m < n)
  BY <1>1, Zenon DEF OpToRel
<1>3. \A m \in S : n <= m
  BY <1>2
<1>. QED  BY <1>3 DEF Min

-----------------------------------------------------------------------------
(* The repository *)

(* Commits have the fields CommitInfo gives them. *)
LEMMA CommitFacts ==
    ASSUME RepoTypeOK, NEW c \in Commits
    PROVE  /\ c \in Nat
           /\ Anc(c) \in SUBSET Nat
           /\ Tree(c) \in Store
           /\ Tree(c).json \in SUBSET Stamp
           /\ Tree(c).ots \in SUBSET Nat
           /\ IsGenerated(c) \in BOOLEAN
           /\ history[c].claims \in SUBSET Nat
           /\ history[c].time \in Nat
<1>1. history \in Seq(CommitInfo) /\ c \in 1..Len(history)
  BY DEF RepoTypeOK, Commits
<1>2. history[c] \in CommitInfo /\ c \in Nat
  BY <1>1
<1>. QED  BY <1>2 DEF CommitInfo, Anc, Tree, IsGenerated, Store

(* Replacing files of one store by those of another gives a store, and no *)
(* manifest that was in neither.                                           *)
LEMMA PutFacts ==
    ASSUME NEW store \in Store, NEW from \in Store, NEW S
    PROVE  /\ Put(store, from, S) \in Store
           /\ Put(store, from, S).json \subseteq store.json \cup from.json
  BY DEF Put, Store

(* The manifest of a complete pair is in the store and names its source. *)
LEMMA ManifestFacts ==
    ASSUME NEW store, NEW c, HasPair(store, c)
    PROVE  ManifestOf(store, c) \in store.json /\ ManifestOf(store, c).src = c
  BY DEF HasPair, Described, ManifestOf

(* Appending an element of S to a sequence over S gives a sequence over S    *)
(* that has the old elements at their old places and the new one at the end. *)
LEMMA AppendedFacts ==
    ASSUME NEW S, NEW s \in Seq(S), NEW e \in S, NEW t, t = Append(s, e)
    PROVE  /\ t \in Seq(S)
           /\ Len(t) = Len(s) + 1
           /\ \A i \in 1..Len(s) : t[i] = s[i]
           /\ t[Len(s) + 1] = e
  BY AppendProperties

(* A new commit leaves the older ones as they were. *)
LEMMA NewCommitFacts ==
    ASSUME RepoTypeOK, NEW ancestry \in SUBSET Nat, NEW generated \in BOOLEAN,
           NEW claims \in SUBSET Nat, NEW tree \in Store,
           NewCommit(ancestry, generated, claims, tree)
    PROVE  /\ history' \in Seq(CommitInfo)
           /\ head' \in DOMAIN history'
           /\ Commits \subseteq Commits'
           /\ \A c \in Commits : history'[c] = history[c]
           /\ \A c \in Commits' \ Commits : history'[c].tree = tree
<1>. DEFINE info == [anc |-> ancestry \cup {Len(history) + 1}, generated |-> generated,
                     claims |-> claims, time |-> now, tree |-> tree]
<1>1. history \in Seq(CommitInfo) /\ Len(history) \in Nat
  BY DEF RepoTypeOK
<1>2. info \in CommitInfo
  <2>1. Len(history) + 1 \in Nat
    BY <1>1
  <2>2. ancestry \cup {Len(history) + 1} \in SUBSET Nat
    BY <2>1, Zenon
  <2>3. now \in Nat
    BY DEF RepoTypeOK
  <2>. QED  BY <2>2, <2>3, Zenon DEF CommitInfo
<1>3. history' = Append(history, info) /\ head' = Len(history) + 1
  BY DEF NewCommit
<1>4. info.tree = tree
  OBVIOUS
<1>. HIDE DEF info
<1>5. /\ history' \in Seq(CommitInfo)
      /\ Len(history') = Len(history) + 1
      /\ \A i \in 1..Len(history) : history'[i] = history[i]
      /\ history'[Len(history) + 1] = info
  BY <1>1, <1>2, <1>3, AppendedFacts
<1>6. Commits = 1..Len(history) /\ Commits' = 1..(Len(history) + 1)
  BY <1>1, <1>5 DEF Commits
<1>7. Commits' \ Commits = {Len(history) + 1}
  BY <1>1, <1>6
<1>8. head' \in DOMAIN history'
  BY <1>1, <1>3, <1>5
<1>. QED  BY <1>1, <1>4, <1>5, <1>6, <1>7, <1>8

(* A baseline is a tag, a manifest of the source's own tree, or none. *)
LEMMA BaselineFacts ==
    ASSUME NEW src
    PROVE  Baseline(src) \in tags \cup Tree(src).json \cup {None}
<1>1. TagBaseline(src) \in tags \cup {None}
  BY Zenon DEF TagBaseline
<1>2. ProofCommitBaseline(src) \in Tree(src).json \cup {None}
  BY Zenon DEF ProofCommitBaseline
<1>. QED  BY <1>1, <1>2 DEF Baseline

(* The policy selects commits it was given, for triggers it knows. *)
LEMMA PolicyFacts ==
    ASSUME NEW pending, \A x \in pending : x.id \in Nat,
           NEW hasBaseline, NEW lastFixed, NEW t
    PROVE  EvaluatePolicy(pending, hasBaseline, lastFixed, t) \in Decision
<1>1. LatestPending(pending) \subseteq pending
  BY DEF LatestPending
<1>2. AggregateTriggers(pending, lastFixed, t) \subseteq Triggers
  BY DEF AggregateTriggers, Triggers
<1>. QED  BY <1>1, <1>2, Zenon DEF EvaluatePolicy, NoDecision, Decision, Triggers

(* The pending commits and the decision build_snapshot derives from a source *)
(* in the history are commits and triggers.                                  *)
LEMMA DecisionFacts ==
    ASSUME RepoTypeOK, NEW src \in Commits, NEW t, NEW base
    PROVE  /\ PendingMeaningful(src, base) \in SUBSET Nat
           /\ DecisionFor(src, t).commits \in SUBSET Nat
           /\ DecisionFor(src, t).trig \in SUBSET Triggers
<1>1. \A b : PendingMeaningful(src, b) \in SUBSET Nat
  BY CommitFacts DEF PendingMeaningful
<1>2. DecisionFor(src, t) \in Decision
  BY <1>1, PolicyFacts DEF DecisionFor
<1>. QED  BY <1>1, <1>2 DEF Decision

-----------------------------------------------------------------------------
(* The developer *)

(* History only grows, and what is in it stays as it is. *)
HistoryGrows == /\ Commits \subseteq Commits'
                /\ \A c \in Commits : history'[c] = history[c]

DevStep == \/ DevCommit \/ DevAmend \/ DevReset \/ DevMerge \/ DevDrop \/ DevClean
           \/ Tick

(* The two parts of a store: sources with a proof, and manifests. *)
LEMMA StoreFacts ==
    ASSUME NEW store \in Store
    PROVE  store.ots \in SUBSET Nat /\ store.json \in SUBSET Stamp
  BY DEF Store

(* The empty proof directory is a store without manifests. *)
LEMMA EmptyStoreType == EmptyStore \in Store /\ EmptyStore.json = {}
  BY DEF EmptyStore, Store

(* Whatever the developer does, the repository stays well formed. *)
LEMMA DevType ==
    ASSUME RepoTypeOK, DevStep
    PROVE  RepoTypeOK' /\ HistoryGrows
<1>. USE DEF Dev
<1>1. /\ history \in Seq(CommitInfo) /\ head \in Commits
      /\ index \in Store /\ work \in Store /\ tags \subseteq Stamp
      /\ now \in Nat /\ devs \in Nat
  BY DEF RepoTypeOK, Commits
<1>2. Anc(head) \in SUBSET Nat /\ IsGenerated(head) \in BOOLEAN
      /\ history[head].claims \in SUBSET Nat
  BY <1>1, CommitFacts
<1>3. CASE DevCommit
  <2>1. PICK all \in BOOLEAN :
          /\ NewCommit(Anc(head), FALSE, {}, IF all THEN work ELSE index)
          /\ index' = IF all THEN work ELSE index
    BY <1>3 DEF DevCommit
  <2>2. (IF all THEN work ELSE index) \in Store
    BY <1>1
  <2>3. history' \in Seq(CommitInfo) /\ head' \in DOMAIN history' /\ HistoryGrows
    BY <1>2, <2>1, <2>2, NewCommitFacts DEF HistoryGrows
  <2>. QED  BY <1>1, <1>3, <2>1, <2>2, <2>3 DEF DevCommit, RepoTypeOK
<1>4. CASE DevAmend
  <2>1. history' \in Seq(CommitInfo) /\ head' \in DOMAIN history' /\ HistoryGrows
    BY <1>1, <1>2, <1>4, NewCommitFacts DEF DevAmend, HistoryGrows
  <2>. QED  BY <1>1, <1>4, <2>1 DEF DevAmend, RepoTypeOK
<1>5. CASE DevReset
  <2>1. PICK c \in Commits \ {head} :
          /\ head' = c
          /\ index' = Tree(c)
          /\ work' = [ots  |-> (work.ots \ index.ots) \cup Tree(c).ots,
                      json |-> {m \in {m \in work.json : m.src \notin Described(index)} :
                                  m.src \notin Described(Tree(c))} \cup Tree(c).json]
    BY <1>5 DEF DevReset
  <2>2. Tree(c) \in Store /\ Tree(c).json \in SUBSET Stamp /\ Tree(c).ots \in SUBSET Nat
    BY CommitFacts
  <2>3. work' \in Store
    BY <1>1, <2>1, <2>2 DEF Store
  <2>. QED  BY <1>1, <1>5, <2>1, <2>2, <2>3 DEF DevReset, RepoTypeOK, HistoryGrows, Commits
<1>6. CASE DevMerge
  <2>1. PICK c \in Commits :
          LET gain == [ots  |-> Tree(c).ots \ Tree(head).ots,
                       json |-> {m \in Tree(c).json : m.src \notin Described(Tree(head))}]
              With(store) == [ots  |-> store.ots \cup gain.ots,
                              json |-> store.json \cup gain.json]
          IN  /\ NewCommit(Anc(head) \cup Anc(c), FALSE, {}, With(Tree(head)))
              /\ index' = With(Tree(head))
              /\ work' = With(work)
    BY <1>6 DEF DevMerge
  <2>. DEFINE With(store) ==
         [ots  |-> store.ots \cup (Tree(c).ots \ Tree(head).ots),
          json |-> store.json \cup {m \in Tree(c).json : m.src \notin Described(Tree(head))}]
  <2>2. /\ NewCommit(Anc(head) \cup Anc(c), FALSE, {}, With(Tree(head)))
        /\ index' = With(Tree(head)) /\ work' = With(work)
    BY <2>1
  <2>3. /\ Tree(c).json \in SUBSET Stamp /\ Tree(c).ots \in SUBSET Nat
        /\ Anc(c) \in SUBSET Nat /\ Tree(head) \in Store
    BY <1>1, CommitFacts
  <2>4. \A store \in Store : With(store) \in Store
    BY <2>3 DEF Store
  <2>. HIDE DEF With
  <2>5. Anc(head) \cup Anc(c) \in SUBSET Nat
    BY <1>2, <2>3
  <2>6. history' \in Seq(CommitInfo) /\ head' \in DOMAIN history' /\ HistoryGrows
    BY <2>2, <2>3, <2>4, <2>5, NewCommitFacts DEF HistoryGrows
  <2>7. index' \in Store /\ work' \in Store
    BY <1>1, <2>2, <2>3, <2>4
  <2>8. UNCHANGED <<tags, now>> /\ devs' = devs + 1
    BY <1>6 DEF DevMerge
  <2>. QED  BY <1>1, <2>6, <2>7, <2>8 DEF RepoTypeOK
<1>7. CASE DevDrop
  <2>1. PICK c \in index.ots \cap Described(index) :
          /\ index' = Put(index, EmptyStore, {c})
          /\ work' = Put(work, EmptyStore, {c})
          /\ NewCommit(Anc(head), FALSE, {}, index')
    BY <1>7 DEF DevDrop
  <2>2. index' \in Store /\ work' \in Store
    BY <1>1, <2>1, EmptyStoreType, PutFacts
  <2>3. history' \in Seq(CommitInfo) /\ head' \in DOMAIN history' /\ HistoryGrows
    BY <1>2, <2>1, <2>2, NewCommitFacts DEF HistoryGrows
  <2>. QED  BY <1>1, <1>7, <2>2, <2>3 DEF DevDrop, RepoTypeOK
<1>8. CASE DevClean
  <2>1. work' \in Store
    BY <1>1, <1>8 DEF DevClean, Store
  <2>. QED  BY <1>1, <1>8, <2>1 DEF DevClean, RepoTypeOK, HistoryGrows, Commits
<1>9. CASE Tick
  BY <1>1, <1>9 DEF Tick, RepoTypeOK, HistoryGrows, Commits
<1>. QED  BY <1>3, <1>4, <1>5, <1>6, <1>7, <1>8, <1>9 DEF DevStep

-----------------------------------------------------------------------------
(* The run *)

(* The local variables of a run have the types Job gives them. *)
LEMMA JobFacts ==
    ASSUME TypeOK, NEW p \in Proc
    PROVE  /\ pc[p] \in Steps
           /\ job[p] \in Job
           /\ job[p].src \in Nat /\ job[p].base \in Stamp \cup {None}
           /\ job[p].pending \in SUBSET Nat /\ job[p].decision \in SUBSET Nat
           /\ job[p].trig \in SUBSET Triggers
           /\ job[p].clock \in Nat /\ job[p].at \in Nat
           /\ job[p].inflight \in SUBSET Nat /\ job[p].todo \in SUBSET Nat
           /\ job[p].done \in SUBSET Nat /\ job[p].rec \in SUBSET Stamp
           /\ job[p].keep \in BOOLEAN
  BY DEF TypeOK, Job

(* A stamp is about the source it is asked for: it is recovered evidence   *)
(* for that source, or this run's own submission.                          *)
LEMMA StampOfFacts ==
    ASSUME NEW j, NEW c
    PROVE  \/ StampOf(j, c) \in j.rec /\ StampOf(j, c).src = c
           \/ /\ \A m \in j.rec : m.src # c
              /\ StampOf(j, c) = [src |-> c, at |-> j.at, trig |-> j.trig]
  BY Zenon DEF StampOf

(* A run only ever writes well-formed stamps. *)
LEMMA StampOfType ==
    ASSUME NEW j, j.rec \in SUBSET Stamp, j.at \in Nat, j.trig \in SUBSET Triggers,
           NEW c \in Nat
    PROVE  StampOf(j, c) \in Stamp
  BY StampOfFacts DEF Stamp

(* A step that leaves the repository alone leaves it well formed. *)
LEMMA UnchangedRepo ==
    ASSUME RepoTypeOK, UNCHANGED repoVars
    PROVE  RepoTypeOK' /\ HistoryGrows
  BY DEF RepoTypeOK, repoVars, HistoryGrows, Commits

(* What one invocation's step has to establish for its own job. *)
LEMMA JobStep ==
    ASSUME TypeOK, JobsConsistent, HistoryGrows, NEW p \in Proc,
           NEW step \in Steps, NEW j \in Job,
           pc' = [pc EXCEPT ![p] = step], job' = [job EXCEPT ![p] = j],
           step \notin {"idle", "snapshot", "survey"} => j.src \in Commits',
           step = "adopt" => j.todo = {},
           step \in {"submit", "proof", "manifest"} => j.todo # {}
    PROVE  pc' \in [Proc -> Steps] /\ job' \in [Proc -> Job] /\ JobsConsistent'
<1>1. pc \in [Proc -> Steps] /\ job \in [Proc -> Job]
  BY DEF TypeOK
<1>2. pc' \in [Proc -> Steps] /\ job' \in [Proc -> Job]
  BY <1>1
<1>3. ASSUME NEW q \in Proc
      PROVE  /\ pc'[q] \notin {"idle", "snapshot", "survey"} => job'[q].src \in Commits'
             /\ pc'[q] = "adopt" => job'[q].todo = {}
             /\ pc'[q] \in {"submit", "proof", "manifest"} => job'[q].todo # {}
  <2>1. CASE q = p
    BY <1>1, <2>1
  <2>2. CASE q # p
    <3>1. pc'[q] = pc[q] /\ job'[q] = job[q]
      BY <1>1, <2>2
    <3>. QED  BY <3>1 DEF JobsConsistent, HistoryGrows
  <2>. QED  BY <2>1, <2>2
<1>. QED  BY <1>2, <1>3 DEF JobsConsistent

(* The job of an invocation that is not running is a job. *)
LEMMA NoJobType == NoJob \in Job
<1>1. 0 \in Nat /\ {} \in SUBSET Nat /\ {} \in SUBSET Triggers /\ {} \in SUBSET Stamp
      /\ None \in Stamp \cup {None} /\ FALSE \in BOOLEAN
  OBVIOUS
<1>. QED  BY <1>1, Zenon DEF NoJob, Job

(* A run that ends, however it ends, leaves a well-formed idle process. *)
LEMMA EndType ==
    ASSUME TypeOK, JobsConsistent, HistoryGrows, NEW p \in Proc,
           NEW how \in Outcomes, End(p, how)
    PROVE  /\ pc' \in [Proc -> Steps] /\ job' \in [Proc -> Job] /\ JobsConsistent'
           /\ lock' \in Proc \cup {None} /\ outcome' \in [Proc -> Outcomes]
           /\ proofCommit' \in BOOLEAN
<1>1. pc' = [pc EXCEPT ![p] = "idle"] /\ job' = [job EXCEPT ![p] = NoJob]
  BY DEF End
<1>2. "idle" \in Steps
  BY DEF Steps
<1>3. pc' \in [Proc -> Steps] /\ job' \in [Proc -> Job] /\ JobsConsistent'
  BY <1>1, <1>2, NoJobType, JobStep
<1>. QED  BY <1>3 DEF End, TypeOK

(* A step that ends the run and touches nothing else. *)
Ending(p) ==
    \/ RefuseReplay(p) \/ RefuseState(p) \/ FailInconsistent(p) \/ FinishCompletion(p)
    \/ FailSelected(p) \/ PersistFails(p) \/ StageFails(p) \/ CommitRefused(p)
    \/ CommitVetoed(p) \/ FinishRun(p) \/ FinishRepair(p) \/ Crash(p)

(* Every way of ending a run releases the lock and forgets the job, and none *)
(* of them touches the repository or the calendars.                          *)
LEMMA EndingFacts ==
    ASSUME NEW p \in Proc, Ending(p)
    PROVE  /\ \E how \in Outcomes : End(p, how)
           /\ UNCHANGED <<repoVars, calendar>>
           /\ faults' = faults \/ faults' = faults + 1
<1>. USE DEF Outcomes, Fault
<1>1. CASE RefuseReplay(p)
  BY <1>1 DEF RefuseReplay
<1>2. CASE RefuseState(p)
  BY <1>2 DEF RefuseState
<1>3. CASE FailInconsistent(p)
  BY <1>3 DEF FailInconsistent
<1>4. CASE FinishCompletion(p)
  BY <1>4 DEF FinishCompletion
<1>5. CASE FailSelected(p)
  BY <1>5 DEF FailSelected
<1>6. CASE StageFails(p)
  BY <1>6 DEF StageFails
<1>7. CASE CommitRefused(p)
  BY <1>7 DEF CommitRefused
<1>8. CASE CommitVetoed(p)
  BY <1>8 DEF CommitVetoed
<1>9. CASE FinishRun(p)
  BY <1>9 DEF FinishRun
<1>10. CASE Crash(p)
  BY <1>10 DEF Crash
<1>11. CASE PersistFails(p)
  BY <1>11 DEF PersistFails
<1>12. CASE FinishRepair(p)
  BY <1>12 DEF FinishRepair
<1>. QED  BY <1>1, <1>2, <1>3, <1>4, <1>5, <1>6, <1>7, <1>8, <1>9, <1>10, <1>11, <1>12
          DEF Ending

(* Ending a run, in success or in failure, keeps the state well formed. *)
LEMMA EndingType ==
    ASSUME TypeOK, JobsConsistent, NEW p \in Proc, Ending(p)
    PROVE  TypeOK' /\ JobsConsistent' /\ HistoryGrows
<1>1. RepoTypeOK' /\ HistoryGrows
  BY EndingFacts, UnchangedRepo DEF TypeOK
<1>2. PICK how \in Outcomes : End(p, how)
  BY EndingFacts
<1>3. calendar' \subseteq Stamp /\ faults' \in Nat
  BY EndingFacts DEF TypeOK
<1>. QED  BY <1>1, <1>2, <1>3, EndType DEF TypeOK

(* A step that goes on with the run. *)
LEMMA GoType ==
    ASSUME TypeOK, JobsConsistent, RepoTypeOK', HistoryGrows, NEW p \in Proc,
           NEW step \in Steps, NEW j \in Job,
           Goto(p, step), job' = [job EXCEPT ![p] = j],
           step \notin {"idle", "snapshot", "survey"} => j.src \in Commits',
           step = "adopt" => j.todo = {},
           step \in {"submit", "proof", "manifest"} => j.todo # {},
           calendar' \subseteq Stamp, faults' \in Nat
    PROVE  TypeOK' /\ JobsConsistent'
<1>1. pc' = [pc EXCEPT ![p] = step]
  BY DEF Goto
<1>2. pc' \in [Proc -> Steps] /\ job' \in [Proc -> Job] /\ JobsConsistent'
  BY <1>1, JobStep
<1>. QED  BY <1>2 DEF Goto, TypeOK

(* The run up to its scan. *)
LEMMA StartType ==
    ASSUME TypeOK, JobsConsistent, NEW p \in Proc,
           Acquire(p) \/ TakeSnapshot(p) \/ Scan(p)
    PROVE  TypeOK' /\ JobsConsistent' /\ HistoryGrows
<1>1. RepoTypeOK' /\ HistoryGrows
  BY UnchangedRepo DEF TypeOK, Acquire, TakeSnapshot, Scan
<1>2. job[p] \in Job /\ now \in Nat /\ proofCommit \in BOOLEAN /\ head \in Commits
      /\ head \in Nat /\ faults \in Nat /\ calendar \subseteq Stamp
  BY JobFacts, CommitFacts DEF TypeOK, RepoTypeOK, Commits
<1>3. CASE Acquire(p)
  <2>. DEFINE j == [job[p] EXCEPT !.clock = now, !.keep = proofCommit]
  <2>1. j \in Job
    BY <1>2 DEF Job
  <2>2. pc' = [pc EXCEPT ![p] = "snapshot"] /\ job' = [job EXCEPT ![p] = j]
    BY <1>3 DEF Acquire, TypeOK
  <2>3. "snapshot" \in Steps
    BY DEF Steps
  <2>. HIDE DEF j
  <2>4. pc' \in [Proc -> Steps] /\ job' \in [Proc -> Job] /\ JobsConsistent'
    BY <1>1, <2>1, <2>2, <2>3, JobStep
  <2>. QED  BY <1>1, <1>3, <2>4 DEF Acquire, TypeOK
<1>4. CASE TakeSnapshot(p)
  <2>. DEFINE base == Baseline(head)
              pend == PendingMeaningful(head, BaseSource(base))
              due  == DecisionFor(head, job[p].clock)
              j    == [job[p] EXCEPT !.src = head, !.base = base, !.pending = pend,
                                     !.at = now, !.decision = due.commits,
                                     !.trig = due.trig]
  <2>1. base \in Stamp \cup {None}
    BY <1>2, BaselineFacts, CommitFacts DEF TypeOK, RepoTypeOK
  <2>2. /\ pend \in SUBSET Nat /\ due.commits \in SUBSET Nat
        /\ due.trig \in SUBSET Triggers
    BY <1>2, DecisionFacts DEF TypeOK
  <2>3. Goto(p, "scan") /\ job' = [job EXCEPT ![p] = j]
    BY <1>4 DEF TakeSnapshot, TypeOK
  <2>. HIDE DEF base, pend, due
  <2>4. j \in Job /\ j.src = head
    BY <1>2, <2>1, <2>2 DEF Job
  <2>. HIDE DEF j
  <2>5. "scan" \in Steps /\ UNCHANGED <<calendar, faults>>
    BY <1>4 DEF TakeSnapshot, Steps
  <2>6. head \in Commits'
    BY <1>1, <1>2 DEF HistoryGrows
  <2>. QED  BY <1>1, <1>2, <2>3, <2>4, <2>5, <2>6, GoType
<1>5. CASE Scan(p)
  <2>. DEFINE fl   == InFlight(job[p].src, job[p].decision)
              todo == IF fl = {} THEN job[p].decision ELSE {}
              rec  == {m \in work.json : m.src \in fl}
              j    == [job[p] EXCEPT !.inflight = fl, !.done = fl, !.todo = todo,
                                     !.rec = rec]
              step == IF job[p].decision = {} /\ fl = {} THEN "adopt" ELSE "select"
  <2>1. fl \in SUBSET Nat
    BY StoreFacts DEF InFlight, TypeOK, RepoTypeOK
  <2>2. todo \in SUBSET Nat /\ (step = "adopt" => todo = {})
    BY JobFacts
  <2>3. rec \in SUBSET Stamp
    BY StoreFacts DEF TypeOK, RepoTypeOK
  <2>4. Goto(p, step) /\ job' = [job EXCEPT ![p] = j] /\ At(p, "scan")
    BY <1>5 DEF Scan, TypeOK
  <2>5. step \in Steps \ {"idle", "snapshot", "submit", "proof", "manifest"}
    BY DEF Steps
  <2>. HIDE DEF fl, todo, rec, step
  <2>6. j \in Job /\ j.src = job[p].src /\ j.todo = todo
    BY <1>2, <2>1, <2>2, <2>3 DEF Job
  <2>. HIDE DEF j
  <2>7. j.src \in Commits'
    BY <1>1, <2>4, <2>6 DEF JobsConsistent, At, HistoryGrows
  <2>8. UNCHANGED <<calendar, faults>>
    BY <1>5 DEF Scan
  <2>. QED  BY <1>1, <1>2, <2>2, <2>4, <2>5, <2>6, <2>7, <2>8, GoType
<1>. QED  BY <1>3, <1>4, <1>5

(* A tagging step adds one stamp to the tags or ends the run. *)
LEMMA TagOrFailType ==
    ASSUME TypeOK, JobsConsistent, NEW p \in Proc, NEW stamp \in Stamp, NEW j \in Job,
           TagOrFail(p, stamp, j), j.src = job[p].src,
           pc[p] \in {"complete", "tag", "repair"},
           UNCHANGED <<history, head, index, work, now, devs, calendar, faults>>
    PROVE  TypeOK' /\ JobsConsistent' /\ HistoryGrows
<1>1. HistoryGrows
  BY DEF HistoryGrows, Commits
<1>2. CASE TagCollides(stamp)
  <2>1. End(p, "failed") /\ UNCHANGED tags
    BY <1>2 DEF TagOrFail
  <2>2. RepoTypeOK' /\ "failed" \in Outcomes
    BY <2>1 DEF TypeOK, RepoTypeOK, Outcomes
  <2>. QED  BY <1>1, <2>1, <2>2, EndType DEF TypeOK
<1>3. CASE ~TagCollides(stamp)
  <2>1. /\ tags' = tags \cup {stamp} /\ job' = [job EXCEPT ![p] = j]
        /\ UNCHANGED <<proofCommit, pc, lock, outcome>>
    BY <1>3 DEF TagOrFail
  <2>2. RepoTypeOK'
    BY <2>1 DEF TypeOK, RepoTypeOK
  <2>3. pc' = [pc EXCEPT ![p] = pc[p]] /\ pc[p] \in Steps
    BY <2>1 DEF TypeOK
  <2>4. j.src \in Commits'
    BY <1>1 DEF JobsConsistent, HistoryGrows
  <2>5. pc' \in [Proc -> Steps] /\ job' \in [Proc -> Job] /\ JobsConsistent'
    BY <1>1, <2>1, <2>3, <2>4, JobStep
  <2>. QED  BY <1>1, <2>1, <2>2, <2>5 DEF TypeOK
<1>. QED  BY <1>2, <1>3

(* The source a completion looks at next is one of those left. *)
LEMMA NextToCompleteFacts ==
    ASSUME TypeOK, NEW p \in Proc, job[p].todo # {}
    PROVE  /\ NextToComplete(job[p]) \in job[p].todo
           /\ NextToComplete(job[p]) \in Nat
<1>1. job[p].todo \in SUBSET Nat /\ job[p].base \in Stamp \cup {None}
  BY JobFacts
<1>2. CASE BaseSource(job[p].base) \in job[p].todo
  <2>1. job[p].base # None
    BY <1>1, <1>2, PolicyAssumption DEF BaseSource
  <2>. QED  BY <1>1, <1>2, <2>1 DEF BaseSource, NextToComplete
<1>3. CASE BaseSource(job[p].base) \notin job[p].todo
  BY <1>1, <1>3, MinType DEF NextToComplete
<1>. QED  BY <1>2, <1>3

(* The evidence a completion tags from is a manifest of the frozen source's *)
(* tree or of the working tree.                                             *)
LEMMA EvidenceFacts ==
    ASSUME NEW j, NEW c, NEW m, m = CompletionEvidence(j, c), m # None
    PROVE  m \in Tree(j.src).json \cup work.json /\ m.src = c
<1>1. CASE CommittedEvidence(c, j.src) # None
  <2>1. m = ManifestOf(Tree(j.src), c) /\ HasPair(Tree(j.src), c)
    BY <1>1 DEF CompletionEvidence, CommittedEvidence
  <2>. QED  BY <2>1, ManifestFacts
<1>2. CASE CommittedEvidence(c, j.src) = None
  <2>1. m = ManifestOf(work, c) /\ HasPair(work, c)
    BY <1>2 DEF CompletionEvidence
  <2>. QED  BY <2>1, ManifestFacts
<1>. QED  BY <1>1, <1>2

(* The empty decision: adopting a legacy tag, completing missing tags. *)
LEMMA CompletionType ==
    ASSUME TypeOK, JobsConsistent, NEW p \in Proc,
           AdoptLegacy(p) \/ BeginCompletion(p) \/ CompleteTag(p) \/ PassOver(p)
    PROVE  TypeOK' /\ JobsConsistent' /\ HistoryGrows
<1>1. /\ job[p] \in Job /\ faults \in Nat /\ calendar \subseteq Stamp
      /\ {"stage", "complete"} \subseteq Steps
      /\ job[p].base \in Stamp \cup {None}
  BY JobFacts DEF TypeOK, Steps
<1>2. job[p].src \in Commits
  BY DEF JobsConsistent, At, AdoptLegacy, BeginCompletion, CompleteTag, PassOver
<1>3. CASE AdoptLegacy(p)
  <2>. DEFINE j == [job[p] EXCEPT !.done = {job[p].base.src}]
  <2>1. RepoTypeOK' /\ HistoryGrows
    BY <1>3, UnchangedRepo DEF TypeOK, AdoptLegacy
  <2>2. job[p].base.src \in Nat
    BY <1>1, <1>3 DEF AdoptLegacy, LegacyTag, Stamp
  <2>3. Goto(p, "stage") /\ job' = [job EXCEPT ![p] = j] /\ UNCHANGED <<calendar, faults>>
    BY <1>3 DEF AdoptLegacy, TypeOK
  <2>4. j \in Job /\ j.src = job[p].src
    BY <1>1, <2>2 DEF Job
  <2>. HIDE DEF j
  <2>. QED  BY <1>1, <1>2, <2>1, <2>3, <2>4, GoType DEF HistoryGrows
<1>4. CASE BeginCompletion(p)
  <2>. DEFINE todo == IF ~job[p].keep THEN {}
                      ELSE (({BaseSource(job[p].base)} \ {None}) \cup job[p].pending)
                             \ TaggedSources
              j == [job[p] EXCEPT !.todo = todo]
  <2>1. RepoTypeOK' /\ HistoryGrows
    BY <1>4, UnchangedRepo DEF TypeOK, BeginCompletion
  <2>2. BaseSource(job[p].base) \in Nat \cup {None}
    BY <1>1 DEF BaseSource, Stamp
  <2>3. todo \in SUBSET Nat
    BY <2>2, JobFacts
  <2>4. Goto(p, "complete") /\ job' = [job EXCEPT ![p] = j]
        /\ UNCHANGED <<calendar, faults>>
    BY <1>4 DEF BeginCompletion, TypeOK
  <2>. HIDE DEF todo
  <2>5. j \in Job /\ j.src = job[p].src
    BY <1>1, <2>3 DEF Job
  <2>. HIDE DEF j
  <2>. QED  BY <1>1, <1>2, <2>1, <2>4, <2>5, GoType DEF HistoryGrows
<1>5. CASE CompleteTag(p)
  <2>. DEFINE c == NextToComplete(job[p])
              m == CompletionEvidence(job[p], c)
              j == [job[p] EXCEPT !.todo = @ \ {c}, !.rec = @ \cup {m}]
  <2>1. /\ m # None /\ TagOrFail(p, m, j) /\ pc[p] = "complete"
        /\ UNCHANGED <<history, head, index, work, now, devs, calendar, faults>>
    BY <1>5 DEF CompleteTag, At
  <2>2. m \in Stamp
    BY <1>2, <2>1, EvidenceFacts, CommitFacts, StoreFacts DEF TypeOK, RepoTypeOK
  <2>. HIDE DEF m, c
  <2>3. j \in Job /\ j.src = job[p].src
    BY <1>1, <2>2 DEF Job
  <2>. HIDE DEF j
  <2>. QED  BY <2>1, <2>2, <2>3, TagOrFailType
<1>6. CASE PassOver(p)
  <2>. DEFINE j == [job[p] EXCEPT !.todo = @ \ {NextToComplete(job[p])}]
  <2>1. RepoTypeOK' /\ HistoryGrows
    BY <1>6, UnchangedRepo DEF TypeOK, PassOver
  <2>2. Goto(p, "complete") /\ job' = [job EXCEPT ![p] = j]
        /\ UNCHANGED <<calendar, faults>>
    BY <1>6 DEF PassOver, TypeOK
  <2>3. j \in Job /\ j.src = job[p].src
    BY <1>1 DEF Job
  <2>. HIDE DEF j
  <2>. QED  BY <1>1, <1>2, <2>1, <2>2, <2>3, GoType DEF HistoryGrows
<1>. QED  BY <1>3, <1>4, <1>5, <1>6

(* The selected sources: resumption, submission and storage. *)
LEMMA SelectionType ==
    ASSUME TypeOK, JobsConsistent, NEW p \in Proc,
           \/ Recover(p) \/ BeginSubmit(p) \/ Submit(p) \/ SubmitFails(p)
           \/ PersistProof(p) \/ PersistManifest(p) \/ FinishSelection(p)
    PROVE  TypeOK' /\ JobsConsistent' /\ HistoryGrows
<1>. DEFINE c == Min(job[p].todo)
<1>1. /\ job[p] \in Job /\ faults \in Nat /\ calendar \subseteq Stamp
      /\ job' = [job EXCEPT ![p] = job'[p]] /\ work \in Store
  BY JobFacts DEF TypeOK, RepoTypeOK, Recover, BeginSubmit, Submit, SubmitFails, End,
                  PersistProof, PersistManifest, FinishSelection
<1>2. job[p].src \in Commits /\ pc[p] \in {"select", "submit", "proof", "manifest"}
  BY DEF JobsConsistent, At, Recover, BeginSubmit, Submit, SubmitFails,
         PersistProof, PersistManifest, FinishSelection
<1>3. HistoryGrows
  BY DEF HistoryGrows, Commits, repoVars, Recover, BeginSubmit, Submit, SubmitFails,
         PersistProof, PersistManifest, FinishSelection
<1>4. job[p].src \in Commits'
  BY <1>2, <1>3 DEF HistoryGrows
<1>5. job[p].todo # {} => c \in Nat /\ StampOf(job[p], c) \in Stamp
  <2>1. job[p].todo # {} => c \in Nat
    BY JobFacts, MinType
  <2>. QED  BY <2>1, JobFacts, StampOfType
<1>6. {"select", "submit", "proof", "manifest", "durable"} \subseteq Steps
  BY DEF Steps
<1>. HIDE DEF c
<1>7. CASE Recover(p)
  <2>. DEFINE m == ManifestOf(work, c)
              j == [job[p] EXCEPT !.todo = @ \ {c}, !.done = @ \cup {c},
                                  !.rec = @ \cup {m}]
  <2>1. RepoTypeOK'
    BY <1>7, UnchangedRepo DEF TypeOK, Recover
  <2>2. Goto(p, "select") /\ job' = [job EXCEPT ![p] = j] /\ UNCHANGED <<calendar, faults>>
    BY <1>7 DEF Recover, TypeOK, c
  <2>3. job[p].todo # {} /\ HasPair(work, c)
    BY <1>7 DEF Recover, c
  <2>4. m \in Stamp
    BY <1>1, <2>3, ManifestFacts, StoreFacts
  <2>. HIDE DEF m
  <2>5. j \in Job /\ j.src = job[p].src
    BY <1>1, <1>5, <2>3, <2>4 DEF Job
  <2>. HIDE DEF j
  <2>. QED  BY <1>1, <1>3, <1>4, <1>6, <2>1, <2>2, <2>5, GoType
<1>8. CASE BeginSubmit(p)
  <2>1. RepoTypeOK'
    BY <1>8, UnchangedRepo DEF TypeOK, BeginSubmit
  <2>2. Goto(p, "submit") /\ job' = [job EXCEPT ![p] = job[p]] /\ job[p].todo # {}
        /\ UNCHANGED <<calendar, faults>>
    BY <1>8 DEF BeginSubmit, TypeOK
  <2>. QED  BY <1>1, <1>3, <1>4, <1>6, <2>1, <2>2, GoType
<1>9. CASE Submit(p)
  <2>1. RepoTypeOK'
    BY <1>9, UnchangedRepo DEF TypeOK, Submit
  <2>2. job[p].todo # {}
    BY <1>9 DEF Submit, At, JobsConsistent
  <2>3. Goto(p, "proof") /\ job' = [job EXCEPT ![p] = job[p]] /\ UNCHANGED faults
        /\ calendar' = calendar \cup {StampOf(job[p], c)}
    BY <1>9 DEF Submit, TypeOK, c
  <2>4. calendar' \subseteq Stamp
    BY <1>1, <1>5, <2>2, <2>3
  <2>. QED  BY <1>1, <1>3, <1>4, <1>6, <2>1, <2>2, <2>3, <2>4, GoType
<1>10. CASE SubmitFails(p)
  <2>1. RepoTypeOK'
    BY <1>10, UnchangedRepo DEF TypeOK, SubmitFails
  <2>2. job[p].todo # {}
    BY <1>10 DEF SubmitFails, At, JobsConsistent
  <2>3. calendar' = calendar \/ calendar' = calendar \cup {StampOf(job[p], c)}
    BY <1>10 DEF SubmitFails, c
  <2>4. calendar' \subseteq Stamp
    BY <1>1, <1>5, <2>2, <2>3
  <2>5. End(p, "failed") /\ "failed" \in Outcomes /\ faults' = faults + 1
    BY <1>10 DEF SubmitFails, Outcomes, Fault
  <2>. QED  BY <1>1, <1>3, <2>1, <2>4, <2>5, EndType DEF TypeOK
<1>11. CASE PersistProof(p)
  <2>1. job[p].todo # {}
    BY <1>11 DEF PersistProof, At, JobsConsistent
  <2>2. work' = [work EXCEPT !.ots = @ \cup {c}]
        /\ UNCHANGED <<history, head, index, tags, now, devs, calendar, faults>>
    BY <1>11 DEF PersistProof, c
  <2>3. work' \in Store
    BY <1>1, <1>5, <2>1, <2>2 DEF Store
  <2>4. RepoTypeOK'
    BY <2>2, <2>3 DEF TypeOK, RepoTypeOK
  <2>5. Goto(p, "manifest") /\ job' = [job EXCEPT ![p] = job[p]]
    BY <1>11 DEF PersistProof, TypeOK
  <2>. QED  BY <1>1, <1>3, <1>4, <1>6, <2>1, <2>2, <2>4, <2>5, GoType
<1>12. CASE PersistManifest(p)
  <2>. DEFINE j == [job[p] EXCEPT !.todo = @ \ {c}, !.done = @ \cup {c}]
  <2>1. job[p].todo # {}
    BY <1>12 DEF PersistManifest, At, JobsConsistent
  <2>2. work' = [work EXCEPT !.json = @ \cup {StampOf(job[p], c)}]
        /\ UNCHANGED <<history, head, index, tags, now, devs, calendar, faults>>
    BY <1>12 DEF PersistManifest, c
  <2>3. work' \in Store
    BY <1>1, <1>5, <2>1, <2>2 DEF Store
  <2>4. RepoTypeOK'
    BY <2>2, <2>3 DEF TypeOK, RepoTypeOK
  <2>5. Goto(p, "select") /\ job' = [job EXCEPT ![p] = j]
    BY <1>12 DEF PersistManifest, TypeOK, c
  <2>6. j \in Job /\ j.src = job[p].src
    BY <1>1, <1>5, <2>1 DEF Job
  <2>. HIDE DEF j
  <2>. QED  BY <1>1, <1>3, <1>4, <1>6, <2>2, <2>4, <2>5, <2>6, GoType
<1>13. CASE FinishSelection(p)
  <2>1. RepoTypeOK'
    BY <1>13, UnchangedRepo DEF TypeOK, FinishSelection
  <2>2. Goto(p, "durable") /\ job' = [job EXCEPT ![p] = job[p]]
        /\ UNCHANGED <<calendar, faults>>
    BY <1>13 DEF FinishSelection, TypeOK
  <2>. QED  BY <1>1, <1>3, <1>4, <1>6, <2>1, <2>2, GoType
<1>. QED  BY <1>7, <1>8, <1>9, <1>10, <1>11, <1>12, <1>13

(* The commit and the tags. *)
LEMMA DurabilityType ==
    ASSUME TypeOK, JobsConsistent, NEW p \in Proc,
           CheckDurable(p) \/ Stage(p) \/ Commit(p) \/ TagNext(p)
    PROVE  TypeOK' /\ JobsConsistent' /\ HistoryGrows
<1>1. /\ job[p] \in Job /\ faults \in Nat /\ calendar \subseteq Stamp
      /\ work \in Store /\ index \in Store /\ head \in Commits
      /\ job[p].done \in SUBSET Nat /\ job[p].todo \in SUBSET Nat
      /\ {"stage", "commit", "tag"} \subseteq Steps
  BY JobFacts DEF TypeOK, RepoTypeOK, Commits, Steps
<1>2. job[p].src \in Commits
  BY DEF JobsConsistent, At, CheckDurable, Stage, Commit, TagNext
<1>3. CASE CheckDurable(p)
  <2>. DEFINE j    == [job[p] EXCEPT !.todo = job[p].done]
              step == IF job[p].keep /\ ~PathsAreCommitted(job[p].done)
                      THEN "stage" ELSE "tag"
  <2>1. RepoTypeOK' /\ HistoryGrows
    BY <1>3, UnchangedRepo DEF TypeOK, CheckDurable
  <2>2. Goto(p, step) /\ job' = [job EXCEPT ![p] = j] /\ UNCHANGED <<calendar, faults>>
    BY <1>3 DEF CheckDurable, TypeOK
  <2>3. j \in Job /\ j.src = job[p].src /\ step \in {"stage", "tag"}
    BY <1>1 DEF Job
  <2>. HIDE DEF j, step
  <2>. QED  BY <1>1, <1>2, <2>1, <2>2, <2>3, GoType DEF HistoryGrows
<1>4. CASE Stage(p)
  <2>1. index' \in Store
    BY <1>1, <1>4, PutFacts DEF Stage, StagePaths
  <2>2. RepoTypeOK' /\ HistoryGrows
    BY <1>4, <2>1 DEF Stage, TypeOK, RepoTypeOK, HistoryGrows, Commits
  <2>3. Goto(p, "commit") /\ job' = [job EXCEPT ![p] = job[p]]
        /\ UNCHANGED <<calendar, faults>>
    BY <1>4 DEF Stage, TypeOK
  <2>. QED  BY <1>1, <1>2, <2>2, <2>3, GoType DEF HistoryGrows
<1>5. CASE Commit(p)
  <2>1. /\ NewCommit(Anc(head), TRUE, job[p].done, Put(Tree(head), work, job[p].done))
        /\ index' = Put(index, work, job[p].done)
        /\ UNCHANGED <<work, tags, now, devs, calendar, faults>>
    BY <1>5 DEF Commit, GeneratedProofCommit
  <2>2. /\ Put(Tree(head), work, job[p].done) \in Store
        /\ Anc(head) \in SUBSET Nat
    BY <1>1, CommitFacts, PutFacts DEF TypeOK
  <2>3. history' \in Seq(CommitInfo) /\ head' \in DOMAIN history' /\ HistoryGrows
    BY <1>1, <2>1, <2>2, NewCommitFacts DEF TypeOK, HistoryGrows
  <2>4. index' \in Store
    BY <1>1, <2>1, PutFacts
  <2>5. RepoTypeOK'
    BY <2>1, <2>3, <2>4 DEF TypeOK, RepoTypeOK
  <2>6. Goto(p, "tag") /\ job' = [job EXCEPT ![p] = job[p]]
    BY <1>5 DEF Commit, TypeOK
  <2>. QED  BY <1>1, <1>2, <2>1, <2>3, <2>5, <2>6, GoType DEF HistoryGrows
<1>6. CASE TagNext(p)
  <2>. DEFINE c == Min(job[p].todo)
              j == [job[p] EXCEPT !.todo = @ \ {c}]
  <2>1. /\ TagOrFail(p, StampOf(job[p], c), j) /\ pc[p] = "tag" /\ job[p].todo # {}
        /\ UNCHANGED <<history, head, index, work, now, devs, calendar, faults>>
    BY <1>6 DEF TagNext, At
  <2>2. StampOf(job[p], c) \in Stamp
    BY <1>1, <2>1, MinType, JobFacts, StampOfType
  <2>. HIDE DEF c
  <2>3. j \in Job /\ j.src = job[p].src
    BY <1>1 DEF Job
  <2>. HIDE DEF j
  <2>. QED  BY <2>1, <2>2, <2>3, TagOrFailType
<1>. QED  BY <1>3, <1>4, <1>5, <1>6

(* `git ots repair`. *)
LEMMA RepairType ==
    ASSUME TypeOK, JobsConsistent, NEW p \in Proc,
           AcquireForRepair(p) \/ Survey(p) \/ RepairPassesOver(p) \/ RepairTag(p)
    PROVE  TypeOK' /\ JobsConsistent' /\ HistoryGrows
<1>1. /\ job[p] \in Job /\ faults \in Nat /\ calendar \subseteq Stamp
      /\ work \in Store /\ head \in Commits /\ head \in Nat
      /\ work.ots \in SUBSET Nat /\ job[p].src \in Nat
      /\ job[p].done \in SUBSET Nat /\ job[p].todo \in SUBSET Nat
      /\ {"survey", "repair"} \subseteq Steps
  BY JobFacts, StoreFacts, CommitFacts DEF TypeOK, RepoTypeOK, Commits, Steps
<1>2. CASE AcquireForRepair(p)
  <2>1. RepoTypeOK' /\ HistoryGrows
    BY <1>2, UnchangedRepo DEF TypeOK, AcquireForRepair
  <2>2. pc' = [pc EXCEPT ![p] = "survey"] /\ job' = [job EXCEPT ![p] = job[p]]
    BY <1>2 DEF AcquireForRepair, TypeOK
  <2>3. pc' \in [Proc -> Steps] /\ job' \in [Proc -> Job] /\ JobsConsistent'
    BY <1>1, <2>1, <2>2, JobStep
  <2>. QED  BY <1>2, <2>1, <2>3 DEF AcquireForRepair, TypeOK
<1>3. CASE Survey(p)
  <2>. DEFINE todo == work.ots \ TaggedSources
              j    == [job[p] EXCEPT !.src = head, !.todo = todo]
  <2>1. RepoTypeOK' /\ HistoryGrows
    BY <1>3, UnchangedRepo DEF TypeOK, Survey
  <2>2. Goto(p, "repair") /\ job' = [job EXCEPT ![p] = j]
        /\ UNCHANGED <<calendar, faults>>
    BY <1>3 DEF Survey, TypeOK
  <2>3. todo \in SUBSET Nat
    BY <1>1
  <2>. HIDE DEF todo
  <2>4. j \in Job /\ j.src = head
    BY <1>1, <2>3 DEF Job
  <2>. HIDE DEF j
  <2>. QED  BY <1>1, <2>1, <2>2, <2>4, GoType DEF HistoryGrows
<1>4. CASE RepairPassesOver(p)
  <2>. DEFINE stored == Anc(job[p].src) \cap work.ots
  <2>1. RepoTypeOK' /\ HistoryGrows
    BY <1>4, UnchangedRepo DEF TypeOK, RepairPassesOver
  <2>2. PICK c \in job[p].todo :
          job' = [job EXCEPT ![p].todo = @ \ {c},
                             ![p].done = IF c \in stored THEN @ \cup {c} ELSE @]
    BY <1>4 DEF RepairPassesOver
  <2>. HIDE DEF stored
  <2>. DEFINE done == IF c \in stored THEN job[p].done \cup {c} ELSE job[p].done
              j    == [job[p] EXCEPT !.todo = job[p].todo \ {c}, !.done = done]
  <2>3. job' = [job EXCEPT ![p] = j] /\ Goto(p, "repair") /\ At(p, "repair")
        /\ UNCHANGED <<calendar, faults>>
    BY <1>4, <2>2 DEF RepairPassesOver, TypeOK
  <2>4. done \in SUBSET Nat
    BY <1>1
  <2>. HIDE DEF done
  <2>5. j \in Job /\ j.src = job[p].src
    BY <1>1, <2>4 DEF Job
  <2>. HIDE DEF j
  <2>6. j.src \in Commits'
    BY <2>1, <2>3, <2>5 DEF JobsConsistent, At, HistoryGrows
  <2>. QED  BY <1>1, <2>1, <2>3, <2>5, <2>6, GoType
<1>5. CASE RepairTag(p)
  <2>1. PICK c \in job[p].todo :
          /\ HasPair(work, c)
          /\ TagOrFail(p, ManifestOf(work, c), [job[p] EXCEPT !.todo = @ \ {c}])
    BY <1>5 DEF RepairTag, Repairable
  <2>. DEFINE j == [job[p] EXCEPT !.todo = @ \ {c}]
  <2>2. ManifestOf(work, c) \in Stamp
    BY <1>1, <2>1, ManifestFacts, StoreFacts
  <2>3. j \in Job /\ j.src = job[p].src /\ TagOrFail(p, ManifestOf(work, c), j)
    BY <1>1, <2>1 DEF Job
  <2>. HIDE DEF j
  <2>4. pc[p] = "repair"
        /\ UNCHANGED <<history, head, index, work, now, devs, calendar, faults>>
    BY <1>5 DEF RepairTag, At
  <2>. QED  BY <2>2, <2>3, <2>4, TagOrFailType
<1>. QED  BY <1>2, <1>3, <1>4, <1>5

-----------------------------------------------------------------------------
(* Type correctness: whatever the schedulers, the developer, the calendars *)
(* and the operating system do, run()'s state and the repository stay in   *)
(* their types, a run works on a commit that exists and never on an empty  *)
(* list.                                                                   *)

(* The state before the first invocation is well formed. *)
LEMMA TypeInit == Init => TypeOK /\ JobsConsistent
<1>. SUFFICES ASSUME Init PROVE TypeOK /\ JobsConsistent
  OBVIOUS
<1>1. EmptyStore \in Store
  BY EmptyStoreType
<1>. DEFINE root == [anc |-> {1}, generated |-> FALSE, claims |-> {},
                     time |-> 0, tree |-> EmptyStore]
<1>2. root \in CommitInfo
  <2>1. {1} \in SUBSET Nat /\ FALSE \in BOOLEAN /\ {} \in SUBSET Nat /\ 0 \in Nat
    OBVIOUS
  <2>. QED  BY <1>1, <2>1, Zenon DEF CommitInfo
<1>. HIDE DEF root
<1>3. <<root>> \in Seq(CommitInfo) /\ 1 \in DOMAIN <<root>>
  BY <1>2
<1>4. history = <<root>> /\ head = 1 /\ index = EmptyStore /\ work = EmptyStore
      /\ tags = {} /\ now = 0 /\ devs = 0
  BY DEF Init, RepoInit, root
<1>5. RepoTypeOK
  BY <1>1, <1>3, <1>4 DEF RepoTypeOK
<1>6. pc \in [Proc -> Steps] /\ job \in [Proc -> Job] /\ outcome \in [Proc -> Outcomes]
  BY NoJobType DEF Init, Steps, Outcomes
<1>7. JobsConsistent
  BY DEF Init, JobsConsistent
<1>. QED  BY <1>5, <1>6, <1>7, RunAssumption DEF Init, TypeOK

(* Every step, of an invocation, of its surroundings or of the developer, *)
(* keeps the state well formed and only adds to the history.              *)
LEMMA TypeStep == TypeOK /\ JobsConsistent /\ Next => TypeOK' /\ JobsConsistent' /\ HistoryGrows
<1>. SUFFICES ASSUME TypeOK, JobsConsistent, Next
              PROVE  TypeOK' /\ JobsConsistent' /\ HistoryGrows
  OBVIOUS
<1>1. CASE \E p \in Proc : Acquire(p) \/ AcquireForRepair(p) \/ Step(p) \/ Disturb(p)
  <2>1. PICK p \in Proc : Acquire(p) \/ AcquireForRepair(p) \/ Step(p) \/ Disturb(p)
    BY <1>1
  <2>2. \/ Acquire(p) \/ TakeSnapshot(p) \/ Scan(p)
        \/ AdoptLegacy(p) \/ BeginCompletion(p) \/ CompleteTag(p) \/ PassOver(p)
        \/ Recover(p) \/ BeginSubmit(p) \/ Submit(p) \/ SubmitFails(p)
        \/ PersistProof(p) \/ PersistManifest(p) \/ FinishSelection(p)
        \/ CheckDurable(p) \/ Stage(p) \/ Commit(p) \/ TagNext(p)
        \/ AcquireForRepair(p) \/ Survey(p) \/ RepairPassesOver(p) \/ RepairTag(p)
        \/ Ending(p)
    BY <2>1 DEF Step, Disturb, Ending
  <2>. QED  BY <2>2, StartType, CompletionType, SelectionType, DurabilityType, RepairType,
               EndingType
<1>2. CASE DevStep /\ UNCHANGED runVars
  <2>1. RepoTypeOK' /\ HistoryGrows
    BY <1>2, DevType DEF TypeOK
  <2>2. TypeOK'
    BY <1>2, <2>1 DEF TypeOK, runVars
  <2>. QED  BY <1>2, <2>1, <2>2 DEF JobsConsistent, runVars, HistoryGrows
<1>3. CASE EnableProofCommit
  <2>1. RepoTypeOK' /\ HistoryGrows
    BY <1>3 DEF EnableProofCommit, Dev, TypeOK, RepoTypeOK, HistoryGrows, Commits
  <2>2. TypeOK'
    BY <1>3, <2>1 DEF EnableProofCommit, Dev, TypeOK
  <2>. QED  BY <1>3, <2>1, <2>2 DEF EnableProofCommit, JobsConsistent, HistoryGrows
<1>. QED  BY <1>1, <1>2, <1>3 DEF Next, DevStep

(* A stuttering step keeps the state well formed. *)
LEMMA TypeStutter ==
    TypeOK /\ JobsConsistent /\ UNCHANGED vars => TypeOK' /\ JobsConsistent'
  BY DEF TypeOK, RepoTypeOK, JobsConsistent, vars, repoVars, runVars, Commits

(* In every reachable state all variables have their types, a run past its  *)
(* snapshot works on a commit that exists, and the steps of run() that take *)
(* the head of a list find one there.                                       *)
LEMMA TypeInvariant == Spec => [](TypeOK /\ JobsConsistent)
<1>1. TypeOK /\ JobsConsistent /\ [Next]_vars => (TypeOK /\ JobsConsistent)'
  BY TypeStep, TypeStutter
<1>. QED  BY TypeInit, <1>1, PTL DEF Spec

(* Every reachable state of the repository and of the overlapping runs is    *)
(* well typed, for all policies, faults, crash points and developer actions. *)
THEOREM TypeCorrect == Spec => []TypeOK
  BY TypeInvariant, PTL

-----------------------------------------------------------------------------
(* Mutual exclusion: at most one invocation is past the lock, because the  *)
(* lock is held by exactly the one that is.                                *)

(* The lock protocol is inductive: acquiring needs a free lock, and every end *)
(* of a run, a kill included, gives it back.                                  *)
LEMMA LockStep == TypeOK /\ LockHeld /\ [Next]_vars => LockHeld'
<1>. SUFFICES ASSUME TypeOK, LockHeld, [Next]_vars PROVE LockHeld'
  OBVIOUS
<1>1. pc \in [Proc -> Steps] /\ lock \in Proc \cup {None}
  BY DEF TypeOK
<1>2. ASSUME NEW p \in Proc, NEW how, End(p, how), ~At(p, "idle")
      PROVE  LockHeld'
  <2>1. lock = p /\ pc' = [pc EXCEPT ![p] = "idle"] /\ lock' = None
    BY <1>2 DEF LockHeld, End
  <2>. QED  BY <1>1, <2>1, RunAssumption DEF LockHeld, At
<1>3. ASSUME NEW p \in Proc, NEW step, Goto(p, step), step # "idle", ~At(p, "idle")
      PROVE  LockHeld'
  BY <1>1, <1>3 DEF LockHeld, At, Goto
<1>4. ASSUME NEW p \in Proc, NEW stamp, NEW j, TagOrFail(p, stamp, j), ~At(p, "idle")
      PROVE  LockHeld'
  BY <1>2, <1>4 DEF TagOrFail, LockHeld, At
<1>5. CASE \E p \in Proc : Acquire(p) \/ AcquireForRepair(p)
  <2>1. PICK p \in Proc : /\ lock = None /\ lock' = p
                          /\ \E step \in {"snapshot", "survey"} :
                               pc' = [pc EXCEPT ![p] = step]
    BY <1>5 DEF Acquire, AcquireForRepair
  <2>2. \A q \in Proc : pc[q] = "idle"
    BY <2>1, RunAssumption DEF LockHeld, At
  <2>3. \A q \in Proc : pc'[q] = "idle" <=> q # p
    BY <1>1, <2>1, <2>2
  <2>. QED  BY <2>1, <2>3 DEF LockHeld, At
<1>6. CASE \E p \in Proc : Ending(p)
  <2>1. PICK p \in Proc : Ending(p)
    BY <1>6
  <2>2. ~At(p, "idle")
    BY <2>1, CrashAssumption
       DEF Ending, At, RefuseReplay, RefuseState, FailInconsistent, FinishCompletion,
           FailSelected, PersistFails, StageFails, CommitRefused, CommitVetoed,
           FinishRun, FinishRepair, Crash
  <2>. QED  BY <1>2, <2>1, <2>2, EndingFacts
<1>7. CASE \E p \in Proc : TakeSnapshot(p) \/ Scan(p) \/ AdoptLegacy(p)
                           \/ BeginCompletion(p) \/ PassOver(p) \/ Recover(p)
                           \/ BeginSubmit(p) \/ Submit(p) \/ PersistProof(p)
                           \/ PersistManifest(p) \/ FinishSelection(p)
                           \/ CheckDurable(p) \/ Stage(p) \/ Commit(p)
                           \/ Survey(p) \/ RepairPassesOver(p)
  <2>1. PICK p \in Proc : \/ TakeSnapshot(p) \/ Scan(p) \/ AdoptLegacy(p)
                           \/ BeginCompletion(p) \/ PassOver(p) \/ Recover(p)
                           \/ BeginSubmit(p) \/ Submit(p) \/ PersistProof(p)
                           \/ PersistManifest(p) \/ FinishSelection(p)
                           \/ CheckDurable(p) \/ Stage(p) \/ Commit(p)
                           \/ Survey(p) \/ RepairPassesOver(p)
    BY <1>7
  <2>2. SUFFICES \E step : Goto(p, step) /\ step # "idle" /\ ~At(p, "idle")
    BY <1>3
  <2>3. CASE TakeSnapshot(p) \/ BeginSubmit(p) \/ Submit(p) \/ PersistProof(p)
             \/ PersistManifest(p) \/ FinishSelection(p) \/ Survey(p)
    BY <2>3 DEF TakeSnapshot, BeginSubmit, Submit, PersistProof, PersistManifest,
                FinishSelection, Survey, At
  <2>4. CASE Scan(p) \/ CheckDurable(p)
    BY <2>4 DEF Scan, CheckDurable, At
  <2>5. CASE AdoptLegacy(p) \/ BeginCompletion(p) \/ PassOver(p) \/ Recover(p)
    BY <2>5 DEF AdoptLegacy, BeginCompletion, PassOver, Recover, At
  <2>6. CASE Stage(p) \/ Commit(p)
    BY <2>6 DEF Stage, Commit, At
  <2>7. CASE RepairPassesOver(p)
    BY <2>7 DEF RepairPassesOver, At
  <2>. QED  BY <2>1, <2>3, <2>4, <2>5, <2>6, <2>7
<1>8. CASE \E p \in Proc : CompleteTag(p) \/ TagNext(p) \/ RepairTag(p)
  <2>1. PICK p \in Proc : CompleteTag(p) \/ TagNext(p) \/ RepairTag(p)
    BY <1>8
  <2>2. ~At(p, "idle")
    BY <2>1 DEF CompleteTag, TagNext, RepairTag, At
  <2>3. \E stamp, j : TagOrFail(p, stamp, j)
    BY <2>1, Zenon DEF CompleteTag, TagNext, RepairTag
  <2>. QED  BY <1>4, <2>2, <2>3
<1>9. CASE \E p \in Proc : SubmitFails(p)
  BY <1>2, <1>9 DEF SubmitFails, At
<1>10. CASE UNCHANGED <<pc, lock>>
  BY <1>10 DEF LockHeld, At
<1>11. (DevStep /\ UNCHANGED runVars) \/ EnableProofCommit \/ UNCHANGED vars
        => UNCHANGED <<pc, lock>>
  BY DEF runVars, vars, EnableProofCommit
<1>. QED  BY <1>5, <1>6, <1>7, <1>8, <1>9, <1>10, <1>11
          DEF Next, Step, Disturb, Ending, DevStep

LEMMA LockInvariant == Spec => []LockHeld
<1>1. Init => LockHeld
  BY RunAssumption DEF Init, LockHeld, At
<1>. QED  BY TypeInvariant, LockStep, <1>1, PTL DEF Spec

(* RepositoryLock does its job: whatever crashes and however many schedulers *)
(* overlap, at most one invocation is ever between the lock and its release. *)
THEOREM MutualExclusion == Spec => []Exclusive
<1>1. LockHeld => Exclusive
  BY DEF LockHeld, Exclusive
<1>. QED  BY LockInvariant, <1>1, PTL

(* An invocation's step moves that invocation only. *)
LEMMA OthersStay ==
    ASSUME TypeOK, NEW p \in Proc,
           Acquire(p) \/ AcquireForRepair(p) \/ Step(p) \/ Disturb(p),
           NEW q \in Proc, q # p
    PROVE  pc'[q] = pc[q] /\ job'[q] = job[q]
<1>1. DOMAIN pc = Proc /\ DOMAIN job = Proc
  BY DEF TypeOK
<1>2. ASSUME NEW how, End(p, how)
      PROVE  pc'[q] = pc[q] /\ job'[q] = job[q]
  BY <1>1, <1>2 DEF End
<1>3. CASE Ending(p) \/ SubmitFails(p)
  <2>1. \E how : End(p, how)
    BY <1>3, EndingFacts DEF SubmitFails
  <2>. QED  BY <1>2, <2>1
<1>4. CASE CompleteTag(p) \/ TagNext(p) \/ RepairTag(p)
  <2>1. \E stamp, j : TagOrFail(p, stamp, j)
    BY <1>4, Zenon DEF CompleteTag, TagNext, RepairTag
  <2>. QED  BY <1>1, <1>2, <2>1 DEF TagOrFail
<1>5. CASE Acquire(p) \/ AcquireForRepair(p) \/ BeginSubmit(p) \/ Submit(p)
           \/ PersistProof(p) \/ FinishSelection(p) \/ Stage(p) \/ Commit(p)
  BY <1>1, <1>5 DEF Acquire, AcquireForRepair, BeginSubmit, Submit, PersistProof,
                    FinishSelection, Stage, Commit, Goto
<1>6. CASE TakeSnapshot(p) \/ Scan(p)
  BY <1>1, <1>6 DEF TakeSnapshot, Scan, Goto
<1>7. CASE AdoptLegacy(p) \/ BeginCompletion(p) \/ PassOver(p)
  BY <1>1, <1>7 DEF AdoptLegacy, BeginCompletion, PassOver, Goto
<1>8. CASE Recover(p) \/ PersistManifest(p) \/ CheckDurable(p)
  BY <1>1, <1>8 DEF Recover, PersistManifest, CheckDurable, Goto
<1>9. CASE Survey(p) \/ RepairPassesOver(p)
  BY <1>1, <1>9 DEF Survey, RepairPassesOver, Goto
<1>. QED  BY <1>3, <1>4, <1>5, <1>6, <1>7, <1>8, <1>9 DEF Step, Disturb, Ending

(* While one invocation takes a step the others are outside the lock, so   *)
(* nothing a run has read under the lock is changed by another one.        *)
LEMMA OthersIdle ==
    ASSUME TypeOK, LockHeld, NEW p \in Proc,
           Acquire(p) \/ AcquireForRepair(p) \/ Step(p) \/ Disturb(p),
           NEW q \in Proc, q # p
    PROVE  pc'[q] = "idle"
<1>1. CASE lock = None
  <2>1. pc[q] = "idle"
    BY <1>1, RunAssumption DEF LockHeld, At
  <2>. QED  BY <2>1, OthersStay
<1>2. CASE lock # None
  <2>1. ~Acquire(p) /\ ~AcquireForRepair(p)
    BY <1>2 DEF Acquire, AcquireForRepair
  <2>2. pc[p] # "idle"
    <3>1. CASE Ending(p) \/ SubmitFails(p)
      BY <3>1, CrashAssumption
         DEF Ending, At, RefuseReplay, RefuseState, FailInconsistent, FinishCompletion,
             FailSelected, PersistFails, StageFails, CommitRefused, CommitVetoed,
             FinishRun, FinishRepair, Crash, SubmitFails
    <3>2. CASE ~(Ending(p) \/ SubmitFails(p))
      BY <2>1, <3>2
         DEF Step, Disturb, Ending, At, TakeSnapshot, Scan, AdoptLegacy, BeginCompletion,
             CompleteTag, PassOver, Recover, BeginSubmit, Submit, PersistProof,
             PersistManifest, FinishSelection, CheckDurable, Stage, Commit, TagNext,
             Survey, RepairPassesOver, RepairTag
    <3>. QED  BY <3>1, <3>2
  <2>3. lock = p
    BY <2>2 DEF LockHeld, At
  <2>4. pc[q] = "idle"
    BY <2>3 DEF LockHeld, At
  <2>. QED  BY <2>4, OthersStay
<1>. QED  BY <1>1, <1>2

-----------------------------------------------------------------------------
(* Truthful tags: every stamp a run writes into a tag is one the calendars *)
(* accepted.  The invariant says so of the manifests in the working tree,  *)
(* in the index and in every commit too, since a later run recovers from   *)
(* them, and of the stamps a run has yet to write.                         *)

(* Recovering more evidence never makes a stamp less true. *)
LEMMA StampStable ==
    ASSUME NEW j, NEW k, NEW c, NEW accepted, StampOf(j, c) \in accepted,
           j.rec \subseteq k.rec, k.rec \subseteq accepted, k.at = j.at, k.trig = j.trig
    PROVE  StampOf(k, c) \in accepted
<1>1. CASE \E m \in k.rec : m.src = c
  BY <1>1, StampOfFacts
<1>2. CASE \A m \in k.rec : m.src # c
  <2>1. StampOf(j, c) = [src |-> c, at |-> j.at, trig |-> j.trig]
    BY <1>2, StampOfFacts
  <2>2. StampOf(k, c) = [src |-> c, at |-> k.at, trig |-> k.trig]
    BY <1>2, StampOfFacts
  <2>. QED  BY <2>1, <2>2
<1>. QED  BY <1>1, <1>2

(* A stamp the calendars accepted stays accepted. *)
LEMMA JobAttestedGrows ==
    ASSUME NEW j, NEW step, NEW accepted, NEW more, accepted \subseteq more,
           JobAttested(j, step, accepted)
    PROVE  JobAttested(j, step, more)
  BY DEF JobAttested

(* What one invocation's step has to establish for its own job. *)
LEMMA AttestedStep ==
    ASSUME TypeOK, JobsAttested, calendar \subseteq calendar', NEW p \in Proc,
           NEW step, NEW j,
           pc' = [pc EXCEPT ![p] = step], job' = [job EXCEPT ![p] = j],
           JobAttested(j, step, calendar')
    PROVE  JobsAttested'
<1>1. pc \in [Proc -> Steps] /\ job \in [Proc -> Job]
  BY DEF TypeOK
<1>2. ASSUME NEW q \in Proc PROVE JobAttested(job'[q], pc'[q], calendar')
  <2>1. CASE q = p
    BY <1>1, <2>1
  <2>2. CASE q # p
    <3>1. pc'[q] = pc[q] /\ job'[q] = job[q]
      BY <1>1, <2>2
    <3>2. JobAttested(job[q], pc[q], calendar)
      BY DEF JobsAttested
    <3>. QED  BY <3>1, <3>2, JobAttestedGrows
  <2>. QED  BY <2>1, <2>2
<1>. QED  BY <1>2 DEF JobsAttested

(* A run that ends has nothing left to write. *)
LEMMA EndAttested ==
    ASSUME TypeOK, JobsAttested, calendar \subseteq calendar', NEW p \in Proc,
           NEW how, End(p, how)
    PROVE  JobsAttested'
<1>1. JobAttested(NoJob, "idle", calendar')
  BY DEF JobAttested, NoJob
<1>. QED  BY <1>1, AttestedStep DEF End

(* A step that leaves the repository alone leaves its manifests attested. *)
LEMMA StoresUntouched ==
    ASSUME StoresAttested, calendar \subseteq calendar', UNCHANGED repoVars
    PROVE  StoresAttested'
  BY DEF StoresAttested, repoVars, Commits, Tree

(* A commit whose tree comes from attested stores is attested. *)
LEMMA CommitAttested ==
    ASSUME TypeOK, StoresAttested, HistoryGrows, NEW tree,
           tree.json \subseteq calendar,
           \A c \in Commits' \ Commits : history'[c].tree = tree
    PROVE  \A c \in Commits' : history'[c].tree.json \subseteq calendar
  BY DEF HistoryGrows, StoresAttested, Tree

(* The developer moves manifests around and never writes one. *)
LEMMA DevAttested ==
    ASSUME TypeOK, StoresAttested, DevStep, UNCHANGED calendar
    PROVE  StoresAttested'
<1>. USE DEF Dev
<1>1. RepoTypeOK /\ HistoryGrows /\ head \in Commits
  BY DevType DEF TypeOK, RepoTypeOK, Commits
<1>2. /\ Anc(head) \in SUBSET Nat /\ IsGenerated(head) \in BOOLEAN
      /\ history[head].claims \in SUBSET Nat
      /\ index \in Store /\ work \in Store /\ tags' = tags
  BY <1>1, CommitFacts DEF RepoTypeOK, DevStep, DevCommit, DevAmend, DevReset, DevMerge,
                          DevDrop, DevClean, Tick
<1>3. ASSUME NEW ancestry \in SUBSET Nat, NEW generated \in BOOLEAN,
             NEW claims \in SUBSET Nat, NEW tree \in Store,
             NewCommit(ancestry, generated, claims, tree),
             tree.json \subseteq calendar, index'.json \subseteq calendar,
             work'.json \subseteq calendar
      PROVE  StoresAttested'
  BY <1>1, <1>2, <1>3, NewCommitFacts, CommitAttested DEF StoresAttested, Tree
<1>4. ASSUME UNCHANGED history, index'.json \subseteq calendar,
             work'.json \subseteq calendar
      PROVE  StoresAttested'
  BY <1>2, <1>4 DEF StoresAttested, Commits, Tree
<1>5. work.json \subseteq calendar /\ index.json \subseteq calendar
      /\ \A c \in Commits : Tree(c).json \subseteq calendar
  BY DEF StoresAttested
<1>6. CASE DevCommit
  <2>1. PICK all \in BOOLEAN :
          /\ NewCommit(Anc(head), FALSE, {}, IF all THEN work ELSE index)
          /\ index' = IF all THEN work ELSE index
    BY <1>6 DEF DevCommit
  <2>2. CASE all
    BY <1>2, <1>3, <1>5, <1>6, <2>1, <2>2 DEF DevCommit
  <2>3. CASE ~all
    BY <1>2, <1>3, <1>5, <1>6, <2>1, <2>3 DEF DevCommit
  <2>. QED  BY <2>2, <2>3
<1>7. CASE DevAmend
  <2>1. Anc(head) \ {head} \in SUBSET Nat
    BY <1>2
  <2>. QED  BY <1>2, <1>3, <1>5, <1>7, <2>1 DEF DevAmend
<1>8. CASE DevReset
  <2>1. PICK c \in Commits :
          /\ index' = Tree(c)
          /\ work'.json = {m \in {m \in work.json : m.src \notin Described(index)} :
                              m.src \notin Described(Tree(c))} \cup Tree(c).json
    BY <1>8 DEF DevReset
  <2>. QED  BY <1>4, <1>5, <1>8, <2>1 DEF DevReset
<1>9. CASE DevMerge
  <2>1. PICK c \in Commits :
          LET gain == [ots  |-> Tree(c).ots \ Tree(head).ots,
                       json |-> {m \in Tree(c).json : m.src \notin Described(Tree(head))}]
              With(store) == [ots  |-> store.ots \cup gain.ots,
                              json |-> store.json \cup gain.json]
          IN  /\ NewCommit(Anc(head) \cup Anc(c), FALSE, {}, With(Tree(head)))
              /\ index' = With(Tree(head))
              /\ work' = With(work)
    BY <1>9 DEF DevMerge
  <2>. DEFINE With(store) ==
         [ots  |-> store.ots \cup (Tree(c).ots \ Tree(head).ots),
          json |-> store.json \cup {m \in Tree(c).json : m.src \notin Described(Tree(head))}]
  <2>2. /\ NewCommit(Anc(head) \cup Anc(c), FALSE, {}, With(Tree(head)))
        /\ index' = With(Tree(head)) /\ work' = With(work)
    BY <2>1
  <2>3. /\ Tree(c).json \in SUBSET Stamp /\ Tree(c).ots \in SUBSET Nat
        /\ Anc(c) \in SUBSET Nat /\ Tree(head) \in Store
    BY <1>1, CommitFacts
  <2>4. With(Tree(head)) \in Store
    BY <2>3 DEF Store
  <2>5. With(Tree(head)).json \subseteq calendar /\ With(work).json \subseteq calendar
    BY <1>1, <1>5
  <2>. HIDE DEF With
  <2>6. Anc(head) \cup Anc(c) \in SUBSET Nat
    BY <1>2, <2>3
  <2>. QED  BY <1>3, <2>2, <2>4, <2>5, <2>6
<1>10. CASE DevDrop
  <2>1. PICK c \in index.ots \cap Described(index) :
          /\ index' = Put(index, EmptyStore, {c})
          /\ work' = Put(work, EmptyStore, {c})
          /\ NewCommit(Anc(head), FALSE, {}, index')
    BY <1>10 DEF DevDrop
  <2>2. index' \in Store /\ index'.json \subseteq calendar /\ work'.json \subseteq calendar
    BY <1>2, <1>5, <2>1, EmptyStoreType, PutFacts
  <2>. QED  BY <1>2, <1>3, <2>1, <2>2
<1>11. CASE DevClean
  BY <1>4, <1>5, <1>11 DEF DevClean
<1>12. CASE Tick
  BY <1>4, <1>5, <1>12 DEF Tick
<1>. QED  BY <1>6, <1>7, <1>8, <1>9, <1>10, <1>11, <1>12 DEF DevStep

(* No failure, and no end of a run, writes a manifest or a tag. *)
LEMMA EndingAttested ==
    ASSUME TypeOK, StoresAttested, JobsAttested, NEW p \in Proc,
           Ending(p) \/ SubmitFails(p)
    PROVE  StoresAttested' /\ JobsAttested'
<1>1. /\ \E how : End(p, how)
      /\ UNCHANGED repoVars /\ calendar \subseteq calendar'
  <2>1. CASE Ending(p)
    BY <2>1, EndingFacts
  <2>2. CASE SubmitFails(p)
    BY <2>2 DEF SubmitFails
  <2>. QED  BY <2>1, <2>2
<1>. QED  BY <1>1, EndAttested, StoresUntouched

(* Taking the lock, the snapshot and the in-flight scan: the sources a run *)
(* adopts come with manifests of accepted submissions.                     *)
LEMMA StartAttested ==
    ASSUME TypeOK, StoresAttested, JobsAttested, NEW p \in Proc,
           Acquire(p) \/ TakeSnapshot(p) \/ Scan(p)
    PROVE  StoresAttested' /\ JobsAttested'
<1>1. UNCHANGED <<repoVars, calendar>> /\ job[p] \in Job
  BY JobFacts DEF Acquire, TakeSnapshot, Scan
<1>2. StoresAttested' /\ calendar \subseteq calendar'
  BY <1>1, StoresUntouched
<1>3. job[p].rec \subseteq calendar
  BY DEF JobsAttested, JobAttested
<1>4. CASE Acquire(p)
  <2>. DEFINE j == [job[p] EXCEPT !.clock = now, !.keep = proofCommit]
  <2>1. pc' = [pc EXCEPT ![p] = "snapshot"] /\ job' = [job EXCEPT ![p] = j]
    BY <1>4 DEF Acquire, TypeOK
  <2>2. j.rec = job[p].rec
    BY <1>1 DEF Job
  <2>. HIDE DEF j
  <2>3. JobAttested(j, "snapshot", calendar')
    BY <1>2, <1>3, <2>2 DEF JobAttested
  <2>. QED  BY <1>2, <2>1, <2>3, AttestedStep
<1>5. CASE TakeSnapshot(p)
  <2>1. PICK j : /\ pc' = [pc EXCEPT ![p] = "scan"] /\ job' = [job EXCEPT ![p] = j]
                 /\ j.rec = job[p].rec
    <3>. DEFINE due == DecisionFor(head, job[p].clock)
                base == Baseline(head)
                pend == PendingMeaningful(head, BaseSource(base))
                k == [job[p] EXCEPT !.src = head, !.base = base, !.pending = pend,
                                    !.at = now, !.decision = due.commits,
                                    !.trig = due.trig]
    <3>1. job' = [job EXCEPT ![p] = k] /\ pc' = [pc EXCEPT ![p] = "scan"]
      BY <1>5 DEF TakeSnapshot, Goto, TypeOK
    <3>. HIDE DEF due, base, pend
    <3>2. k.rec = job[p].rec
      BY <1>1 DEF Job
    <3>. HIDE DEF k
    <3>. QED  BY <3>1, <3>2
  <2>2. JobAttested(j, "scan", calendar')
    BY <1>2, <1>3, <2>1 DEF JobAttested
  <2>. QED  BY <1>2, <2>1, <2>2, AttestedStep
<1>6. CASE Scan(p)
  <2>. DEFINE fl   == InFlight(job[p].src, job[p].decision)
              rec  == {m \in work.json : m.src \in fl}
              step == IF job[p].decision = {} /\ fl = {} THEN "adopt" ELSE "select"
  <2>1. PICK j : /\ pc' = [pc EXCEPT ![p] = step] /\ job' = [job EXCEPT ![p] = j]
                 /\ j.rec = rec /\ j.done = fl
    <3>. DEFINE todo == IF fl = {} THEN job[p].decision ELSE {}
                k == [job[p] EXCEPT !.inflight = fl, !.done = fl, !.todo = todo,
                                    !.rec = rec]
    <3>1. job' = [job EXCEPT ![p] = k] /\ pc' = [pc EXCEPT ![p] = step]
      BY <1>6 DEF Scan, Goto, TypeOK
    <3>. HIDE DEF fl, rec, step, todo
    <3>2. k.rec = rec /\ k.done = fl
      BY <1>1 DEF Job
    <3>. HIDE DEF k
    <3>. QED  BY <3>1, <3>2
  <2>2. rec \subseteq calendar'
    BY <1>2 DEF StoresAttested
  <2>3. \A c \in fl : \E m \in rec : m.src = c
    BY DEF InFlight, HasPair, Described
  <2>4. step \in {"adopt", "select"}
    OBVIOUS
  <2>. HIDE DEF fl, rec, step
  <2>5. \A c \in j.done : StampOf(j, c) \in calendar'
    BY <2>1, <2>2, <2>3, StampOfFacts
  <2>6. JobAttested(j, step, calendar')
    BY <2>1, <2>2, <2>4, <2>5 DEF JobAttested
  <2>. QED  BY <1>2, <2>1, <2>6, AttestedStep
<1>. QED  BY <1>2, <1>4, <1>5, <1>6

(* A tagging step that writes an accepted stamp, or ends the run. *)
LEMMA TagOrFailAttested ==
    ASSUME TypeOK, StoresAttested, JobsAttested, NEW p \in Proc,
           NEW stamp \in calendar, NEW j, TagOrFail(p, stamp, j),
           JobAttested(j, pc[p], calendar),
           UNCHANGED <<history, head, index, work, now, devs, calendar>>
    PROVE  StoresAttested' /\ JobsAttested'
<1>1. CASE TagCollides(stamp)
  <2>1. End(p, "failed") /\ UNCHANGED repoVars /\ calendar \subseteq calendar'
    BY <1>1 DEF TagOrFail, repoVars
  <2>. QED  BY <2>1, EndAttested, StoresUntouched
<1>2. CASE ~TagCollides(stamp)
  <2>1. tags' = tags \cup {stamp} /\ job' = [job EXCEPT ![p] = j] /\ UNCHANGED pc
    BY <1>2 DEF TagOrFail
  <2>2. pc' = [pc EXCEPT ![p] = pc[p]]
    BY <2>1 DEF TypeOK
  <2>3. StoresAttested'
    BY <2>1 DEF StoresAttested, Commits, Tree
  <2>. QED  BY <2>1, <2>2, <2>3, AttestedStep
<1>. QED  BY <1>1, <1>2

(* Completing the tags of earlier runs uses the recorded evidence and nothing *)
(* else.                                                                      *)
LEMMA CompletionAttested ==
    ASSUME TypeOK, JobsConsistent, StoresAttested, JobsAttested, NEW p \in Proc,
           AdoptLegacy(p) \/ BeginCompletion(p) \/ CompleteTag(p) \/ PassOver(p)
    PROVE  StoresAttested' /\ JobsAttested'
<1>1. /\ UNCHANGED calendar /\ calendar \subseteq calendar' /\ job[p] \in Job
      /\ job[p].rec \subseteq calendar
  BY JobFacts DEF AdoptLegacy, BeginCompletion, CompleteTag, PassOver,
                  JobsAttested, JobAttested
<1>2. CASE AdoptLegacy(p)
  <2>. DEFINE j == [job[p] EXCEPT !.done = {job[p].base.src}]
  <2>1. pc' = [pc EXCEPT ![p] = "stage"] /\ job' = [job EXCEPT ![p] = j]
        /\ UNCHANGED repoVars /\ pc[p] = "adopt"
    BY <1>2 DEF AdoptLegacy, Goto, TypeOK, At
  <2>2. j.rec = job[p].rec /\ j.todo = job[p].todo
    BY <1>1 DEF Job
  <2>3. job[p].todo = {}
    BY <2>1 DEF JobsConsistent
  <2>. HIDE DEF j
  <2>4. JobAttested(j, "stage", calendar')
    BY <1>1, <2>2, <2>3 DEF JobAttested
  <2>. QED  BY <1>1, <2>1, <2>4, AttestedStep, StoresUntouched
<1>3. CASE BeginCompletion(p) \/ PassOver(p)
  <2>1. PICK todo : /\ pc' = [pc EXCEPT ![p] = "complete"] /\ UNCHANGED repoVars
                    /\ job' = [job EXCEPT ![p] = [job[p] EXCEPT !.todo = todo]]
    BY <1>3 DEF BeginCompletion, PassOver, Goto, TypeOK
  <2>. DEFINE j == [job[p] EXCEPT !.todo = todo]
  <2>2. j.rec = job[p].rec
    BY <1>1 DEF Job
  <2>. HIDE DEF j
  <2>3. JobAttested(j, "complete", calendar')
    BY <1>1, <2>2 DEF JobAttested
  <2>4. job' = [job EXCEPT ![p] = j]
    BY <2>1 DEF j
  <2>. QED  BY <1>1, <2>1, <2>3, <2>4, AttestedStep, StoresUntouched
<1>4. CASE CompleteTag(p)
  <2>. DEFINE c == NextToComplete(job[p])
              m == CompletionEvidence(job[p], c)
              j == [job[p] EXCEPT !.todo = @ \ {c}, !.rec = @ \cup {m}]
  <2>1. /\ m # None /\ TagOrFail(p, m, j) /\ pc[p] = "complete"
        /\ UNCHANGED <<history, head, index, work, now, devs>>
    BY <1>4 DEF CompleteTag, At
  <2>2. m \in calendar
    <3>1. job[p].src \in Commits
      BY <2>1 DEF JobsConsistent
    <3>. QED  BY <2>1, <3>1, EvidenceFacts DEF StoresAttested
  <2>. HIDE DEF m, c
  <2>3. j.rec = job[p].rec \cup {m}
    BY <1>1 DEF Job
  <2>. HIDE DEF j
  <2>4. JobAttested(j, pc[p], calendar)
    BY <1>1, <2>1, <2>2, <2>3 DEF JobAttested
  <2>. QED  BY <1>1, <2>1, <2>2, <2>4, TagOrFailAttested
<1>. QED  BY <1>2, <1>3, <1>4

(* Recovering, submitting and persisting: a manifest is written only after *)
(* its submission was accepted.                                            *)
LEMMA SelectionAttested ==
    ASSUME TypeOK, StoresAttested, JobsAttested, NEW p \in Proc,
           \/ Recover(p) \/ BeginSubmit(p) \/ Submit(p)
           \/ PersistProof(p) \/ PersistManifest(p) \/ FinishSelection(p)
    PROVE  StoresAttested' /\ JobsAttested'
<1>. DEFINE c == Min(job[p].todo)
<1>1. /\ calendar \subseteq calendar' /\ job[p] \in Job
      /\ work.json \subseteq calendar
      /\ \A d \in job[p].done : StampOf(job[p], d) \in calendar
      /\ job[p].rec \subseteq calendar
  BY JobFacts DEF Recover, BeginSubmit, Submit, PersistProof, PersistManifest,
                  FinishSelection, JobsAttested, JobAttested, StoresAttested, At
<1>2. CASE Recover(p)
  <2>. DEFINE m == ManifestOf(work, c)
              j == [job[p] EXCEPT !.todo = @ \ {c}, !.done = @ \cup {c},
                                  !.rec = @ \cup {m}]
  <2>1. /\ pc' = [pc EXCEPT ![p] = "select"] /\ job' = [job EXCEPT ![p] = j]
        /\ UNCHANGED repoVars /\ HasPair(work, c)
    BY <1>2 DEF Recover, Goto, TypeOK
  <2>2. m \in calendar /\ m.src = c
    BY <1>1, <2>1, ManifestFacts
  <2>. HIDE DEF m, c
  <2>3. /\ j.rec = job[p].rec \cup {m} /\ j.done = job[p].done \cup {c}
        /\ j.at = job[p].at /\ j.trig = job[p].trig
    BY <1>1 DEF Job
  <2>. HIDE DEF j
  <2>4. \A d \in job[p].done : StampOf(j, d) \in calendar
    BY <1>1, <2>2, <2>3, StampStable
  <2>5. StampOf(j, c) \in calendar
    BY <1>1, <2>2, <2>3, StampOfFacts
  <2>6. JobAttested(j, "select", calendar')
    BY <1>1, <2>2, <2>3, <2>4, <2>5 DEF JobAttested
  <2>. QED  BY <1>1, <2>1, <2>6, AttestedStep, StoresUntouched
<1>3. CASE BeginSubmit(p) \/ FinishSelection(p)
  <2>1. PICK step \in {"submit", "durable"} :
          /\ pc' = [pc EXCEPT ![p] = step] /\ job' = [job EXCEPT ![p] = job[p]]
          /\ UNCHANGED repoVars
    BY <1>3 DEF BeginSubmit, FinishSelection, Goto, TypeOK
  <2>2. JobAttested(job[p], step, calendar')
    BY <1>1, <2>1 DEF JobAttested
  <2>. QED  BY <1>1, <2>1, <2>2, AttestedStep, StoresUntouched
<1>4. CASE Submit(p)
  <2>1. /\ pc' = [pc EXCEPT ![p] = "proof"] /\ job' = [job EXCEPT ![p] = job[p]]
        /\ UNCHANGED repoVars /\ StampOf(job[p], c) \in calendar'
    BY <1>4 DEF Submit, Goto, TypeOK
  <2>2. JobAttested(job[p], "proof", calendar')
    BY <1>1, <2>1 DEF JobAttested
  <2>. QED  BY <1>1, <2>1, <2>2, AttestedStep, StoresUntouched
<1>5. CASE PersistProof(p)
  <2>1. /\ pc' = [pc EXCEPT ![p] = "manifest"] /\ job' = [job EXCEPT ![p] = job[p]]
        /\ UNCHANGED <<history, index, tags>> /\ pc[p] = "proof"
        /\ work' = [work EXCEPT !.ots = @ \cup {c}]
    BY <1>5 DEF PersistProof, Goto, TypeOK, At
  <2>2. StampOf(job[p], c) \in calendar
    BY <2>1 DEF JobsAttested, JobAttested
  <2>3. JobAttested(job[p], "manifest", calendar')
    BY <1>1, <2>2 DEF JobAttested
  <2>4. work'.json = work.json
    BY <2>1 DEF TypeOK, RepoTypeOK, Store
  <2>5. StoresAttested'
    BY <1>1, <2>1, <2>4 DEF StoresAttested, Commits, Tree
  <2>. QED  BY <1>1, <2>1, <2>3, <2>5, AttestedStep
<1>6. CASE PersistManifest(p)
  <2>. DEFINE j == [job[p] EXCEPT !.todo = @ \ {c}, !.done = @ \cup {c}]
  <2>1. /\ pc' = [pc EXCEPT ![p] = "select"] /\ job' = [job EXCEPT ![p] = j]
        /\ UNCHANGED <<history, index, tags>> /\ pc[p] = "manifest"
        /\ work' = [work EXCEPT !.json = @ \cup {StampOf(job[p], c)}]
    BY <1>6 DEF PersistManifest, Goto, TypeOK, At
  <2>2. StampOf(job[p], c) \in calendar
    BY <2>1 DEF JobsAttested, JobAttested
  <2>3. work'.json = work.json \cup {StampOf(job[p], c)}
    BY <2>1 DEF TypeOK, RepoTypeOK, Store
  <2>. HIDE DEF c
  <2>4. /\ j.rec = job[p].rec /\ j.done = job[p].done \cup {c}
        /\ j.at = job[p].at /\ j.trig = job[p].trig
    BY <1>1 DEF Job
  <2>. HIDE DEF j
  <2>5. \A d \in j.done : StampOf(j, d) \in calendar
    BY <1>1, <2>2, <2>4, StampStable
  <2>6. JobAttested(j, "select", calendar')
    BY <1>1, <2>4, <2>5 DEF JobAttested
  <2>7. StoresAttested'
    BY <1>1, <2>1, <2>2, <2>3 DEF StoresAttested, Commits, Tree
  <2>. QED  BY <1>1, <2>1, <2>6, <2>7, AttestedStep
<1>. QED  BY <1>2, <1>3, <1>4, <1>5, <1>6

(* Staging, committing and tagging use the stamps of the processed sources. *)
LEMMA DurabilityAttested ==
    ASSUME TypeOK, JobsConsistent, StoresAttested, JobsAttested, NEW p \in Proc,
           CheckDurable(p) \/ Stage(p) \/ Commit(p) \/ TagNext(p)
    PROVE  StoresAttested' /\ JobsAttested'
<1>1. /\ UNCHANGED calendar /\ calendar \subseteq calendar' /\ job[p] \in Job
      /\ job[p].rec \subseteq calendar /\ job[p].todo \in SUBSET Nat
      /\ work.json \subseteq calendar /\ index.json \subseteq calendar
      /\ work \in Store /\ index \in Store /\ head \in Commits
  BY JobFacts DEF CheckDurable, Stage, Commit, TagNext, JobsAttested, JobAttested,
                  StoresAttested, TypeOK, RepoTypeOK, Commits
<1>2. HistoryGrows
  BY DurabilityType
<1>3. CASE CheckDurable(p)
  <2>. DEFINE j == [job[p] EXCEPT !.todo = job[p].done]
  <2>1. PICK step \in {"stage", "tag"} :
          /\ pc' = [pc EXCEPT ![p] = step] /\ job' = [job EXCEPT ![p] = j]
          /\ UNCHANGED repoVars /\ pc[p] = "durable"
    BY <1>3 DEF CheckDurable, Goto, TypeOK, At
  <2>2. j.rec = job[p].rec /\ j.todo = job[p].done /\ j.at = job[p].at
        /\ j.trig = job[p].trig
    BY <1>1 DEF Job
  <2>. HIDE DEF j
  <2>3. \A d \in job[p].done : StampOf(job[p], d) \in calendar
    BY <2>1 DEF JobsAttested, JobAttested
  <2>4. \A d \in j.todo : StampOf(j, d) \in calendar
    BY <1>1, <2>2, <2>3, StampStable
  <2>5. JobAttested(j, step, calendar')
    BY <1>1, <2>1, <2>2, <2>4 DEF JobAttested
  <2>. QED  BY <1>1, <2>1, <2>5, AttestedStep, StoresUntouched
<1>4. CASE Stage(p)
  <2>1. /\ pc' = [pc EXCEPT ![p] = "commit"] /\ job' = [job EXCEPT ![p] = job[p]]
        /\ UNCHANGED <<history, work, tags>> /\ pc[p] = "stage"
        /\ index' = Put(index, work, job[p].done)
    BY <1>4 DEF Stage, StagePaths, Goto, TypeOK, At
  <2>2. JobAttested(job[p], "commit", calendar')
    BY <1>1, <2>1 DEF JobsAttested, JobAttested
  <2>3. index'.json \subseteq calendar
    BY <1>1, <2>1, PutFacts
  <2>4. StoresAttested'
    BY <1>1, <2>1, <2>3 DEF StoresAttested, Commits, Tree
  <2>. QED  BY <1>1, <2>1, <2>2, <2>4, AttestedStep
<1>5. CASE Commit(p)
  <2>. DEFINE tree == Put(Tree(head), work, job[p].done)
  <2>1. /\ pc' = [pc EXCEPT ![p] = "tag"] /\ job' = [job EXCEPT ![p] = job[p]]
        /\ UNCHANGED <<work, tags>> /\ pc[p] = "commit"
        /\ index' = Put(index, work, job[p].done)
        /\ NewCommit(Anc(head), TRUE, job[p].done, tree)
    BY <1>5 DEF Commit, GeneratedProofCommit, Goto, TypeOK, At
  <2>2. JobAttested(job[p], "tag", calendar')
    BY <1>1, <2>1 DEF JobsAttested, JobAttested
  <2>3. index'.json \subseteq calendar
    BY <1>1, <2>1, PutFacts
  <2>4. /\ Anc(head) \in SUBSET Nat /\ Tree(head) \in Store
        /\ Tree(head).json \subseteq calendar /\ job[p].done \in SUBSET Nat
    BY <1>1, CommitFacts, JobFacts DEF TypeOK, StoresAttested
  <2>5. tree \in Store /\ tree.json \subseteq calendar
    BY <1>1, <2>4, PutFacts
  <2>. HIDE DEF tree
  <2>6. \A d \in Commits' \ Commits : history'[d].tree = tree
    BY <2>1, <2>4, <2>5, NewCommitFacts DEF TypeOK
  <2>7. \A d \in Commits' : history'[d].tree.json \subseteq calendar
    BY <1>2, <2>5, <2>6, CommitAttested
  <2>8. StoresAttested'
    BY <1>1, <2>1, <2>3, <2>7 DEF StoresAttested, Tree
  <2>. QED  BY <1>1, <2>1, <2>2, <2>8, AttestedStep
<1>6. CASE TagNext(p)
  <2>. DEFINE c == Min(job[p].todo)
              s == StampOf(job[p], c)
              j == [job[p] EXCEPT !.todo = @ \ {c}]
  <2>1. /\ TagOrFail(p, s, j) /\ pc[p] = "tag" /\ job[p].todo # {}
        /\ UNCHANGED <<history, head, index, work, now, devs>>
    BY <1>6 DEF TagNext, At
  <2>2. c \in job[p].todo
    BY <1>1, <2>1, MinType
  <2>3. \A d \in job[p].todo : StampOf(job[p], d) \in calendar
    BY <2>1 DEF JobsAttested, JobAttested
  <2>4. s \in calendar
    BY <2>2, <2>3
  <2>. HIDE DEF c, s
  <2>5. /\ j.rec = job[p].rec /\ j.todo \subseteq job[p].todo
        /\ j.at = job[p].at /\ j.trig = job[p].trig
    BY <1>1 DEF Job
  <2>. HIDE DEF j
  <2>6. \A d \in j.todo : StampOf(j, d) \in calendar
    BY <1>1, <2>3, <2>5, StampStable
  <2>7. JobAttested(j, pc[p], calendar)
    BY <1>1, <2>1, <2>5, <2>6 DEF JobAttested
  <2>. QED  BY <1>1, <2>1, <2>4, <2>7, TagOrFailAttested
<1>. QED  BY <1>3, <1>4, <1>5, <1>6

(* A repair tags from the manifests in the working tree, and those state *)
(* accepted submissions.                                                 *)
LEMMA RepairAttested ==
    ASSUME TypeOK, StoresAttested, JobsAttested, NEW p \in Proc,
           AcquireForRepair(p) \/ Survey(p) \/ RepairPassesOver(p) \/ RepairTag(p)
    PROVE  StoresAttested' /\ JobsAttested'
<1>1. job[p] \in Job /\ calendar \subseteq calendar' /\ job[p].rec \subseteq calendar
  BY JobFacts DEF AcquireForRepair, Survey, RepairPassesOver, RepairTag,
                  JobsAttested, JobAttested
<1>2. ASSUME NEW step \in {"survey", "repair"}, NEW j, j.rec = job[p].rec,
             pc' = [pc EXCEPT ![p] = step], job' = [job EXCEPT ![p] = j],
             UNCHANGED repoVars
      PROVE  StoresAttested' /\ JobsAttested'
  <2>1. JobAttested(j, step, calendar')
    BY <1>1, <1>2 DEF JobAttested
  <2>. QED  BY <1>1, <1>2, <2>1, AttestedStep, StoresUntouched
<1>3. CASE AcquireForRepair(p)
  <2>1. job' = [job EXCEPT ![p] = job[p]]
    BY <1>3 DEF AcquireForRepair, TypeOK
  <2>. QED  BY <1>2, <1>3, <2>1 DEF AcquireForRepair
<1>4. CASE Survey(p)
  <2>. DEFINE todo == work.ots \ TaggedSources
              j    == [job[p] EXCEPT !.src = head, !.todo = todo]
  <2>1. /\ pc' = [pc EXCEPT ![p] = "repair"] /\ job' = [job EXCEPT ![p] = j]
        /\ UNCHANGED repoVars
    BY <1>4 DEF Survey, Goto, TypeOK
  <2>. HIDE DEF todo
  <2>2. j.rec = job[p].rec
    BY <1>1 DEF Job
  <2>. HIDE DEF j
  <2>. QED  BY <1>2, <2>1, <2>2
<1>5. CASE RepairPassesOver(p)
  <2>1. PICK j : /\ job' = [job EXCEPT ![p] = j] /\ j.rec = job[p].rec
    <3>. DEFINE stored == Anc(job[p].src) \cap work.ots
    <3>1. PICK c \in job[p].todo :
            job' = [job EXCEPT ![p].todo = @ \ {c},
                               ![p].done = IF c \in stored THEN @ \cup {c} ELSE @]
      BY <1>5 DEF RepairPassesOver
    <3>. HIDE DEF stored
    <3>. DEFINE done == IF c \in stored THEN job[p].done \cup {c} ELSE job[p].done
                k    == [job[p] EXCEPT !.todo = job[p].todo \ {c}, !.done = done]
    <3>2. job' = [job EXCEPT ![p] = k]
      BY <3>1 DEF TypeOK
    <3>. HIDE DEF done
    <3>3. k.rec = job[p].rec
      BY <1>1 DEF Job
    <3>. HIDE DEF k
    <3>. QED  BY <3>2, <3>3
  <2>2. pc' = [pc EXCEPT ![p] = "repair"] /\ UNCHANGED repoVars
    BY <1>5 DEF RepairPassesOver, Goto
  <2>. QED  BY <1>2, <2>1, <2>2
<1>6. CASE RepairTag(p)
  <2>1. PICK c \in job[p].todo :
          /\ HasPair(work, c)
          /\ TagOrFail(p, ManifestOf(work, c), [job[p] EXCEPT !.todo = @ \ {c}])
    BY <1>6 DEF RepairTag, Repairable
  <2>. DEFINE j == [job[p] EXCEPT !.todo = @ \ {c}]
  <2>2. ManifestOf(work, c) \in calendar
    BY <2>1, ManifestFacts DEF StoresAttested
  <2>3. j.rec = job[p].rec /\ TagOrFail(p, ManifestOf(work, c), j)
    BY <1>1, <2>1 DEF Job
  <2>. HIDE DEF j
  <2>4. pc[p] = "repair" /\ UNCHANGED <<history, head, index, work, now, devs, calendar>>
    BY <1>6 DEF RepairTag, At
  <2>5. JobAttested(j, pc[p], calendar)
    BY <1>1, <2>3, <2>4 DEF JobAttested
  <2>. QED  BY <2>2, <2>3, <2>4, <2>5, TagOrFailAttested
<1>. QED  BY <1>3, <1>4, <1>5, <1>6

(* Before the first invocation there is no manifest, tag or run. *)
LEMMA AttestedInit == Init => StoresAttested /\ JobsAttested
<1>. SUFFICES ASSUME Init PROVE StoresAttested /\ JobsAttested
  OBVIOUS
<1>1. \A c \in Commits : Tree(c) = EmptyStore
  BY DEF Init, RepoInit, Commits, Tree
<1>2. StoresAttested
  BY <1>1, EmptyStoreType DEF Init, RepoInit, StoresAttested
<1>3. JobsAttested
  BY DEF Init, JobsAttested, JobAttested, NoJob
<1>. QED  BY <1>2, <1>3

(* Every step keeps all manifests, all tags and all stamps still to be written *)
(* among the accepted submissions.                                             *)
LEMMA AttestedNext ==
    TypeOK /\ JobsConsistent /\ StoresAttested /\ JobsAttested /\ [Next]_vars
        => StoresAttested' /\ JobsAttested'
<1>. SUFFICES ASSUME TypeOK, JobsConsistent, StoresAttested, JobsAttested, [Next]_vars
              PROVE  StoresAttested' /\ JobsAttested'
  OBVIOUS
<1>1. CASE \E p \in Proc : Acquire(p) \/ AcquireForRepair(p) \/ Step(p) \/ Disturb(p)
  <2>1. PICK p \in Proc : Acquire(p) \/ AcquireForRepair(p) \/ Step(p) \/ Disturb(p)
    BY <1>1
  <2>2. \/ Acquire(p) \/ TakeSnapshot(p) \/ Scan(p)
        \/ AdoptLegacy(p) \/ BeginCompletion(p) \/ CompleteTag(p) \/ PassOver(p)
        \/ Recover(p) \/ BeginSubmit(p) \/ Submit(p)
        \/ PersistProof(p) \/ PersistManifest(p) \/ FinishSelection(p)
        \/ CheckDurable(p) \/ Stage(p) \/ Commit(p) \/ TagNext(p)
        \/ AcquireForRepair(p) \/ Survey(p) \/ RepairPassesOver(p) \/ RepairTag(p)
        \/ Ending(p) \/ SubmitFails(p)
    BY <2>1 DEF Step, Disturb, Ending
  <2>. QED  BY <2>2, StartAttested, CompletionAttested, SelectionAttested,
               DurabilityAttested, RepairAttested, EndingAttested
<1>2. CASE DevStep /\ UNCHANGED runVars
  <2>1. StoresAttested'
    BY <1>2, DevAttested DEF runVars
  <2>. QED  BY <1>2, <2>1 DEF JobsAttested, runVars
<1>3. CASE EnableProofCommit
  BY <1>3 DEF EnableProofCommit, Dev, StoresAttested, JobsAttested, Commits, Tree
<1>4. CASE UNCHANGED vars
  BY <1>4 DEF vars, repoVars, runVars, StoresAttested, JobsAttested, Commits, Tree
<1>. QED  BY <1>1, <1>2, <1>3, <1>4 DEF Next, DevStep

(* However often runs are interrupted, resumed and overlapped, whatever the    *)
(* developer does in between, and for every policy, a timestamp tag states the *)
(* source, the submission time and the triggers of one submission that the     *)
(* calendars accepted.                                                         *)
THEOREM Truthful == Spec => []TagsTruthful
<1>1. StoresAttested => TagsTruthful
  BY DEF StoresAttested, TagsTruthful
<1>. QED  BY TypeInvariant, AttestedInit, AttestedNext, <1>1, PTL DEF Spec

-----------------------------------------------------------------------------
(* OtsRun implements StampLedger.  The invariants say who holds the lock   *)
(* and that every stamp about to be tagged was accepted; the rest is a     *)
(* step-by-step simulation.                                                *)

LedgerStep == [Stamping!Next]_(Stamping!ledgerVars)

(* A step that neither takes nor gives back the lock, and writes neither a *)
(* tag nor a submission, is no step of the ledger.                         *)
LEMMA LedgerStutter ==
    ASSUME UNCHANGED <<lock, calendar, tags>>
    PROVE  LedgerStep
  BY DEF LedgerStep, Stamping!ledgerVars

(* Only the holder of the lock is past it. *)
LEMMA Holder ==
    ASSUME LockHeld, NEW p \in Proc, ~At(p, "idle")
    PROVE  lock = p
  BY DEF LockHeld

(* The end of a run that leaves tags and submissions alone gives the lock back. *)
LEMMA LedgerLeave ==
    ASSUME LockHeld, NEW p \in Proc, NEW how, End(p, how), ~At(p, "idle"),
           UNCHANGED <<calendar, tags>>
    PROVE  LedgerStep
<1>1. lock = p /\ lock' = None
  BY Holder DEF End
<1>2. Stamping!Leave(p)
  BY <1>1 DEF Stamping!Leave
<1>. QED  BY <1>2 DEF LedgerStep, Stamping!Next

(* Tagging an accepted stamp is the ledger's Tag, and giving up is its Leave. *)
LEMMA LedgerTag ==
    ASSUME LockHeld, NEW p \in Proc, NEW stamp \in calendar, NEW j,
           TagOrFail(p, stamp, j), ~At(p, "idle"), UNCHANGED calendar
    PROVE  LedgerStep
<1>1. CASE TagCollides(stamp)
  BY <1>1, LedgerLeave DEF TagOrFail
<1>2. CASE ~TagCollides(stamp)
  <2>1. tags' = tags \cup {stamp} /\ UNCHANGED lock /\ lock = p
    BY <1>2, Holder DEF TagOrFail
  <2>2. ~Stamping!NameTaken(stamp)
    BY <1>2 DEF TagCollides, Stamping!NameTaken
  <2>3. Stamping!Tag(p)
    BY <2>1, <2>2 DEF Stamping!Tag
  <2>. QED  BY <2>3 DEF LedgerStep, Stamping!Next
<1>. QED  BY <1>1, <1>2

(* A submission, answered or not, is the ledger's Accept. *)
LEMMA LedgerAccept ==
    ASSUME LockHeld, NEW p \in Proc, NEW stamp \in Stamp, ~At(p, "idle"),
           calendar' = calendar \cup {stamp}, lock' \in {p, None}, UNCHANGED tags
    PROVE  LedgerStep
<1>1. lock = p
  BY Holder
<1>2. Stamping!Accept(p)
  BY <1>1, Zenon DEF Stamping!Accept
<1>. QED  BY <1>2 DEF LedgerStep, Stamping!Next

(* Every submission of a run is a stamp. *)
LEMMA SubmittedStamp ==
    ASSUME TypeOK, JobsConsistent, NEW p \in Proc, At(p, "submit")
    PROVE  StampOf(job[p], Min(job[p].todo)) \in Stamp
<1>1. job[p].todo # {}
  BY DEF JobsConsistent, At
<1>. QED  BY <1>1, JobFacts, MinType, StampOfType

(* What the three tagging steps write was accepted. *)
LEMMA TaggedStamp ==
    ASSUME TypeOK, JobsConsistent, StoresAttested, JobsAttested, NEW p \in Proc,
           CompleteTag(p) \/ TagNext(p) \/ RepairTag(p)
    PROVE  \E stamp \in calendar : \E j : TagOrFail(p, stamp, j)
<1>1. CASE CompleteTag(p)
  <2>. DEFINE c == NextToComplete(job[p])
              m == CompletionEvidence(job[p], c)
  <2>1. m # None /\ job[p].src \in Commits
        /\ \E j : TagOrFail(p, m, j)
    BY <1>1 DEF CompleteTag, At, JobsConsistent
  <2>2. m \in calendar
    BY <2>1, EvidenceFacts DEF StoresAttested
  <2>. QED  BY <2>1, <2>2
<1>2. CASE TagNext(p)
  <2>. DEFINE c == Min(job[p].todo)
  <2>1. /\ pc[p] = "tag" /\ job[p].todo # {}
        /\ \E j : TagOrFail(p, StampOf(job[p], c), j)
    BY <1>2 DEF TagNext, At
  <2>2. c \in job[p].todo
    BY <2>1, JobFacts, MinType
  <2>. HIDE DEF c
  <2>3. StampOf(job[p], c) \in calendar
    BY <2>1, <2>2 DEF JobsAttested, JobAttested
  <2>. QED  BY <2>1, <2>3
<1>3. CASE RepairTag(p)
  <2>1. PICK c : HasPair(work, c) /\ \E j : TagOrFail(p, ManifestOf(work, c), j)
    BY <1>3 DEF RepairTag, Repairable
  <2>2. ManifestOf(work, c) \in calendar
    BY <2>1, ManifestFacts DEF StoresAttested
  <2>. QED  BY <2>1, <2>2
<1>. QED  BY <1>1, <1>2, <1>3

(* Every step of runs, repairs, developers and failures is a step of the *)
(* ledger or leaves it alone.                                             *)
LEMMA Simulation ==
    TypeOK /\ JobsConsistent /\ LockHeld /\ StoresAttested /\ JobsAttested /\ [Next]_vars
        => LedgerStep
<1>. SUFFICES ASSUME TypeOK, JobsConsistent, LockHeld, StoresAttested, JobsAttested,
                     [Next]_vars
              PROVE  LedgerStep
  OBVIOUS
<1>1. CASE \E p \in Proc : Acquire(p) \/ AcquireForRepair(p)
  <2>1. PICK p \in Proc : lock = None /\ lock' = p /\ UNCHANGED <<calendar, tags>>
    BY <1>1 DEF Acquire, AcquireForRepair, repoVars
  <2>2. Stamping!Take(p)
    BY <2>1 DEF Stamping!Take
  <2>. QED  BY <2>2 DEF LedgerStep, Stamping!Next
<1>2. CASE \E p \in Proc : Ending(p)
  <2>1. PICK p \in Proc : Ending(p)
    BY <1>2
  <2>2. ~At(p, "idle")
    BY <2>1, CrashAssumption
       DEF Ending, At, RefuseReplay, RefuseState, FailInconsistent, FinishCompletion,
           FailSelected, PersistFails, StageFails, CommitRefused, CommitVetoed,
           FinishRun, FinishRepair, Crash
  <2>3. UNCHANGED <<calendar, tags>>
    BY <2>1, EndingFacts DEF repoVars
  <2>. QED  BY <2>1, <2>2, <2>3, EndingFacts, LedgerLeave
<1>3. CASE \E p \in Proc : Submit(p) \/ SubmitFails(p)
  <2>1. PICK p \in Proc : Submit(p) \/ SubmitFails(p)
    BY <1>3
  <2>2. At(p, "submit") /\ ~At(p, "idle")
    BY <2>1 DEF Submit, SubmitFails, At
  <2>. DEFINE s == StampOf(job[p], Min(job[p].todo))
  <2>3. s \in Stamp
    BY <2>2, SubmittedStamp
  <2>4. lock = p
    BY <2>2, Holder
  <2>5. CASE Submit(p)
    <3>1. calendar' = calendar \cup {s} /\ UNCHANGED <<lock, tags>>
      BY <2>5 DEF Submit, Goto, repoVars
    <3>. HIDE DEF s
    <3>. QED  BY <2>2, <2>3, <2>4, <3>1, LedgerAccept
  <2>6. CASE SubmitFails(p)
    <3>1. /\ calendar' = calendar \/ calendar' = calendar \cup {s}
          /\ End(p, "failed") /\ UNCHANGED tags
      BY <2>6 DEF SubmitFails, repoVars
    <3>. HIDE DEF s
    <3>2. CASE calendar' = calendar
      BY <2>2, <3>1, <3>2, LedgerLeave
    <3>3. CASE calendar' = calendar \cup {s}
      BY <2>2, <2>3, <3>1, <3>3, LedgerAccept DEF End
    <3>. QED  BY <3>1, <3>2, <3>3
  <2>. QED  BY <2>1, <2>5, <2>6
<1>4. CASE \E p \in Proc : CompleteTag(p) \/ TagNext(p) \/ RepairTag(p)
  <2>1. PICK p \in Proc : CompleteTag(p) \/ TagNext(p) \/ RepairTag(p)
    BY <1>4
  <2>2. ~At(p, "idle") /\ UNCHANGED calendar
    BY <2>1 DEF CompleteTag, TagNext, RepairTag, At
  <2>3. PICK stamp \in calendar : \E j : TagOrFail(p, stamp, j)
    BY <2>1, TaggedStamp
  <2>4. PICK j : TagOrFail(p, stamp, j)
    BY <2>3
  <2>. QED  BY <2>2, <2>4, LedgerTag
<1>5. CASE \E p \in Proc : TakeSnapshot(p) \/ Scan(p) \/ AdoptLegacy(p)
                           \/ BeginCompletion(p) \/ PassOver(p) \/ Recover(p)
                           \/ BeginSubmit(p) \/ PersistProof(p) \/ PersistManifest(p)
                           \/ FinishSelection(p) \/ CheckDurable(p) \/ Stage(p)
                           \/ Commit(p) \/ Survey(p) \/ RepairPassesOver(p)
  <2>1. PICK p \in Proc :
          \/ TakeSnapshot(p) \/ Scan(p) \/ AdoptLegacy(p) \/ BeginCompletion(p)
          \/ PassOver(p) \/ Recover(p) \/ BeginSubmit(p) \/ PersistProof(p)
          \/ PersistManifest(p) \/ FinishSelection(p) \/ CheckDurable(p) \/ Stage(p)
          \/ Commit(p) \/ Survey(p) \/ RepairPassesOver(p)
    BY <1>5
  <2>2. \E step : Goto(p, step)
    BY <2>1, Zenon DEF TakeSnapshot, Scan, AdoptLegacy, BeginCompletion, PassOver, Recover,
                BeginSubmit, PersistProof, PersistManifest, FinishSelection,
                CheckDurable, Stage, Commit, Survey, RepairPassesOver
  <2>3. UNCHANGED <<calendar, tags>>
    <3>1. CASE TakeSnapshot(p) \/ Scan(p) \/ AdoptLegacy(p) \/ BeginCompletion(p)
               \/ PassOver(p) \/ Recover(p) \/ BeginSubmit(p) \/ FinishSelection(p)
               \/ CheckDurable(p) \/ Survey(p) \/ RepairPassesOver(p)
      BY <3>1 DEF TakeSnapshot, Scan, AdoptLegacy, BeginCompletion, PassOver, Recover,
                  BeginSubmit, FinishSelection, CheckDurable, Survey, RepairPassesOver,
                  repoVars
    <3>2. CASE PersistProof(p) \/ PersistManifest(p) \/ Stage(p) \/ Commit(p)
      BY <3>2 DEF PersistProof, PersistManifest, Stage, Commit, GeneratedProofCommit
    <3>. QED  BY <2>1, <3>1, <3>2
  <2>. QED  BY <2>2, <2>3, LedgerStutter DEF Goto
<1>6. CASE DevStep /\ UNCHANGED runVars
  <2>1. UNCHANGED tags
    BY <1>6 DEF DevStep, DevCommit, DevAmend, DevReset, DevMerge, DevDrop, DevClean,
                Tick, NewCommit, Dev
  <2>. QED  BY <1>6, <2>1, LedgerStutter DEF runVars
<1>7. CASE EnableProofCommit \/ UNCHANGED vars
  BY <1>7, LedgerStutter DEF EnableProofCommit, Dev, vars, runVars, repoVars
<1>. QED  BY <1>1, <1>2, <1>3, <1>4, <1>5, <1>6, <1>7
          DEF Next, Step, Disturb, Ending, DevStep

(* Whatever the schedulers, the developer, the calendars and the operating  *)
(* system do, runs and repairs behave, in what concerns the lock, the       *)
(* submissions and the tags, like the ledger: nobody but the lock's holder  *)
(* submits or tags, submissions are never taken back, and a tag records one *)
(* of them, once, and for good.                                             *)
THEOREM Implementation == Spec => Ledger
<1>. DEFINE Inv == TypeOK /\ JobsConsistent /\ LockHeld /\ StoresAttested /\ JobsAttested
<1>1. Init => Inv
  BY TypeInit, AttestedInit, RunAssumption DEF Init, LockHeld, At
<1>2. Inv /\ [Next]_vars => Inv'
  BY TypeStep, TypeStutter, LockStep, AttestedNext
<1>3. Init => Stamping!Init
  BY DEF Init, RepoInit, Stamping!Init
<1>4. Inv /\ [Next]_vars => [Stamping!Next]_(Stamping!ledgerVars)
  BY Simulation DEF LedgerStep
<1>. QED  BY <1>1, <1>2, <1>3, <1>4, PTL DEF Spec, Ledger, Stamping!Spec
=============================================================================
