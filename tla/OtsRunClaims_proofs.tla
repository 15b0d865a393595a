------------------------ MODULE OtsRunClaims_proofs ------------------------
(***************************************************************************)
(* Proofs about what is claimed: which source a run decides for, and that  *)
(* nothing recorded is decided for again.                                  *)
(*                                                                         *)
(*   ClaimedAtMostOnce  no two commits of one lineage claim one source     *)
(*   TagsAreDurable     the proof and the very manifest of every tag are   *)
(*                      in some commit                                     *)
(*                                                                         *)
(* The first is an argument about the baseline.  What a commit of HEAD's   *)
(* lineage claims, and is on disk, is in HEAD's tree (ClaimsOnRecord), so  *)
(* its manifest is one the newest proof-commit baseline was chosen from.   *)
(* Submissions are in the order of their sources (InOrder), so the newest  *)
(* manifest is that of the newest source, and none that is claimed is      *)
(* above the baseline: the filter on pending commits is complete.  Without *)
(* every_commit the order holds because a run decides for the newest       *)
(* commit alone (DecidesForTop), with it because a run leaves no gap       *)
(* (Gapless).                                                              *)
(*                                                                         *)
(* The second allows committed proofs to be removed: what is claimed is    *)
(* not decided for, so a manifest dropped from HEAD is not replaced by a   *)
(* later one that a tag could state (ClaimsKept).                          *)
(***************************************************************************)
EXTENDS OtsRunRecovery_proofs

-----------------------------------------------------------------------------
(* What build_snapshot finds and selects *)

(* A baseline is a stamp whose source is on the lineage: of a tag, or of a *)
(* manifest in the tree with its proof, on top of a generated commit.      *)
LEMMA BaselineOnLineage ==
    ASSUME NEW src, Baseline(src) # None
    PROVE  /\ Baseline(src).src \in Anc(src)
           /\ \/ Baseline(src) \in tags
              \/ Proven(src, Baseline(src))
<1>1. TagBaseline(src) # None => TagBaseline(src) \in tags /\ TagBaseline(src).src \in Anc(src)
  <2>. DEFINE onLineage == {t \in tags : t.src \in Anc(src)}
              newest == {t \in onLineage : \A u \in onLineage :
                            \/ t.at > u.at
                            \/ t.at = u.at /\ Sha(t.src) >= Sha(u.src)}
  <2>1. TagBaseline(src) # None => TagBaseline(src) \in newest
    BY Zenon DEF TagBaseline
  <2>. QED  BY <2>1
<1>2. ProofCommitBaseline(src) # None =>
        /\ ProofCommitBaseline(src) \in Tree(src).json
        /\ ProofCommitBaseline(src).src \in Anc(src) \cap Tree(src).ots
        /\ GeneratedAncestors(src) # {}
  <2>. DEFINE found  == {m \in Tree(src).json : m.src \in Anc(src) \cap Tree(src).ots}
              newest == {m \in found : \A n \in found :
                            \/ m.at > n.at
                            \/ m.at = n.at /\ m.src >= n.src}
  <2>1. ProofCommitBaseline(src) # None => /\ ProofCommitBaseline(src) \in newest
                                           /\ GeneratedAncestors(src) # {}
    BY Zenon DEF ProofCommitBaseline
  <2>. QED  BY <2>1
<1>3. \/ Baseline(src) = TagBaseline(src) /\ TagBaseline(src) # None
      \/ Baseline(src) = ProofCommitBaseline(src)
  BY DEF Baseline
<1>. QED  BY <1>1, <1>2, <1>3 DEF Proven

LEMMA DecidesWith ==
    ASSUME NEW src, NEW t
    PROVE  DecisionFor(src, t) = DecisionWith(src, Baseline(src), t)
BY DEF DecisionFor, DecisionWith, Candidates

(* The decision is for pending commits. *)
LEMMA DecidesPending ==
    ASSUME NEW src, NEW base, NEW t
    PROVE  DecisionWith(src, base, t).commits \subseteq PendingMeaningful(src, BaseSource(base))
<1>1. \A x \in Candidates(src, base) : x.id \in PendingMeaningful(src, BaseSource(base))
  BY DEF Candidates
<1>2. \A c \in DecisionWith(src, base, t).commits : \E x \in Candidates(src, base) : x.id = c
  BY PolicySelects DEF DecisionWith
<1>. QED  BY <1>1, <1>2

-----------------------------------------------------------------------------
(* Where nobody makes HEAD jump and nobody merges, history is a chain *)

OneLineage == {"reset", "merge"} \cap DevActions = {}

(* What the developer does to the history then: nothing, an ordinary       *)
(* commit of what is in the index, or the tip again.                       *)
LEMMA DevLinear ==
    ASSUME OneLineage, DevStep
    PROVE  \/ UNCHANGED <<history, head>>
           \/ NewCommit(Anc(head), FALSE, {}, index')
           \/ NewCommit(Anc(head) \ {head}, IsGenerated(head), history[head].claims, index')
<1>1. ~DevReset /\ ~DevMerge
  BY DEF DevReset, DevMerge, Dev, OneLineage
<1>2. DevCommit => NewCommit(Anc(head), FALSE, {}, index')
  BY DEF DevCommit
<1>3. DevAmend => NewCommit(Anc(head) \ {head}, IsGenerated(head), history[head].claims, index')
  BY DEF DevAmend
<1>4. DevDrop => NewCommit(Anc(head), FALSE, {}, index')
  BY DEF DevDrop
<1>5. DevClean \/ Tick => UNCHANGED <<history, head>>
  BY DEF DevClean, Tick
<1>. QED  BY <1>1, <1>2, <1>3, <1>4, <1>5 DEF DevStep

(* A commit of the developer's, one in place of the tip, or a run's. *)
Made(ancestry, generated, claims, tree) ==
    /\ ancestry \in SUBSET Commits /\ generated \in BOOLEAN
    /\ claims \in SUBSET Nat /\ tree \in Store
    /\ NewCommit(ancestry, generated, claims, tree)
    /\ \/ ancestry = Anc(head) /\ generated = FALSE /\ claims = {}
       \/ /\ ancestry = Anc(head) \ {head} /\ generated = IsGenerated(head)
          /\ claims = history[head].claims
       \/ \E p \in Proc : /\ Commit(p) /\ ancestry = Anc(head) /\ generated = TRUE
                          /\ claims = job[p].done

(* What is put on the tip, or in its place, when the developer commits. *)
OnTip(ancestry, claims) ==
    \/ ancestry = Anc(head) /\ claims = {}
    \/ ancestry = Anc(head) \ {head} /\ claims = history[head].claims

LEMMA HeadLineage ==
    ASSUME RepoTypeOK, LineagesExist
    PROVE  /\ head \in Commits /\ Anc(head) \in SUBSET Commits
           /\ Anc(head) \ {head} \in SUBSET Commits
<1>1. head \in Commits
  BY DEF RepoTypeOK, Commits
<1>. QED  BY <1>1 DEF LineagesExist

LEMMA DevMakes ==
    ASSUME OneLineage, RepoTypeOK, LineagesExist, DevStep
    PROVE  \/ UNCHANGED <<history, head>>
           \/ \E ancestry, generated, claims : /\ Made(ancestry, generated, claims, index')
                                               /\ OnTip(ancestry, claims)
<1>1. /\ head \in Commits /\ Anc(head) \in SUBSET Commits
      /\ Anc(head) \ {head} \in SUBSET Commits
  BY HeadLineage
<1>2. index' \in Store
  BY DevType DEF RepoTypeOK
<1>3. /\ FALSE \in BOOLEAN /\ {} \in SUBSET Nat
      /\ IsGenerated(head) \in BOOLEAN /\ history[head].claims \in SUBSET Nat
  BY <1>1, CommitFacts
<1>4. CASE UNCHANGED <<history, head>>
  BY <1>4
<1>5. CASE NewCommit(Anc(head), FALSE, {}, index')
  <2>1. Made(Anc(head), FALSE, {}, index') /\ OnTip(Anc(head), {})
    BY <1>1, <1>2, <1>3, <1>5, Zenon DEF Made, OnTip
  <2>. QED  BY <2>1
<1>6. CASE NewCommit(Anc(head) \ {head}, IsGenerated(head), history[head].claims, index')
  <2>1. /\ Made(Anc(head) \ {head}, IsGenerated(head), history[head].claims, index')
        /\ OnTip(Anc(head) \ {head}, history[head].claims)
    BY <1>1, <1>2, <1>3, <1>6, Zenon DEF Made, OnTip
  <2>. QED  BY <2>1
<1>. QED  BY <1>4, <1>5, <1>6, DevLinear

LEMMA CommitMakes ==
    ASSUME TypeOK, LineagesExist, NEW p \in Proc, Commit(p)
    PROVE  Made(Anc(head), TRUE, job[p].done, Put(Tree(head), work, job[p].done))
<1>. DEFINE S == job[p].done
            tree == Put(Tree(head), work, S)
<1>1. head \in Commits /\ Anc(head) \in SUBSET Commits
  BY HeadLineage DEF TypeOK
<1>2. NewCommit(Anc(head), TRUE, S, tree)
  BY DEF Commit, GeneratedProofCommit
<1>3. S \in SUBSET Nat /\ TRUE \in BOOLEAN
  BY JobFacts
<1>4. tree \in Store
  BY <1>1, CommitFacts, PutFacts DEF TypeOK, RepoTypeOK, Commits
<1>. QED  BY <1>1, <1>2, <1>3, <1>4, Zenon DEF Made

LEMMA HistoryStays ==
    ASSUME [Next]_vars, ~DevStep, ~ \E p \in Proc : Commit(p)
    PROVE  UNCHANGED <<history, head>>
<1>1. CASE \E p \in Proc : Acquire(p) \/ AcquireForRepair(p) \/ Step(p) \/ Disturb(p)
  <2>1. PICK p \in Proc : \/ PersistProof(p) \/ PersistManifest(p) \/ Stage(p)
                          \/ LeavesFiles(p)
    BY <1>1, ProcessSteps
  <2>. QED  BY <2>1, LeavesFilesFacts DEF PersistProof, PersistManifest, Stage
<1>2. CASE EnableProofCommit \/ UNCHANGED vars
  BY <1>2 DEF EnableProofCommit, vars, repoVars
<1>. QED  BY <1>1, <1>2 DEF Next, DevStep

LEMMA LinearSteps ==
    ASSUME OneLineage, TypeOK, LineagesExist, [Next]_vars
    PROVE  \/ UNCHANGED <<history, head>>
           \/ \E ancestry, generated, claims, tree : Made(ancestry, generated, claims, tree)
<1>1. CASE DevStep
  BY <1>1, DevMakes DEF TypeOK
<1>2. CASE \E p \in Proc : Commit(p)
  BY <1>2, CommitMakes
<1>. QED  BY <1>1, <1>2, HistoryStays

(* What a new commit changes and what it does not. *)
LEMMA AppendedCommit ==
    ASSUME RepoTypeOK, Lineal, NEW ancestry \in SUBSET Commits,
           NEW generated \in BOOLEAN, NEW claims \in SUBSET Nat, NEW tree \in Store,
           NewCommit(ancestry, generated, claims, tree)
    PROVE  /\ Commits' = Commits \cup {head'} /\ head' \notin Commits
           /\ head' \in Nat /\ \A c \in Commits : c \in Nat /\ c < head'
           /\ \A c \in Commits : /\ Anc(c)' = Anc(c) /\ Tree(c)' = Tree(c)
                                 /\ IsGenerated(c)' = IsGenerated(c)
                                 /\ history'[c] = history[c]
           /\ Anc(head)' = ancestry \cup {head'} /\ Tree(head)' = tree
           /\ IsGenerated(head)' = generated /\ history'[head'].claims = claims
           /\ history'[head'].time = now
           /\ head \in Commits /\ head \in Anc(head)
<1>. DEFINE info == [anc |-> ancestry \cup {Len(history) + 1}, generated |-> generated,
                     claims |-> claims, time |-> now, tree |-> tree]
<1>1. history \in Seq(CommitInfo) /\ Len(history) \in Nat /\ now \in Nat
  BY DEF RepoTypeOK
<1>2. info \in CommitInfo
  <2>1. ancestry \cup {Len(history) + 1} \in SUBSET Nat
    BY <1>1 DEF Commits
  <2>. QED  BY <1>1, <2>1, Zenon DEF CommitInfo
<1>3. history' = Append(history, info) /\ head' = Len(history) + 1
  BY DEF NewCommit
<1>4. /\ info.anc = ancestry \cup {head'} /\ info.claims = claims /\ info.tree = tree
      /\ info.generated = generated /\ info.time = now
  BY <1>3
<1>. HIDE DEF info
<1>5. /\ Len(history') = Len(history) + 1
      /\ history' \in Seq(CommitInfo)
      /\ \A i \in 1..Len(history) : history'[i] = history[i]
      /\ history'[Len(history) + 1] = info
  BY <1>1, <1>2, <1>3, AppendedFacts
<1>6. Commits = 1..Len(history) /\ Commits' = 1..(Len(history) + 1)
  BY <1>1, <1>5 DEF Commits
<1>7. /\ Commits' = Commits \cup {head'} /\ head' \notin Commits /\ head' \in Nat
      /\ \A c \in Commits : c \in Nat /\ c < head' /\ history'[c] = history[c]
  BY <1>1, <1>3, <1>5, <1>6
<1>8. head \in Commits /\ head \in Anc(head)
  BY DEF RepoTypeOK, Commits, Lineal
<1>. QED  BY <1>3, <1>4, <1>5, <1>7, <1>8 DEF Anc, Tree, IsGenerated

LEMMA MadeFacts ==
    ASSUME RepoTypeOK, Lineal, NEW ancestry, NEW generated, NEW claims, NEW tree,
           Made(ancestry, generated, claims, tree)
    PROVE  /\ Commits' = Commits \cup {head'} /\ head' \notin Commits
           /\ head' \in Nat /\ \A c \in Commits : c \in Nat /\ c < head'
           /\ \A c \in Commits : /\ Anc(c)' = Anc(c) /\ Tree(c)' = Tree(c)
                                 /\ IsGenerated(c)' = IsGenerated(c)
                                 /\ history'[c] = history[c]
           /\ Anc(head)' = ancestry \cup {head'} /\ Tree(head)' = tree
           /\ IsGenerated(head)' = generated /\ history'[head'].claims = claims
           /\ head \in Commits /\ head \in Anc(head)
           /\ ancestry \in SUBSET Commits /\ ancestry \subseteq Anc(head)
<1>1. /\ ancestry \in SUBSET Commits /\ generated \in BOOLEAN /\ claims \in SUBSET Nat
      /\ tree \in Store /\ NewCommit(ancestry, generated, claims, tree)
      /\ ancestry \subseteq Anc(head)
  BY DEF Made
<1>. QED  BY <1>1, AppendedCommit, Zenon

LEMMA ChainedNext ==
    OneLineage => (/\ TypeOK /\ Lineal /\ LineagesExist /\ Chained /\ [Next]_vars
                   => Chained')
<1>. SUFFICES ASSUME OneLineage, TypeOK, Lineal, LineagesExist, Chained, [Next]_vars
              PROVE  Chained'
  OBVIOUS
<1>1. CASE UNCHANGED <<history, head>>
  BY <1>1 DEF Chained, Commits, Anc
<1>2. CASE \E ancestry, generated, claims, tree : Made(ancestry, generated, claims, tree)
  <2>1. PICK ancestry, generated, claims, tree : Made(ancestry, generated, claims, tree)
    BY <1>2
  <2>2. PICK h : h = head'
    OBVIOUS
  <2>3. /\ Commits' = Commits \cup {h} /\ h \notin Commits
        /\ h \in Nat /\ \A c \in Commits : c \in Nat /\ c < h
        /\ \A c \in Commits : Anc(c)' = Anc(c)
        /\ Anc(h)' = ancestry \cup {h} /\ head \in Commits
        /\ ancestry \in SUBSET Commits /\ ancestry \subseteq Anc(head)
    BY <2>1, <2>2, MadeFacts, Zenon DEF TypeOK
  <2>4. ASSUME NEW c \in ancestry \cup {h}, NEW d \in ancestry \cup {h}, c <= d
        PROVE  c \in Anc(d)'
    <3>1. CASE d = h
      BY <2>3, <3>1
    <3>2. CASE d # h
      <4>1. c \in Anc(head) /\ d \in Anc(head) /\ d \in Commits
        BY <2>3, <2>4, <3>2
      <4>. QED  BY <2>3, <2>4, <4>1 DEF Chained
    <3>. QED  BY <3>1, <3>2
  <2>5. ASSUME NEW b \in Commits, NEW c \in Anc(b), NEW d \in Anc(b), c <= d
        PROVE  c \in Anc(d)'
    <3>1. d \in Commits
      BY <2>5 DEF LineagesExist
    <3>. QED  BY <2>3, <2>5, <3>1 DEF Chained
  <2>. QED  BY <2>3, <2>4, <2>5 DEF Chained
<1>. QED  BY <1>1, <1>2, LinearSteps

(* An older commit of a lineage is below, a younger one is not. *)
LEMMA ChainOrder ==
    ASSUME RepoTypeOK, LineagesExist, Lineal, Chained, NEW h \in Commits,
           NEW c \in Anc(h), NEW d \in Anc(h)
    PROVE  /\ c \in Nat /\ d \in Nat /\ c \in Commits /\ d \in Commits
           /\ c \in Anc(d) <=> c <= d
<1>1. c \in Commits /\ d \in Commits /\ Commits \subseteq Nat
  BY CommitFacts DEF LineagesExist
<1>2. Anc(d) \subseteq 1..d
  BY <1>1 DEF Lineal
<1>. QED  BY <1>1, <1>2 DEF Chained

-----------------------------------------------------------------------------
(* Claims *)

(* The claims of a commit's lineage stay, and those of the new HEAD's are  *)
(* those of the lineage it is put on, and its own.                         *)
LEMMA ClaimedMade ==
    ASSUME RepoTypeOK, Lineal, LineagesExist, NEW ancestry, NEW generated, NEW claims,
           NEW tree, Made(ancestry, generated, claims, tree)
    PROVE  /\ Claimed(head)' = claims \cup UNION {history[g].claims : g \in ancestry}
           /\ \A c \in Commits : Claimed(c)' = Claimed(c)
<1>1. PICK h : h = head'
  OBVIOUS
<1>2. /\ h \notin Commits /\ \A c \in Commits : Anc(c)' = Anc(c) /\ history'[c] = history[c]
      /\ Anc(h)' = ancestry \cup {h} /\ history'[h].claims = claims
      /\ ancestry \in SUBSET Commits
  BY <1>1, MadeFacts, Zenon
<1>3. Claimed(h)' = claims \cup UNION {history[g].claims : g \in ancestry}
  <2>1. Claimed(h)' = UNION {history'[g].claims : g \in ancestry \cup {h}}
    BY <1>2 DEF Claimed
  <2>2. \A g \in ancestry : history'[g] = history[g]
    BY <1>2
  <2>3. UNION {history'[g].claims : g \in ancestry \cup {h}} =
            history'[h].claims \cup UNION {history[g].claims : g \in ancestry}
    BY <2>2
  <2>. QED  BY <1>2, <2>1, <2>3
<1>4. ASSUME NEW c \in Commits
      PROVE  Claimed(c)' = Claimed(c)
  <2>1. Anc(c)' = Anc(c) /\ Anc(c) \subseteq Commits
    BY <1>2 DEF LineagesExist
  <2>2. \A g \in Anc(c) : history'[g] = history[g]
    BY <1>2, <2>1
  <2>. QED  BY <2>1, <2>2 DEF Claimed
<1>. QED  BY <1>1, <1>3, <1>4

(* HEAD's lineage gains a claim only by a run's commit. *)
LEMMA DevClaims ==
    ASSUME OneLineage, RepoTypeOK, Lineal, LineagesExist, DevStep
    PROVE  /\ Claimed(head)' = Claimed(head) /\ \A c \in Commits : Claimed(c)' = Claimed(c)
           /\ UNCHANGED <<history, head>> \/ Tree(head)' = index'
<1>1. Claimed(head) = UNION {history[g].claims : g \in Anc(head)} /\ head \in Anc(head)
  BY HeadLineage DEF Claimed, Lineal
<1>2. CASE UNCHANGED <<history, head>>
  BY <1>2 DEF Claimed, Anc, Commits
<1>3. CASE \E ancestry, generated, claims : /\ Made(ancestry, generated, claims, index')
                                            /\ OnTip(ancestry, claims)
  <2>1. PICK ancestry, generated, claims : /\ Made(ancestry, generated, claims, index')
                                           /\ OnTip(ancestry, claims)
    BY <1>3
  <2>2. /\ Claimed(head)' = claims \cup UNION {history[g].claims : g \in ancestry}
        /\ \A c \in Commits : Claimed(c)' = Claimed(c)
    BY <2>1, ClaimedMade
  <2>3. Tree(head)' = index'
    BY <2>1, MadeFacts, Zenon
  <2>4. claims \cup UNION {history[g].claims : g \in ancestry} = Claimed(head)
    BY <1>1, <2>1 DEF OnTip
  <2>. QED  BY <2>2, <2>3, <2>4
<1>. QED  BY <1>2, <1>3, DevMakes

LEMMA CommitClaims ==
    ASSUME TypeOK, Lineal, LineagesExist, NEW p \in Proc, Commit(p)
    PROVE  /\ Claimed(head)' = Claimed(head) \cup job[p].done
           /\ \A c \in Commits : Claimed(c)' = Claimed(c)
           /\ Tree(head)' = Put(Tree(head), work, job[p].done)
<1>1. PICK S, tree : S = job[p].done /\ tree = Put(Tree(head), work, S)
  OBVIOUS
<1>2. Made(Anc(head), TRUE, S, tree) /\ RepoTypeOK
  BY <1>1, CommitMakes DEF TypeOK
<1>3. /\ Claimed(head)' = S \cup UNION {history[g].claims : g \in Anc(head)}
      /\ \A c \in Commits : Claimed(c)' = Claimed(c)
  BY <1>2, ClaimedMade
<1>4. Tree(head)' = tree
  BY <1>2, MadeFacts, Zenon
<1>. QED  BY <1>1, <1>3, <1>4 DEF Claimed

LEMMA ClaimsStay ==
    ASSUME OneLineage, TypeOK, Lineal, LineagesExist, [Next]_vars
    PROVE  /\ \A c \in Commits : Claimed(c)' = Claimed(c)
           /\ ~ (\E p \in Proc : Commit(p)) => Claimed(head)' = Claimed(head)
<1>1. CASE DevStep
  BY <1>1, DevClaims DEF TypeOK
<1>2. CASE \E p \in Proc : Commit(p)
  BY <1>2, CommitClaims
<1>3. CASE UNCHANGED <<history, head>>
  BY <1>3 DEF Claimed, Anc, Commits
<1>. QED  BY <1>1, <1>2, <1>3, HistoryStays

(* What a run can commit was there before. *)
LEMMA CanCommitPast ==
    ASSUME StoresMeaningful, head \in Commits, NEW S, CanCommit(S)
    PROVE  S \subseteq Commits
  BY DEF CanCommit, StoresMeaningful, Meaningful

LEMMA ClaimsPastNext ==
    OneLineage => (/\ TypeOK /\ Lineal /\ LineagesExist /\ StoresMeaningful /\ ClaimsPast
                   /\ [Next]_vars
                   => ClaimsPast')
<1>. SUFFICES ASSUME OneLineage, TypeOK, Lineal, LineagesExist, StoresMeaningful,
                     ClaimsPast, [Next]_vars
              PROVE  ClaimsPast'
  OBVIOUS
<1>1. CASE UNCHANGED <<history, head>>
  BY <1>1 DEF ClaimsPast, Commits, IsGenerated
<1>2. CASE \E ancestry, generated, claims, tree : Made(ancestry, generated, claims, tree)
  <2>1. PICK ancestry, generated, claims, tree : Made(ancestry, generated, claims, tree)
    BY <1>2
  <2>2. PICK h : h = head'
    OBVIOUS
  <2>3. /\ Commits' = Commits \cup {h}
        /\ h \in Nat /\ \A c \in Commits : c \in Nat /\ c < h
        /\ \A c \in Commits : IsGenerated(c)' = IsGenerated(c) /\ history'[c] = history[c]
        /\ IsGenerated(h)' = generated /\ history'[h].claims = claims /\ head \in Commits
    BY <2>1, <2>2, MadeFacts, Zenon DEF TypeOK
  <2>4. \A c \in claims : generated /\ c < h
    <3>1. CASE claims = {}
      BY <3>1
    <3>2. CASE generated = IsGenerated(head) /\ claims = history[head].claims
      <4>1. \A c \in claims : IsGenerated(head) /\ c < head
        BY <2>3, <3>2 DEF ClaimsPast
      <4>2. claims \subseteq Nat
        BY <2>1 DEF Made
      <4>. QED  BY <2>3, <3>2, <4>1, <4>2
    <3>3. ASSUME NEW p \in Proc, Commit(p), generated = TRUE, claims = job[p].done
          PROVE  \A c \in claims : generated /\ c < h
      <4>1. CanCommit(job[p].done)
        BY <3>3 DEF Commit, GeneratedProofCommit
      <4>2. job[p].done \subseteq Commits
        BY <2>3, <4>1, CanCommitPast
      <4>. QED  BY <2>3, <3>3, <4>2
    <3>. QED  BY <2>1, <3>1, <3>2, <3>3 DEF Made
  <2>. QED  BY <2>3, <2>4 DEF ClaimsPast
<1>. QED  BY <1>1, <1>2, LinearSteps

-----------------------------------------------------------------------------
(* What is claimed and on disk is in HEAD's tree *)

(* The developer puts nothing new on disk. *)
LEMMA DevDisk ==
    ASSUME OneLineage, RepoTypeOK, DevStep, NEW c, HasPair(work, c)'
    PROVE  /\ HasPair(work, c)
           /\ HasPair(index, c) => HasPair(index, c)'
<1>1. Calm
  BY DEF OneLineage, Calm
<1>2. HasPair(work, c)
  BY <1>1, DevWork DEF Holds, HasPair, Described
<1>3. CASE DevCommit \/ DevAmend \/ DevClean \/ Tick
  BY <1>2, <1>3 DEF DevCommit, DevAmend, DevClean, Tick, HasPair
<1>4. CASE DevDrop
  <2>1. PICK d : index' = Put(index, EmptyStore, {d}) /\ work' = Put(work, EmptyStore, {d})
    BY <1>4 DEF DevDrop
  <2>2. c # d
    BY <2>1 DEF HasPair, Put, EmptyStore
  <2>3. HasPair(index, c) => HasPair(Put(index, EmptyStore, {d}), c)
    BY <2>2 DEF HasPair, Put, Described
  <2>. QED  BY <1>2, <2>1, <2>3 DEF HasPair, Described
<1>5. ~DevReset /\ ~DevMerge
  BY DEF DevReset, DevMerge, Dev, OneLineage
<1>. QED  BY <1>3, <1>4, <1>5 DEF DevStep

LEMMA DevClaimsOnRecord ==
    ASSUME OneLineage, RepoTypeOK, Lineal, Backed, ClaimsOnRecord, DevStep
    PROVE  ClaimsOnRecord'
<1>. SUFFICES ASSUME NEW c \in Claimed(head)', HasPair(work, c)'
              PROVE  HasPair(Tree(head), c)'
  BY DEF ClaimsOnRecord
<1>1. c \in Claimed(head) /\ (UNCHANGED <<history, head>> \/ Tree(head)' = index')
  BY DevClaims DEF Backed
<1>2. HasPair(Tree(head), c)
  BY <1>1, DevDisk DEF ClaimsOnRecord
<1>3. CASE UNCHANGED <<history, head>>
  BY <1>2, <1>3 DEF HasPair, Described, Tree
<1>4. CASE Tree(head)' = index'
  <2>1. HasPair(index, c)
    BY <1>2, WithinPairs DEF Backed, Layered
  <2>2. HasPair(index, c)'
    BY <2>1, DevDisk
  <2>. QED  BY <1>4, <2>2 DEF HasPair, Described
<1>. QED  BY <1>1, <1>3, <1>4

LEMMA CommitClaimsOnRecord ==
    ASSUME TypeOK, Lineal, Backed, ClaimsOnRecord, NEW p \in Proc, Commit(p)
    PROVE  ClaimsOnRecord'
<1>1. PICK S, tree : S = job[p].done /\ tree = Put(Tree(head), work, S)
  OBVIOUS
<1>2. Claimed(head)' = Claimed(head) \cup S /\ Tree(head)' = tree
  BY <1>1, CommitClaims DEF Backed
<1>3. UNCHANGED work /\ CanCommit(S)
  BY <1>1 DEF Commit, GeneratedProofCommit
<1>4. \A c \in S : HasPair(tree, c)
  BY <1>1, <1>3, CommittedPairs
<1>5. ASSUME NEW c \in Claimed(head), c \notin S, HasPair(work, c)
      PROVE  HasPair(tree, c)
  <2>1. HasPair(Tree(head), c)
    BY <1>5 DEF ClaimsOnRecord
  <2>. QED  BY <1>1, <1>5, <2>1, PutParts DEF HasPair
<1>6. \A c : HasPair(work, c)' => HasPair(work, c)
  BY <1>3 DEF HasPair, Described
<1>7. \A c : HasPair(tree, c) => HasPair(Tree(head), c)'
  BY <1>2 DEF HasPair, Described
<1>. QED  BY <1>2, <1>4, <1>5, <1>6, <1>7 DEF ClaimsOnRecord

(* Only a step of the loop puts files on disk, and only of its source. *)
LEMMA DiskGains ==
    ASSUME TypeOK, JobsConsistent, NEW p \in Proc,
           Acquire(p) \/ AcquireForRepair(p) \/ Step(p) \/ Disturb(p)
    PROVE  \/ UNCHANGED work
           \/ /\ PersistProof(p) \/ PersistManifest(p)
              /\ pc[p] \in {"proof", "manifest"}
              /\ \A c : HasPair(work, c)' => HasPair(work, c) \/ c = Min(job[p].todo)
<1>1. CASE PersistProof(p)
  BY <1>1 DEF PersistProof, At, HasPair, Described, TypeOK, RepoTypeOK, Store
<1>2. CASE PersistManifest(p)
  <2>. DEFINE c == Min(job[p].todo)
  <2>1. pc[p] = "manifest" /\ work' = [work EXCEPT !.json = work.json \cup {StampOf(job[p], c)}]
    BY <1>2 DEF PersistManifest, At
  <2>2. StampOf(job[p], c).src = c
    BY StampOfFacts
  <2>. HIDE DEF c
  <2>3. \A d : HasPair(work, d)' => HasPair(work, d) \/ d = c
    BY <2>1, <2>2 DEF HasPair, Described, TypeOK, RepoTypeOK, Store
  <2>. QED  BY <1>2, <2>1, <2>3 DEF c
<1>3. CASE Stage(p) \/ Commit(p) \/ LeavesFiles(p)
  BY <1>3, LeavesFilesFacts DEF Stage, Commit
<1>. QED  BY <1>1, <1>2, <1>3, ProcessSteps

LEMMA ClaimsOnRecordNext ==
    OneLineage => (/\ TypeOK /\ JobsConsistent /\ Lineal /\ Backed /\ JobsClaims
                   /\ ClaimsOnRecord /\ [Next]_vars
                   => ClaimsOnRecord')
<1>. SUFFICES ASSUME OneLineage, TypeOK, JobsConsistent, Lineal, Backed, JobsClaims,
                     ClaimsOnRecord, [Next]_vars
              PROVE  ClaimsOnRecord'
  OBVIOUS
<1>1. CASE DevStep
  BY <1>1, DevClaimsOnRecord DEF TypeOK
<1>2. CASE \E p \in Proc : Commit(p)
  BY <1>2, CommitClaimsOnRecord
<1>3. CASE ~DevStep /\ ~ \E p \in Proc : Commit(p)
  <2>1. UNCHANGED <<history, head>> /\ Claimed(head)' = Claimed(head)
    BY <1>3, HistoryStays, ClaimsStay DEF Backed
  <2>2. \A c \in Claimed(head) : HasPair(work, c)' => HasPair(work, c)
    <3>1. CASE \E p \in Proc : Acquire(p) \/ AcquireForRepair(p) \/ Step(p) \/ Disturb(p)
      <4>1. PICK p \in Proc : Acquire(p) \/ AcquireForRepair(p) \/ Step(p) \/ Disturb(p)
        BY <3>1
      <4>2. pc[p] \in {"proof", "manifest"} => Min(job[p].todo) \notin Claimed(head)
        BY DEF JobsClaims, JobClaims
      <4>3. UNCHANGED work => \A c : HasPair(work, c)' => HasPair(work, c)
        BY DEF HasPair, Described
      <4>. QED  BY <4>1, <4>2, <4>3, DiskGains
    <3>2. CASE EnableProofCommit \/ UNCHANGED vars
      BY <3>2 DEF EnableProofCommit, vars, repoVars, HasPair, Described
    <3>. QED  BY <1>3, <3>1, <3>2 DEF Next, DevStep
  <2>3. \A c : HasPair(Tree(head), c)' <=> HasPair(Tree(head), c)
    BY <2>1 DEF HasPair, Described, Tree
  <2>. QED  BY <2>1, <2>2, <2>3 DEF ClaimsOnRecord
<1>. QED  BY <1>1, <1>2, <1>3

(* A pending source that no commit above the baseline claims, no commit of *)
(* the lineage claims: a claim comes after its source.                     *)
LEMMA UnclaimedPending ==
    ASSUME RepoTypeOK, LineagesExist, Lineal, Chained, ClaimsPast,
           NEW src \in Commits, NEW base, base # None => base \in Anc(src),
           NEW c \in PendingMeaningful(src, base), Claiming(c, src, base) = {}
    PROVE  c \notin Claimed(src)
<1>. SUFFICES ASSUME NEW g \in Anc(src), c \in history[g].claims PROVE FALSE
  BY DEF Claimed
<1>1. g \in Commits /\ c \in Anc(src) /\ IsGenerated(g) /\ c < g
  BY DEF LineagesExist, ClaimsPast, PendingMeaningful
<1>2. g \in GeneratedAncestors(src)
  BY <1>1 DEF GeneratedAncestors
<1>3. base # None /\ g \in Anc(base)
  BY <1>2 DEF Claiming
<1>4. base \in Commits /\ c \notin Anc(base)
  BY <1>3 DEF LineagesExist, PendingMeaningful
<1>5. c \in Anc(g)
  BY <1>1, ChainOrder
<1>. QED  BY <1>3, <1>4, <1>5 DEF Lineal

(* What is pending between a baseline and a source never changes. *)
LEMMA PendingStays ==
    ASSUME HistoryGrows, LineagesExist, NEW src \in Commits, NEW base,
           base # None => base \in Anc(src)
    PROVE  /\ Anc(src)' = Anc(src) /\ Tree(src)' = Tree(src)
           /\ PendingMeaningful(src, base)' = PendingMeaningful(src, base)
<1>1. /\ Anc(src)' = Anc(src) /\ Tree(src)' = Tree(src)
      /\ \A c \in Anc(src) : history'[c] = history[c]
  BY DEF HistoryGrows, Anc, Tree, LineagesExist
<1>2. \A c \in Anc(src) : IsGenerated(c)' = IsGenerated(c) /\ Anc(c)' = Anc(c)
  BY <1>1 DEF IsGenerated, Anc
<1>. QED  BY <1>1, <1>2 DEF PendingMeaningful

LEMMA JobClaimsStays ==
    ASSUME HistoryGrows, LineagesExist, NEW j, NEW step,
           step \notin {"idle", "snapshot", "survey"} => j.src \in Commits,
           \A c \in Commits : Claimed(c)' = Claimed(c), Claimed(head)' = Claimed(head),
           \A c \in Claimed(head) : HasPair(work, c)' => HasPair(work, c),
           JobClaims(j, step)
    PROVE  JobClaims(j, step)'
<1>1. CASE step \notin {"scan", "adopt", "complete"} \cup Selecting
  BY <1>1 DEF JobClaims, Selecting
<1>2. CASE step \in {"scan", "adopt", "complete"} \cup Selecting
  <2>1. PICK src : src = j.src
    OBVIOUS
  <2>2. src \in Commits
    BY <1>2, <2>1 DEF Selecting
  <2>3. PICK base : base = BaseSource(j.base)
    OBVIOUS
  <2>4. Claimed(src)' = Claimed(src) /\ Tree(src)' = Tree(src) /\ Anc(src)' = Anc(src)
    BY <2>2, PendingStays DEF HistoryGrows, Tree, Anc
  <2>5. ASSUME step \in {"scan"} \cup Selecting
        PROVE  PendingMeaningful(src, base)' = PendingMeaningful(src, base)
    <3>1. base # None => base \in Anc(src)
      BY <2>1, <2>3, <2>5 DEF JobClaims, BaseSource
    <3>. QED  BY <2>2, <3>1, PendingStays
  <2>6. \A c : HasPair(Tree(src), c)' <=> HasPair(Tree(src), c)
    BY <2>4 DEF HasPair, Described
  <2>7. Claimed(head) = Claimed(src)
    BY <1>2, <2>1 DEF JobClaims
  <2>8. /\ step \in {"scan"} \cup Selecting =>
             /\ j.base # None => j.base.src \in Anc(src)
             /\ j.decision \subseteq PendingMeaningful(src, base)
        /\ step = "scan" => \A c \in Claimed(head) : HasPair(work, c) => HasPair(Tree(src), c)
        /\ step \in {"submit", "proof", "manifest"} => Min(j.todo) \notin Claimed(head)
    BY <2>1, <2>3 DEF JobClaims
  <2>9. /\ step \in {"scan", "adopt", "complete"} \cup Selecting => Claimed(head)' = Claimed(src)'
        /\ step \in {"scan"} \cup Selecting =>
             /\ j.base # None => j.base.src \in Anc(src)'
             /\ j.decision \subseteq PendingMeaningful(src, base)'
        /\ step = "scan" => \A c \in Claimed(head)' : HasPair(work, c)' => HasPair(Tree(src), c)'
        /\ step \in {"submit", "proof", "manifest"} => Min(j.todo) \notin Claimed(head)'
    BY <2>4, <2>5, <2>6, <2>7, <2>8
  <2>. QED  BY <2>1, <2>3, <2>9 DEF JobClaims
<1>. QED  BY <1>1, <1>2

(* The snapshot. *)
LEMMA SnapshotClaims ==
    ASSUME TypeOK, ClaimsOnRecord, NEW p \in Proc, TakeSnapshot(p)
    PROVE  JobClaims(job[p], pc[p])'
<1>1. /\ pc'[p] = "scan" /\ job'[p].src = head /\ job'[p].base = Baseline(head)
      /\ job'[p].decision = DecisionFor(head, job[p].clock).commits
  BY TakeSnapshotDoes
<1>2. UNCHANGED repoVars
  BY DEF TakeSnapshot
<1>3. PICK j : j = job'[p]
  OBVIOUS
<1>4. /\ j.base # None => j.base.src \in Anc(head)
      /\ j.decision \subseteq PendingMeaningful(head, BaseSource(j.base))
      /\ \A c \in Claimed(head) : HasPair(work, c) => HasPair(Tree(head), c)
  BY <1>1, <1>3, BaselineOnLineage, DecidesWith, DecidesPending DEF ClaimsOnRecord
<1>5. JobClaims(j, "scan")
  BY <1>1, <1>3, <1>4 DEF JobClaims, Selecting
<1>6. JobClaims(j, "scan")'
  BY <1>2, <1>5 DEF repoVars, JobClaims, Claimed, Anc, HasPair, Described, Tree,
                    PendingMeaningful, IsGenerated
<1>. QED  BY <1>1, <1>3, <1>6

LEMMA JobsClaimsNext ==
    OneLineage => (/\ TypeOK /\ JobsConsistent /\ LockHeld /\ Lineal /\ Backed /\ Chained
                   /\ ClaimsPast /\ OwnDecision /\ ClaimsOnRecord /\ JobsClaims
                   /\ [Next]_vars
                   => JobsClaims')
<1>. SUFFICES ASSUME OneLineage, TypeOK, JobsConsistent, LockHeld, Lineal, Backed, Chained,
                     ClaimsPast, OwnDecision, ClaimsOnRecord, JobsClaims, [Next]_vars
              PROVE  JobsClaims'
  OBVIOUS
<1>1. HistoryGrows
  BY TypeStep DEF vars, repoVars, HistoryGrows, Commits
<1>2. LineagesExist /\ \A c \in Commits : Claimed(c)' = Claimed(c)
  BY ClaimsStay DEF Backed
<1>3. \A p \in Proc : pc[p] \notin {"idle", "snapshot", "survey"} => job[p].src \in Commits
  BY DEF JobsConsistent
<1>4. ASSUME DevStep \/ EnableProofCommit \/ UNCHANGED vars, UNCHANGED <<pc, job>>
      PROVE  JobsClaims'
  <2>1. /\ Claimed(head)' = Claimed(head)
        /\ \A c : HasPair(work, c)' => HasPair(work, c)
    <3>1. CASE DevStep
      BY <1>2, <3>1, DevClaims, DevDisk DEF TypeOK
    <3>2. CASE EnableProofCommit \/ UNCHANGED vars
      BY <3>2 DEF EnableProofCommit, vars, repoVars, HasPair, Described, Claimed, Anc
    <3>. QED  BY <1>4, <3>1, <3>2
  <2>2. ASSUME NEW p \in Proc
        PROVE  JobClaims(job[p], pc[p])'
    <3>1. PICK j, step : j = job[p] /\ step = pc[p]
      OBVIOUS
    <3>2. JobClaims(j, step) /\ (step \notin {"idle", "snapshot", "survey"} => j.src \in Commits)
      BY <1>3, <3>1 DEF JobsClaims
    <3>3. JobClaims(j, step)'
      BY <1>1, <1>2, <2>1, <3>2, JobClaimsStays
    <3>. QED  BY <1>4, <3>1, <3>3
  <2>. QED  BY <2>2 DEF JobsClaims
<1>5. ASSUME NEW p \in Proc, Acquire(p) \/ AcquireForRepair(p) \/ Step(p) \/ Disturb(p)
      PROVE  JobsClaims'
  <2>1. \A q \in Proc \ {p} : pc'[q] = "idle"
    BY <1>5, OthersIdle
  <2>2. SUFFICES JobClaims(job[p], pc[p])'
    BY <2>1 DEF JobsClaims, JobClaims, Selecting
  <2>3. PICK j, k : j = job[p] /\ k = job'[p]
    OBVIOUS
  <2>4. JobClaims(j, pc[p])
    BY <2>3 DEF JobsClaims
  <2>5. CASE TakeSnapshot(p)
    BY <2>5, SnapshotClaims
  <2>6. CASE pc'[p] \notin {"scan", "adopt", "complete"} \cup Selecting
    BY <2>6 DEF JobClaims, Selecting
  <2>7. ASSUME pc[p] \in {"scan", "adopt", "complete"} \cup Selecting, Frozen(j, k),
               \/ pc'[p] \in {"adopt", "complete"}
               \/ /\ pc'[p] \in Selecting /\ pc[p] \in {"scan"} \cup Selecting
                  /\ pc'[p] \in {"submit", "proof", "manifest"} =>
                        Min(k.todo) \notin Claimed(head),
               ~Commit(p)
        PROVE  JobClaims(job[p], pc[p])'
    <3>1. j.src \in Commits /\ Claimed(head) = Claimed(j.src)
      BY <1>3, <2>3, <2>4, <2>7 DEF JobClaims, Selecting
    <3>2. ~ \E q \in Proc : Commit(q)
      <4>1. ASSUME NEW q \in Proc, Commit(q) PROVE FALSE
        <5>1. q = p
          BY <1>5, <2>1, <4>1 DEF Commit, Goto, TypeOK
        <5>. QED  BY <2>7, <4>1, <5>1
      <4>. QED  BY <4>1
    <3>3. Claimed(head)' = Claimed(head)
      BY <1>2, <3>2, ClaimsStay
    <3>4. k.src = j.src /\ k.base = j.base /\ k.decision = j.decision
      BY <2>7 DEF Frozen
    <3>5. PICK src, base : src = j.src /\ base = BaseSource(j.base)
      OBVIOUS
    <3>6. Claimed(src)' = Claimed(src)
      BY <1>2, <3>1, <3>5
    <3>7. ASSUME pc'[p] \in Selecting
          PROVE  /\ k.base # None => k.base.src \in Anc(src)'
                 /\ k.decision \subseteq PendingMeaningful(src, base)'
      <4>1. /\ j.base # None => j.base.src \in Anc(src)
            /\ j.decision \subseteq PendingMeaningful(src, base)
        BY <2>4, <2>7, <3>5, <3>7 DEF JobClaims, Selecting
      <4>2. base # None => base \in Anc(src)
        BY <3>5, <4>1 DEF BaseSource
      <4>. QED  BY <1>1, <1>2, <3>1, <3>4, <3>5, <4>1, <4>2, PendingStays
    <3>8. JobClaims(k, pc[p])'
      BY <2>7, <3>1, <3>3, <3>4, <3>5, <3>6, <3>7 DEF JobClaims, Selecting
    <3>. QED  BY <2>3, <3>8
  <2>8. CASE Scan(p)
    BY <2>3, <2>7, <2>8, ScanDoes DEF Scan, At, Selecting, Commit
  <2>9. CASE BeginCompletion(p) \/ PassOver(p) \/ CompleteTag(p)
    <3>1. pc[p] \in {"adopt", "complete"} /\ ~Commit(p)
      BY <2>9 DEF BeginCompletion, PassOver, CompleteTag, At, Commit
    <3>2. pc'[p] \in {"complete", "repair"} => Frozen(j, k)
      BY <2>3, <2>9, OtherwiseDoes
    <3>. QED  BY <2>6, <2>7, <2>9, <3>1, <3>2, OtherwiseDoes DEF Selecting
  <2>10. CASE Recover(p) \/ PersistManifest(p)
    <3>1. /\ pc[p] \in {"select", "manifest"} /\ pc'[p] = "select" /\ Frozen(j, k)
      BY <2>3, <2>10, RecoverDoes, PersistManifestDoes
    <3>. QED  BY <2>7, <3>1 DEF Selecting, Commit, At
  <2>11. CASE BeginSubmit(p)
    <3>1. /\ pc[p] = "select" /\ pc'[p] = "submit" /\ Frozen(j, k) /\ k = j
      BY <2>3, <2>11, MovesOn
    <3>2. PICK c : c = Min(j.todo)
      OBVIOUS
    <3>3. j.todo # {} /\ Claiming(c, j.src, BaseSource(j.base)) = {}
      BY <2>3, <2>11, <3>2 DEF BeginSubmit
    <3>4. c \in j.decision
      BY <2>3, <3>1, <3>2, <3>3, JobFacts, MinType DEF OwnDecision, Selecting
    <3>5. /\ j.base # None => j.base.src \in Anc(j.src)
          /\ c \in PendingMeaningful(j.src, BaseSource(j.base))
          /\ Claimed(head) = Claimed(j.src) /\ j.src \in Commits
      BY <1>3, <2>3, <2>4, <3>1, <3>4 DEF JobClaims, Selecting
    <3>6. PICK base : base = BaseSource(j.base)
      OBVIOUS
    <3>7. base # None => base \in Anc(j.src)
      BY <3>5, <3>6 DEF BaseSource
    <3>8. c \notin Claimed(head)
      BY <1>2, <3>3, <3>5, <3>6, <3>7, UnclaimedPending DEF TypeOK
    <3>. QED  BY <2>7, <3>1, <3>2, <3>8 DEF Selecting, Commit, At
  <2>12. CASE Submit(p) \/ PersistProof(p)
    <3>1. /\ pc[p] \in {"submit", "proof"} /\ pc'[p] \in {"proof", "manifest"}
          /\ Frozen(j, k) /\ k = j
      BY <2>3, <2>12, MovesOn
    <3>2. Min(j.todo) \notin Claimed(head)
      BY <2>4, <3>1 DEF JobClaims
    <3>. QED  BY <2>7, <3>1, <3>2 DEF Selecting, Commit, At
  <2>13. CASE FinishSelection(p) \/ Stage(p) \/ Commit(p) \/ AdoptLegacy(p)
             \/ CheckDurable(p) \/ TagNext(p)
    <3>1. pc'[p] \in {"durable", "stage", "commit", "tag", "idle"}
      BY <2>13, MovesOn, AdoptLegacyDoes, CheckDurableDoes, TagNextDoes
    <3>. QED  BY <2>6, <3>1 DEF Selecting
  <2>14. CASE Acquire(p) \/ AcquireForRepair(p) \/ Survey(p) \/ Ending(p) \/ SubmitFails(p)
              \/ RepairPassesOver(p) \/ RepairTag(p)
    <3>1. pc'[p] \in {"snapshot", "survey", "repair", "idle"}
      <4>1. CASE RepairPassesOver(p) \/ RepairTag(p)
        BY <4>1, RepairDoes
      <4>. QED  BY <2>14, <4>1, AcquireDoes, SurveyDoes, EndDoes
    <3>. QED  BY <2>6, <3>1 DEF Selecting
  <2>. QED  BY <1>5, <2>5, <2>8, <2>9, <2>10, <2>11, <2>12, <2>13, <2>14
            DEF Step, Disturb, Ending
<1>6. CASE UNCHANGED <<pc, job>> /\ (DevStep \/ EnableProofCommit \/ UNCHANGED vars)
  BY <1>4, <1>6
<1>7. DevStep /\ UNCHANGED runVars => UNCHANGED <<pc, job>>
  BY DEF runVars
<1>8. EnableProofCommit \/ UNCHANGED vars => UNCHANGED <<pc, job>>
  BY DEF EnableProofCommit, vars, runVars
<1>. QED  BY <1>5, <1>6, <1>7, <1>8 DEF Next, DevStep

LEMMA OwnDecisionInvariant == Spec => []OwnDecision
<1>1. Init => OwnDecision
  BY DEF Init, OwnDecision, Selecting
<1>. QED  BY TypeInvariant, LockInvariant, <1>1, OwnDecisionNext, PTL DEF Spec

LEMMA ClaimsInvariant ==
    ASSUME OneLineage
    PROVE  Spec => [](Chained /\ ClaimsPast /\ ClaimsOnRecord /\ JobsClaims)
<1>1. Init => Chained /\ ClaimsPast /\ ClaimsOnRecord /\ JobsClaims
  <2>. SUFFICES ASSUME Init PROVE Chained /\ ClaimsPast /\ ClaimsOnRecord /\ JobsClaims
    OBVIOUS
  <2>1. /\ Commits = {1} /\ Anc(1) = {1} /\ head = 1 /\ history[1].claims = {}
        /\ \A p \in Proc : pc[p] = "idle"
    BY DEF Init, RepoInit, Commits, Anc
  <2>2. Claimed(head) = {}
    BY <2>1 DEF Claimed
  <2>. QED  BY <2>1, <2>2 DEF Chained, ClaimsPast, ClaimsOnRecord, JobsClaims, JobClaims, Selecting
<1>2. Spec => [](TypeOK /\ JobsConsistent /\ LockHeld /\ Lineal /\ Backed /\ LineagesExist
                 /\ StoresMeaningful /\ OwnDecision)
  <2>1. Backed => LineagesExist
    BY DEF Backed
  <2>. QED  BY <2>1, TypeInvariant, LockInvariant, LinealInvariant, BackedInvariant,
               MeaningfulInvariant, OwnDecisionInvariant, PTL
<1>3. Spec => [](Chained /\ ClaimsPast)
  <2>1. TypeOK /\ Lineal /\ LineagesExist /\ Chained /\ [Next]_vars => Chained'
    BY ChainedNext
  <2>2. TypeOK /\ Lineal /\ LineagesExist /\ StoresMeaningful /\ ClaimsPast /\ [Next]_vars
        => ClaimsPast'
    BY ClaimsPastNext
  <2>. QED  BY <1>1, <1>2, <2>1, <2>2, PTL DEF Spec
<1>4. Spec => [](ClaimsOnRecord /\ JobsClaims)
  <2>1. /\ TypeOK /\ JobsConsistent /\ Lineal /\ Backed /\ JobsClaims
        /\ ClaimsOnRecord /\ [Next]_vars
        => ClaimsOnRecord'
    BY ClaimsOnRecordNext
  <2>2. /\ TypeOK /\ JobsConsistent /\ LockHeld /\ Lineal /\ Backed /\ Chained
        /\ ClaimsPast /\ OwnDecision /\ ClaimsOnRecord /\ JobsClaims /\ [Next]_vars
        => JobsClaims'
    BY JobsClaimsNext
  <2>. QED  BY <1>1, <1>2, <1>3, <2>1, <2>2, PTL DEF Spec
<1>. QED  BY <1>3, <1>4, PTL

-----------------------------------------------------------------------------
(* Submissions are dated by their runs *)

(* Where a run that is selecting comes from. *)
LEMMA Selects ==
    ASSUME TypeOK, NEW p \in Proc, Acquire(p) \/ AcquireForRepair(p) \/ Step(p) \/ Disturb(p),
           pc'[p] \in {"scan"} \cup Selecting
    PROVE  \/ TakeSnapshot(p)
           \/ pc[p] \in {"scan"} \cup Selecting /\ Frozen(job[p], job'[p])
<1>1. CASE Scan(p)
  BY <1>1, ScanDoes DEF Scan, At
<1>2. CASE Recover(p) \/ PersistManifest(p)
  BY <1>2, RecoverDoes, PersistManifestDoes DEF Selecting
<1>3. CASE BeginSubmit(p) \/ Submit(p) \/ PersistProof(p)
  BY <1>3, MovesOn DEF Selecting
<1>4. CASE FinishSelection(p) \/ Stage(p) \/ Commit(p) \/ AdoptLegacy(p)
           \/ CheckDurable(p) \/ TagNext(p)
  <2>1. pc'[p] \in {"durable", "stage", "commit", "tag", "idle"}
    BY <1>4, MovesOn, AdoptLegacyDoes, CheckDurableDoes, TagNextDoes
  <2>. QED  BY <2>1 DEF Selecting
<1>5. CASE Acquire(p) \/ AcquireForRepair(p) \/ Survey(p) \/ Ending(p) \/ SubmitFails(p)
           \/ BeginCompletion(p) \/ PassOver(p) \/ CompleteTag(p)
           \/ RepairPassesOver(p) \/ RepairTag(p)
  <2>1. pc'[p] \in {"snapshot", "survey", "repair", "complete", "idle"}
    BY <1>5, AcquireDoes, SurveyDoes, EndDoes, OtherwiseDoes
  <2>. QED  BY <2>1 DEF Selecting
<1>. QED  BY <1>1, <1>2, <1>3, <1>4, <1>5 DEF Step, Disturb, Ending

(* A submission that is new is for the run's next source and at its time. *)
LEMMA NewSubmission ==
    ASSUME TypeOK, JobsConsistent, OwnDecision, JobsAttested, [Next]_vars,
           NEW s \in calendar' \ calendar
    PROVE  \E p \in Proc : /\ Submit(p) \/ SubmitFails(p)
                           /\ pc[p] = "submit" /\ job[p].todo # {}
                           /\ s.src = Min(job[p].todo) /\ s.src \in job[p].decision
                           /\ s.at = job[p].at
                           /\ UNCHANGED repoVars
<1>1. PICK p \in Proc : Submit(p) \/ SubmitFails(p)
  BY WhoMoves, CalendarUntouched
<1>2. PICK c : c = Min(job[p].todo)
  OBVIOUS
<1>3. /\ pc[p] = "submit" /\ calendar' \subseteq calendar \cup {StampOf(job[p], c)}
      /\ UNCHANGED repoVars
  BY <1>1, <1>2 DEF Submit, SubmitFails, At
<1>4. s = StampOf(job[p], c) /\ job[p].rec \subseteq calendar
  BY <1>3 DEF JobsAttested, JobAttested
<1>5. s.src = c /\ s.at = job[p].at
  BY <1>4, StampOfFacts
<1>6. job[p].todo # {} /\ c \in job[p].todo /\ job[p].todo \subseteq job[p].decision
  <2>1. job[p].todo # {} /\ job[p].todo \subseteq job[p].decision
    BY <1>3 DEF JobsConsistent, OwnDecision, Selecting
  <2>. QED  BY <1>2, <2>1, JobFacts, MinType
<1>. QED  BY <1>1, <1>2, <1>3, <1>5, <1>6

LEMMA CalendarGrows ==
    ASSUME TypeOK, [Next]_vars
    PROVE  calendar \subseteq calendar' /\ now \in Nat /\ now' \in Nat /\ now' >= now
<1>1. now \in Nat
  BY DEF TypeOK, RepoTypeOK
<1>2. CASE \E p \in Proc : Acquire(p) \/ AcquireForRepair(p) \/ Step(p) \/ Disturb(p)
  <2>1. PICK p \in Proc : Acquire(p) \/ AcquireForRepair(p) \/ Step(p) \/ Disturb(p)
    BY <1>2
  <2>2. calendar \subseteq calendar'
    BY <2>1, CalendarUntouched DEF Submit, SubmitFails
  <2>3. CASE Ending(p)
    BY <1>1, <2>2, <2>3, EndingFacts DEF repoVars
  <2>4. CASE ~Ending(p)
    <3>1. now' = now
      BY <2>1, <2>4 DEF Step, Disturb, Ending, repoVars, Acquire, AcquireForRepair,
         TakeSnapshot, Scan, AdoptLegacy, BeginCompletion, CompleteTag, PassOver, Recover,
         BeginSubmit, Submit, SubmitFails, PersistProof, PersistManifest, FinishSelection,
         CheckDurable, Stage, Commit, TagNext, Survey, RepairPassesOver, RepairTag
    <3>. QED  BY <1>1, <2>2, <3>1
  <2>. QED  BY <2>3, <2>4
<1>3. CASE DevStep /\ UNCHANGED runVars
  <2>1. now' = now \/ now' = now + 1
    BY <1>3 DEF DevStep, DevCommit, DevAmend, DevReset, DevMerge, DevDrop, DevClean, Tick, Dev
  <2>. QED  BY <1>1, <1>3, <2>1 DEF runVars
<1>4. CASE EnableProofCommit \/ UNCHANGED vars
  BY <1>1, <1>4 DEF EnableProofCommit, Dev, vars, repoVars, runVars
<1>. QED  BY <1>2, <1>3, <1>4 DEF Next, DevStep

LEMMA DatedNext ==
    /\ TypeOK /\ JobsConsistent /\ LockHeld /\ OwnDecision /\ StoresAttested /\ JobsAttested
    /\ JobsMeaningful /\ Dated /\ [Next]_vars
    => Dated'
<1>. SUFFICES ASSUME TypeOK, JobsConsistent, LockHeld, OwnDecision, JobsAttested,
                     JobsMeaningful, Dated, [Next]_vars
              PROVE  Dated'
  OBVIOUS
<1>1. HistoryGrows
  BY TypeStep DEF vars, repoVars, HistoryGrows, Commits
<1>2. \A c \in Commits : ~IsGenerated(c) => c \in Commits' /\ ~IsGenerated(c)'
  BY <1>1, MeaningfulStays
<1>3. calendar \subseteq calendar' /\ now \in Nat /\ now' \in Nat /\ now' >= now
  BY CalendarGrows
<1>4. \A s \in calendar : s.at \in Nat
  BY DEF TypeOK, Stamp
<1>5. ASSUME NEW s \in calendar'
      PROVE  s.src \in Commits' /\ ~IsGenerated(s.src)' /\ s.at <= now'
  <2>1. CASE s \in calendar
    BY <1>2, <1>3, <1>4, <2>1 DEF Dated
  <2>2. CASE s \notin calendar
    <3>1. PICK p \in Proc : /\ pc[p] = "submit" /\ s.src \in job[p].decision /\ s.at = job[p].at
      BY <2>2, NewSubmission
    <3>2. s.src \in Commits /\ ~IsGenerated(s.src) /\ job[p].at <= now /\ job[p].at \in Nat
      BY <3>1, JobFacts DEF JobsMeaningful, Meaningful, Selecting, Dated
    <3>. QED  BY <1>2, <1>3, <3>1, <3>2
  <2>. QED  BY <2>1, <2>2
<1>6. ASSUME NEW p \in Proc, pc'[p] \in {"scan"} \cup Selecting
      PROVE  job'[p].at <= now' /\ \A s \in calendar' : s.at <= job'[p].at
  <2>1. CASE TakeSnapshot(p)
    <3>1. job'[p].at = now /\ UNCHANGED <<calendar, now>>
      BY <2>1, TakeSnapshotDoes DEF TakeSnapshot, repoVars
    <3>. QED  BY <1>3, <3>1 DEF Dated
  <2>2. CASE pc[p] \in {"scan"} \cup Selecting /\ job'[p].at = job[p].at
    <3>1. job[p].at <= now /\ job[p].at \in Nat /\ \A s \in calendar : s.at <= job[p].at
      BY <2>2, JobFacts DEF Dated
    <3>2. ASSUME NEW s \in calendar' \ calendar
          PROVE  s.at <= job[p].at
      <4>1. PICK q \in Proc : pc[q] = "submit" /\ s.at = job[q].at
        BY <3>2, NewSubmission
      <4>2. q = p
        BY <2>2, <4>1 DEF LockHeld, At, Selecting
      <4>. QED  BY <3>1, <4>1, <4>2
    <3>. QED  BY <1>3, <2>2, <3>1, <3>2
  <2>3. CASE \E q \in Proc : Acquire(q) \/ AcquireForRepair(q) \/ Step(q) \/ Disturb(q)
    <3>1. PICK q \in Proc : Acquire(q) \/ AcquireForRepair(q) \/ Step(q) \/ Disturb(q)
      BY <2>3
    <3>2. q = p
      BY <1>6, <3>1, OthersIdle DEF Selecting
    <3>. QED  BY <1>6, <2>1, <2>2, <3>1, <3>2, Selects DEF Frozen
  <2>4. CASE UNCHANGED <<pc, job>>
    BY <1>6, <2>2, <2>4
  <2>. QED  BY <2>3, <2>4, WhoMoves
<1>. QED  BY <1>5, <1>6 DEF Dated

LEMMA DatedInvariant == Spec => []Dated
<1>1. Init => Dated
  BY DEF Init, Dated, Selecting
<1>2. Spec => [](StoresAttested /\ JobsAttested)
  BY TypeInvariant, AttestedInit, AttestedNext, PTL DEF Spec
<1>. QED  BY TypeInvariant, LockInvariant, OwnDecisionInvariant, MeaningfulInvariant,
             <1>1, <1>2, DatedNext, PTL DEF Spec

-----------------------------------------------------------------------------
(* Where nobody makes HEAD jump, its newest commit of the developer's is    *)
(* below nothing else of theirs                                             *)

(* A commit of the developer's on top of one lineage or two, or a generated *)
(* one on top of HEAD or in place of a generated HEAD.                      *)
Grown(ancestry, generated, claims, tree) ==
    /\ ancestry \in SUBSET Commits /\ generated \in BOOLEAN
    /\ claims \in SUBSET Nat /\ tree \in Store
    /\ NewCommit(ancestry, generated, claims, tree)
    /\ \A c \in ancestry : Anc(c) \subseteq ancestry
    /\ generated => \/ ancestry = Anc(head)
                    \/ ancestry = Anc(head) \ {head} /\ IsGenerated(head)

LEMMA DevGrows ==
    ASSUME "reset" \notin DevActions, RepoTypeOK, Lineal, DevStep
    PROVE  \/ UNCHANGED <<history, head>>
           \/ \E ancestry, generated, claims, tree : Grown(ancestry, generated, claims, tree)
<1>1. /\ head \in Commits /\ index' \in Store
      /\ FALSE \in BOOLEAN /\ {} \in SUBSET Nat
  BY DevType DEF RepoTypeOK, Commits
<1>2. ASSUME NEW ancestry \in Ancestries, NewCommit(ancestry, FALSE, {}, index')
      PROVE  Grown(ancestry, FALSE, {}, index')
  BY <1>1, <1>2, AncestriesClosed, Zenon DEF Grown
<1>3. CASE DevCommit \/ DevDrop
  <2>1. NewCommit(Anc(head), FALSE, {}, index') /\ Anc(head) \in Ancestries
    BY <1>3 DEF DevCommit, DevDrop, Ancestries
  <2>2. Grown(Anc(head), FALSE, {}, index')
    BY <1>2, <2>1
  <2>. QED  BY <2>2
<1>4. CASE DevMerge
  <2>1. PICK ancestry \in Ancestries : NewCommit(ancestry, FALSE, {}, index')
    BY <1>4 DEF DevMerge, Ancestries
  <2>2. Grown(ancestry, FALSE, {}, index')
    BY <1>2, <2>1
  <2>. QED  BY <2>2
<1>5. CASE DevAmend
  <2>1. PICK ancestry, generated, claims : /\ ancestry = Anc(head) \ {head}
                                           /\ generated = IsGenerated(head)
                                           /\ claims = history[head].claims
    OBVIOUS
  <2>2. /\ NewCommit(ancestry, generated, claims, index')
        /\ generated \in BOOLEAN /\ claims \in SUBSET Nat /\ ancestry \in Ancestries
    BY <1>1, <1>5, <2>1, CommitFacts DEF DevAmend, Ancestries
  <2>3. ancestry \in SUBSET Commits /\ \A c \in ancestry : Anc(c) \subseteq ancestry
    BY <2>2, AncestriesClosed
  <2>4. Grown(ancestry, generated, claims, index')
    BY <1>1, <2>1, <2>2, <2>3, Zenon DEF Grown
  <2>. QED  BY <2>4
<1>6. CASE DevClean \/ Tick
  BY <1>6 DEF DevClean, Tick
<1>7. ~DevReset
  BY DEF DevReset, Dev
<1>. QED  BY <1>3, <1>4, <1>5, <1>6, <1>7 DEF DevStep

LEMMA HistorySteps ==
    ASSUME "reset" \notin DevActions, TypeOK, Lineal, LineagesExist, [Next]_vars
    PROVE  \/ UNCHANGED <<history, head>>
           \/ \E ancestry, generated, claims, tree : Grown(ancestry, generated, claims, tree)
<1>1. CASE DevStep
  BY <1>1, DevGrows DEF TypeOK
<1>2. ASSUME NEW p \in Proc, Commit(p)
      PROVE  \E ancestry, generated, claims, tree : Grown(ancestry, generated, claims, tree)
  <2>1. PICK ancestry, claims, tree : /\ ancestry = Anc(head) /\ claims = job[p].done
                                      /\ tree = Put(Tree(head), work, job[p].done)
    OBVIOUS
  <2>2. /\ ancestry \in SUBSET Commits /\ claims \in SUBSET Nat /\ tree \in Store
        /\ NewCommit(ancestry, TRUE, claims, tree)
    BY <1>2, <2>1, CommitMakes DEF Made
  <2>3. \A c \in ancestry : Anc(c) \subseteq ancestry
    BY <2>1, HeadLineage DEF Lineal, TypeOK
  <2>4. Grown(ancestry, TRUE, claims, tree)
    BY <2>1, <2>2, <2>3, Zenon DEF Grown
  <2>. QED  BY <2>4
<1>3. CASE \E p \in Proc : Commit(p)
  BY <1>2, <1>3
<1>. QED  BY <1>1, <1>3, HistoryStays

LEMMA GrownFacts ==
    ASSUME RepoTypeOK, Lineal, NEW ancestry, NEW generated, NEW claims, NEW tree,
           Grown(ancestry, generated, claims, tree)
    PROVE  /\ Commits' = Commits \cup {head'} /\ head' \notin Commits
           /\ head' \in Nat /\ \A c \in Commits : c \in Nat /\ c < head'
           /\ \A c \in Commits : /\ Anc(c)' = Anc(c) /\ Tree(c)' = Tree(c)
                                 /\ IsGenerated(c)' = IsGenerated(c)
                                 /\ history'[c] = history[c]
           /\ Anc(head)' = ancestry \cup {head'} /\ Tree(head)' = tree
           /\ IsGenerated(head)' = generated /\ history'[head'].time = now
           /\ head \in Commits /\ head \in Anc(head)
           /\ ancestry \in SUBSET Commits
           /\ \A c \in ancestry : Anc(c) \subseteq ancestry
           /\ generated => \/ ancestry = Anc(head)
                           \/ ancestry = Anc(head) \ {head} /\ IsGenerated(head)
<1>1. /\ ancestry \in SUBSET Commits /\ generated \in BOOLEAN /\ claims \in SUBSET Nat
      /\ tree \in Store /\ NewCommit(ancestry, generated, claims, tree)
      /\ \A c \in ancestry : Anc(c) \subseteq ancestry
      /\ generated => \/ ancestry = Anc(head)
                      \/ ancestry = Anc(head) \ {head} /\ IsGenerated(head)
  BY DEF Grown
<1>. QED  BY <1>1, AppendedCommit, Zenon

LEMMA TimesOrderedNext ==
    "reset" \notin DevActions =>
      (/\ TypeOK /\ Lineal /\ LineagesExist /\ TimesOrdered /\ [Next]_vars
       => TimesOrdered')
<1>. SUFFICES ASSUME "reset" \notin DevActions, TypeOK, Lineal, LineagesExist,
                     TimesOrdered, [Next]_vars
              PROVE  TimesOrdered'
  OBVIOUS
<1>1. now \in Nat /\ now' \in Nat /\ now <= now'
  BY CalendarGrows
<1>2. \A c \in Commits : history[c].time \in Nat /\ history[c].time <= now
  <2>1. \A c \in Commits : history[c].time \in Nat /\ c \in Nat
    BY CommitFacts DEF TypeOK
  <2>. QED  BY <2>1 DEF TimesOrdered
<1>3. CASE UNCHANGED <<history, head>>
  BY <1>1, <1>2, <1>3 DEF TimesOrdered, Commits
<1>4. CASE \E ancestry, generated, claims, tree : Grown(ancestry, generated, claims, tree)
  <2>1. PICK h : h = head'
    OBVIOUS
  <2>2. /\ Commits' = Commits \cup {h} /\ h \in Nat
        /\ \A c \in Commits : c \in Nat /\ c < h /\ history'[c] = history[c]
        /\ history'[h].time = now
    <3>1. PICK ancestry, generated, claims, tree : Grown(ancestry, generated, claims, tree)
      BY <1>4
    <3>. QED  BY <2>1, <3>1, GrownFacts, Zenon DEF TypeOK
  <2>3. ASSUME NEW c \in Commits', NEW d \in Commits', c <= d
        PROVE  history'[c].time <= history'[d].time /\ history'[d].time <= now'
    <3>1. CASE d = h
      BY <1>1, <1>2, <2>2, <2>3, <3>1
    <3>2. CASE d # h
      <4>1. c \in Commits /\ d \in Commits
        BY <2>2, <2>3, <3>2
      <4>. QED  BY <1>1, <1>2, <2>2, <2>3, <4>1 DEF TimesOrdered
    <3>. QED  BY <3>1, <3>2
  <2>. QED  BY <2>3 DEF TimesOrdered
<1>. QED  BY <1>3, <1>4, HistorySteps

LEMMA ToppedNext ==
    "reset" \notin DevActions =>
      (/\ TypeOK /\ Lineal /\ LineagesExist /\ Topped /\ HeadIsNewest /\ [Next]_vars
       => Topped' /\ HeadIsNewest')
<1>. SUFFICES ASSUME "reset" \notin DevActions, TypeOK, Lineal, LineagesExist,
                     Topped, HeadIsNewest, [Next]_vars
              PROVE  Topped' /\ HeadIsNewest'
  OBVIOUS
<1>1. CASE UNCHANGED <<history, head>>
  BY <1>1 DEF Topped, HeadIsNewest, Tops, Commits, Anc, IsGenerated
<1>2. CASE \E ancestry, generated, claims, tree : Grown(ancestry, generated, claims, tree)
  <2>1. PICK h : h = head'
    OBVIOUS
  <2>2. PICK ancestry, generated :
            /\ Commits' = Commits \cup {h} /\ h \notin Commits
            /\ \A c \in Commits : Anc(c)' = Anc(c) /\ IsGenerated(c)' = IsGenerated(c)
            /\ Anc(h)' = ancestry \cup {h} /\ IsGenerated(h)' = generated
            /\ head \in Commits /\ head \in Anc(head)
            /\ ancestry \in SUBSET Commits
            /\ \A c \in ancestry : Anc(c) \subseteq ancestry
            /\ generated => \/ ancestry = Anc(head)
                            \/ ancestry = Anc(head) \ {head} /\ IsGenerated(head)
    <3>1. PICK ancestry, generated, claims, tree : Grown(ancestry, generated, claims, tree)
      BY <1>2
    <3>2. RepoTypeOK
      BY DEF TypeOK
    <3>3. /\ Commits' = Commits \cup {head'} /\ head' \notin Commits
          /\ head' \in Nat /\ \A c \in Commits : c \in Nat /\ c < head'
          /\ \A c \in Commits : /\ Anc(c)' = Anc(c) /\ Tree(c)' = Tree(c)
                                /\ IsGenerated(c)' = IsGenerated(c)
                                /\ history'[c] = history[c]
          /\ Anc(head)' = ancestry \cup {head'} /\ Tree(head)' = tree
          /\ IsGenerated(head)' = generated /\ history'[head'].time = now
          /\ head \in Commits /\ head \in Anc(head)
          /\ ancestry \in SUBSET Commits
          /\ \A c \in ancestry : Anc(c) \subseteq ancestry
          /\ generated => \/ ancestry = Anc(head)
                          \/ ancestry = Anc(head) \ {head} /\ IsGenerated(head)
      BY <3>1, <3>2, GrownFacts, ZenonT(60)
    <3>4. Anc(h)' = ancestry \cup {h} /\ IsGenerated(h)' = generated
      BY <2>1, <3>3 DEF Anc, IsGenerated
    <3>. QED  BY <2>1, <3>3, <3>4
  <2>3. \A c \in Commits : Anc(c) \subseteq Commits
    BY DEF LineagesExist
  <2>4. ASSUME NEW g \in Commits, NEW t \in Commits
        PROVE  Tops(t, g)' <=> Tops(t, g)
    BY <2>2, <2>3 DEF Tops
  <2>5. ASSUME generated, NEW t
        PROVE  Tops(t, h)' <=> Tops(t, head)
    <3>1. ASSUME t \in Commits PROVE Tops(t, h)' <=> Tops(t, head)
      <4>1. Anc(t)' = Anc(t) /\ IsGenerated(t)' = IsGenerated(t) /\ t # h
        BY <2>2, <3>1
      <4>2. ~IsGenerated(t) => (t \in ancestry \cup {h} <=> t \in Anc(head))
        BY <2>2, <2>5, <4>1
      <4>3. (\A c \in ancestry \cup {h} : IsGenerated(c)' \/ c \in Anc(t))
              <=> (\A c \in Anc(head) : IsGenerated(c) \/ c \in Anc(t))
        <5>1. \A c \in ancestry : IsGenerated(c)' = IsGenerated(c)
          BY <2>2
        <5>2. IsGenerated(h)'
          BY <2>2, <2>5
        <5>. QED  BY <2>2, <2>5, <5>1, <5>2
      <4>. QED  BY <2>2, <4>1, <4>2, <4>3 DEF Tops
    <3>2. ASSUME t \notin Commits PROVE ~Tops(t, h)' /\ ~Tops(t, head)
      BY <2>2, <2>3, <2>5, <3>2 DEF Tops
    <3>. QED  BY <3>1, <3>2
  <2>6. ASSUME ~generated
        PROVE  Tops(h, h)'
    BY <2>2, <2>6 DEF Tops
  <2>7. Topped'
    <3>1. \E t \in Commits' : Tops(t, h)'
      <4>1. CASE generated
        BY <2>2, <2>5, <4>1 DEF Topped
      <4>2. CASE ~generated
        BY <2>2, <2>6, <4>2
      <4>. QED  BY <4>1, <4>2
    <3>2. \A g \in Commits : \E t \in Commits' : Tops(t, g)'
      BY <2>2, <2>4 DEF Topped
    <3>. QED  BY <2>2, <3>1, <3>2 DEF Topped
  <2>8. HeadIsNewest'
    <3>. SUFFICES ASSUME NEW t \in Commits', NEW d \in Commits', Tops(t, h)', t \in Anc(d)'
                  PROVE  IsGenerated(d)' \/ d = t
      BY <2>1 DEF HeadIsNewest
    <3>1. CASE generated
      <4>1. Tops(t, head) /\ t \in Commits
        BY <2>2, <2>3, <2>5, <3>1 DEF Tops
      <4>2. CASE d = h
        BY <2>2, <3>1, <4>2
      <4>3. CASE d \in Commits
        BY <2>2, <4>1, <4>3 DEF HeadIsNewest
      <4>. QED  BY <2>2, <4>2, <4>3
    <3>2. CASE ~generated
      <4>1. t = h
        <5>1. h \in Anc(t)'
          BY <2>2, <3>2 DEF Tops
        <5>. QED  BY <2>2, <2>3, <5>1
      <4>2. d = h
        BY <2>2, <2>3, <4>1
      <4>. QED  BY <4>1, <4>2
    <3>. QED  BY <3>1, <3>2
  <2>. QED  BY <2>7, <2>8
<1>. QED  BY <1>1, <1>2, HistorySteps

LEMMA ToppedInvariant ==
    ASSUME "reset" \notin DevActions
    PROVE  Spec => [](TimesOrdered /\ Topped /\ HeadIsNewest)
<1>1. Init => TimesOrdered /\ Topped /\ HeadIsNewest
  <2>. SUFFICES ASSUME Init PROVE TimesOrdered /\ Topped /\ HeadIsNewest
    OBVIOUS
  <2>1. /\ Commits = {1} /\ Anc(1) = {1} /\ head = 1 /\ history[1].time = 0 /\ now = 0
        /\ ~IsGenerated(1)
    BY DEF Init, RepoInit, Commits, Anc, IsGenerated
  <2>. QED  BY <2>1 DEF TimesOrdered, Topped, HeadIsNewest, Tops
<1>2. Backed => LineagesExist
  BY DEF Backed
<1>3. TypeOK /\ Lineal /\ LineagesExist /\ TimesOrdered /\ [Next]_vars => TimesOrdered'
  BY TimesOrderedNext
<1>4. TypeOK /\ Lineal /\ LineagesExist /\ Topped /\ HeadIsNewest /\ [Next]_vars
      => Topped' /\ HeadIsNewest'
  BY ToppedNext
<1>. QED  BY TypeInvariant, LinealInvariant, BackedInvariant, <1>1, <1>2, <1>3, <1>4, PTL
          DEF Spec

-----------------------------------------------------------------------------
(* Without every_commit, a decision is for the newest of the developer's    *)
(* commits and nothing above it was submitted                               *)

(* If anything is pending, the newest of the developer's commits is. *)
LEMMA TopPending ==
    ASSUME Lineal, LineagesExist, NEW src \in Commits, NEW t \in Commits, Tops(t, src),
           NEW base, base # None => base.src \in Anc(src),
           NEW c \in PendingMeaningful(src, BaseSource(base))
    PROVE  /\ t \in PendingMeaningful(src, BaseSource(base))
           /\ c \in Commits /\ c \in Anc(t)
<1>1. c \in Anc(src) /\ ~IsGenerated(c) /\ c \in Commits /\ c \in Anc(t)
  BY DEF PendingMeaningful, LineagesExist, Tops
<1>2. BaseSource(base) # None => BaseSource(base) \in Commits
  BY DEF BaseSource, LineagesExist
<1>3. BaseSource(base) = None \/ c \notin Anc(BaseSource(base))
  BY DEF PendingMeaningful
<1>4. BaseSource(base) = None \/ t \notin Anc(BaseSource(base))
  BY <1>1, <1>2, <1>3 DEF Lineal
<1>. QED  BY <1>1, <1>4 DEF PendingMeaningful, Tops

(* It is the one that the policy picks. *)
LEMMA TopIsLatest ==
    ASSUME RepoTypeOK, Lineal, LineagesExist, TimesOrdered,
           NEW src \in Commits, NEW t \in Commits, Tops(t, src),
           NEW base, base # None => base.src \in Anc(src),
           t \in PendingMeaningful(src, BaseSource(base))
    PROVE  LatestPending(Candidates(src, base)) = {[id |-> t, time |-> history[t].time]}
<1>1. PICK P : P = PendingMeaningful(src, BaseSource(base))
  OBVIOUS
<1>2. PICK Q : Q = Candidates(src, base)
  OBVIOUS
<1>3. Q = {[id |-> d, time |-> history[d].time] : d \in P}
  BY <1>1, <1>2 DEF Candidates
<1>4. PICK top : top = [id |-> t, time |-> history[t].time]
  OBVIOUS
<1>5. top \in Q /\ top.id = t /\ top.time = history[t].time
  BY <1>1, <1>3, <1>4
<1>6. ASSUME NEW x \in Q
      PROVE  /\ x.id \in Nat /\ x.time \in Nat /\ t \in Nat /\ history[t].time \in Nat
             /\ x.id <= t /\ x.time <= history[t].time
             /\ x.id = t => x = top
  <2>1. PICK c \in P : x = [id |-> c, time |-> history[c].time]
    BY <1>3
  <2>2. c \in Commits /\ c \in Anc(t)
    BY <1>1, TopPending
  <2>3. c \in Nat /\ t \in Nat /\ history[c].time \in Nat /\ history[t].time \in Nat
    BY <2>2, CommitFacts
  <2>4. c <= t
    <3>1. Anc(t) \subseteq 1..t
      BY DEF Lineal
    <3>. QED  BY <2>2, <2>3, <3>1
  <2>5. history[c].time <= history[t].time
    BY <2>2, <2>4 DEF TimesOrdered
  <2>. QED  BY <1>4, <2>1, <2>3, <2>4, <2>5
<1>7. top \in LatestPending(Q)
  BY <1>5, <1>6 DEF LatestPending
<1>8. ASSUME NEW x \in LatestPending(Q)
      PROVE  x = top
  <2>1. x \in Q /\ (x.time > top.time \/ (x.time = top.time /\ x.id >= top.id))
    BY <1>5 DEF LatestPending
  <2>. QED  BY <1>5, <1>6, <2>1
<1>. QED  BY <1>2, <1>4, <1>7, <1>8

LEMMA LatestIsTop ==
    ASSUME ~EveryCommit, RepoTypeOK, Lineal, LineagesExist, TimesOrdered,
           NEW src \in Commits, NEW t \in Commits, Tops(t, src),
           NEW base, base # None => base.src \in Anc(src), NEW clock,
           NEW c \in DecisionWith(src, base, clock).commits
    PROVE  c = t
<1>1. t \in PendingMeaningful(src, BaseSource(base))
  BY DecidesPending, TopPending
<1>2. PICK top : top = [id |-> t, time |-> history[t].time]
  OBVIOUS
<1>3. LatestPending(Candidates(src, base)) = {top}
  BY <1>1, <1>2, TopIsLatest
<1>4. c \in {x.id : x \in LatestPending(Candidates(src, base))}
  BY DEF DecisionWith, EvaluatePolicy, NoDecision
<1>. QED  BY <1>2, <1>3, <1>4

(* Commits and what lies above them never change. *)
LEMMA AboveStays ==
    ASSUME HistoryGrows, NEW s, s.src \in Commits, NEW c
    PROVE  c \in Anc(s.src)' <=> c \in Anc(s.src)
BY DEF HistoryGrows, Anc

LEMMA DecidesForTopNext ==
    ~EveryCommit /\ "reset" \notin DevActions =>
      (/\ TypeOK /\ JobsConsistent /\ LockHeld /\ OwnDecision /\ JobsAttested
       /\ Lineal /\ LineagesExist /\ TimesOrdered /\ Topped /\ HeadIsNewest /\ Dated
       /\ DecidesForTop /\ [Next]_vars
       => DecidesForTop')
<1>. SUFFICES ASSUME ~EveryCommit, TypeOK, JobsConsistent, LockHeld, OwnDecision,
                     JobsAttested, Lineal, LineagesExist, TimesOrdered, Topped,
                     HeadIsNewest, Dated, DecidesForTop, [Next]_vars
              PROVE  DecidesForTop'
  OBVIOUS
<1>1. HistoryGrows
  BY TypeStep DEF vars, repoVars, HistoryGrows, Commits
<1>. SUFFICES ASSUME NEW p \in Proc, pc'[p] \in {"scan"} \cup Selecting,
                     NEW c \in job'[p].decision
              PROVE  /\ job'[p].decision = {c}
                     /\ \A s \in calendar' : c \in Anc(s.src)' => s.src = c
  BY DEF DecidesForTop
<1>2. CASE TakeSnapshot(p)
  <2>1. /\ job'[p].decision = DecisionFor(head, job[p].clock).commits
        /\ UNCHANGED <<calendar, repoVars>>
    BY <1>2, TakeSnapshotDoes DEF TakeSnapshot
  <2>2. head \in Commits /\ RepoTypeOK
    BY DEF TypeOK, RepoTypeOK, Commits
  <2>3. PICK t \in Commits : Tops(t, head)
    BY <2>2 DEF Topped
  <2>4. \A d \in DecisionFor(head, job[p].clock).commits : d = t
    <3>1. Baseline(head) # None => Baseline(head).src \in Anc(head)
      BY BaselineOnLineage
    <3>. QED  BY <2>2, <2>3, <3>1, DecidesWith, LatestIsTop
  <2>5. c = t /\ job'[p].decision = {c}
    BY <2>1, <2>4
  <2>6. \A s \in calendar : c \in Anc(s.src) => s.src = c
    BY <2>3, <2>5 DEF HeadIsNewest, Dated
  <2>. QED  BY <2>1, <2>5, <2>6 DEF repoVars, Anc
<1>3. CASE pc[p] \in {"scan"} \cup Selecting /\ job'[p].decision = job[p].decision
  <2>1. job[p].decision = {c} /\ \A s \in calendar : c \in Anc(s.src) => s.src = c
    BY <1>3 DEF DecidesForTop
  <2>2. ASSUME NEW s \in calendar', c \in Anc(s.src)'
        PROVE  s.src = c
    <3>1. CASE s \in calendar
      BY <1>1, <2>1, <2>2, <3>1, AboveStays DEF Dated
    <3>2. CASE s \notin calendar
      <4>1. PICK q \in Proc : pc[q] = "submit" /\ s.src \in job[q].decision
        BY <2>2, <3>2, NewSubmission
      <4>2. q = p
        BY <1>3, <4>1 DEF LockHeld, At, Selecting
      <4>. QED  BY <2>1, <4>1, <4>2
    <3>. QED  BY <3>1, <3>2
  <2>. QED  BY <1>3, <2>1, <2>2
<1>4. CASE \E q \in Proc : Acquire(q) \/ AcquireForRepair(q) \/ Step(q) \/ Disturb(q)
  <2>1. PICK q \in Proc : Acquire(q) \/ AcquireForRepair(q) \/ Step(q) \/ Disturb(q)
    BY <1>4
  <2>2. q = p
    BY <2>1, OthersIdle DEF Selecting
  <2>. QED  BY <1>2, <1>3, <2>1, <2>2, Selects DEF Frozen
<1>5. CASE UNCHANGED <<pc, job>>
  BY <1>3, <1>5
<1>. QED  BY <1>4, <1>5, WhoMoves

-----------------------------------------------------------------------------
(* With every_commit, nothing is submitted before what lies below it *)

LEMMA LeastFirst ==
    ASSUME NEW S \in SUBSET Nat, NEW x \in S
    PROVE  Min(S) \in S /\ Min(S) <= x
<1>1. PICK n \in S : \A m \in S : <<m, n>> \notin OpToRel(<, Nat)
  BY NatLessThanWellFounded, WFMin
<1>2. \A m \in S : ~(m < n)
  BY <1>1, Zenon DEF OpToRel
<1>3. \A m \in S : n <= m
  BY <1>2
<1>. QED  BY <1>3 DEF Min

LEMMA SelectsAll ==
    ASSUME EveryCommit, InitialAll, NEW src, NEW base, NEW clock
    PROVE  DecisionWith(src, base, clock).commits = PendingMeaningful(src, BaseSource(base))
<1>1. PICK P : P = PendingMeaningful(src, BaseSource(base))
  OBVIOUS
<1>2. PICK Q : Q = Candidates(src, base)
  OBVIOUS
<1>3. Q = {[id |-> d, time |-> history[d].time] : d \in P}
  BY <1>1, <1>2 DEF Candidates
<1>4. {x.id : x \in Q} = P
  <2>1. \A x \in Q : x.id \in P
    BY <1>3
  <2>2. ASSUME NEW d \in P PROVE \E x \in Q : x.id = d
    <3>1. [id |-> d, time |-> history[d].time] \in Q
      BY <1>3
    <3>. QED  BY <3>1
  <2>. QED  BY <2>1, <2>2
<1>5. CASE Q = {}
  BY <1>1, <1>2, <1>4, <1>5 DEF DecisionWith, EvaluatePolicy, NoDecision
<1>6. CASE Q # {}
  BY <1>1, <1>2, <1>4, <1>6 DEF DecisionWith, EvaluatePolicy
<1>. QED  BY <1>5, <1>6

LEMMA SnapshotGapless ==
    ASSUME EveryCommit, InitialAll, TypeOK, Accrues, Present, StoresAttested, Gapless,
           NEW p \in Proc, TakeSnapshot(p), NEW c \in Anc(head), ~IsGenerated(c)
    PROVE  c \in job'[p].decision \cup work.ots
<1>1. PICK base : base = Baseline(head)
  OBVIOUS
<1>2. job'[p].decision = PendingMeaningful(head, BaseSource(base))
  BY <1>1, TakeSnapshotDoes, DecidesWith, SelectsAll
<1>3. head \in Commits
  BY DEF TypeOK, RepoTypeOK, Commits
<1>4. CASE base = None \/ c \notin Anc(base.src)
  BY <1>2, <1>4 DEF PendingMeaningful, BaseSource
<1>5. CASE base # None /\ c \in Anc(base.src)
  <2>1. \/ base \in tags
        \/ base \in Tree(head).json /\ base.src \in Tree(head).ots
    BY <1>1, <1>5, BaselineOnLineage DEF Proven
  <2>2. base \in calendar
    BY <1>3, <2>1 DEF StoresAttested
  <2>3. base.src \in work.ots
    <3>1. CASE base \in tags
      BY <3>1 DEF Present, TaggedSources, HasPair
    <3>2. CASE base.src \in Tree(head).ots
      BY <3>2 DEF Accrues, Holds
    <3>. QED  BY <2>1, <3>1, <3>2
  <2>. QED  BY <1>5, <2>2, <2>3 DEF Gapless
<1>. QED  BY <1>4, <1>5

LEMMA GaplessNext ==
    EveryCommit /\ InitialAll /\ FilesStay /\ "clean" \notin DevActions =>
      (/\ TypeOK /\ JobsConsistent /\ OwnDecision /\ JobsAttested /\ Lineal
       /\ LineagesExist /\ JobsClaims /\ Dated /\ Present /\ Gapless /\ JobsGapless /\ [Next]_vars
       => Gapless')
<1>. SUFFICES ASSUME FilesStay, "clean" \notin DevActions, TypeOK, JobsConsistent,
                     OwnDecision, JobsAttested, Lineal, LineagesExist, JobsClaims, Dated,
                     Present,
                     Gapless, JobsGapless, [Next]_vars
              PROVE  Gapless'
  OBVIOUS
<1>1. HistoryGrows
  BY TypeStep DEF vars, repoVars, HistoryGrows, Commits
<1>2. work.ots \subseteq work'.ots
  BY WorkGrows DEF Holds
<1>3. \A c \in Commits : IsGenerated(c)' = IsGenerated(c) /\ Anc(c)' = Anc(c)
  BY <1>1 DEF HistoryGrows, IsGenerated, Anc
<1>. SUFFICES ASSUME NEW s \in calendar', NEW c \in Anc(s.src)', c # s.src
              PROVE  IsGenerated(c)' \/ c \in work'.ots
  BY DEF Gapless
<1>4. CASE s \in calendar
  <2>1. s.src \in Commits /\ c \in Anc(s.src)
    BY <1>3, <1>4 DEF Dated
  <2>2. c \in Commits
    BY <2>1 DEF LineagesExist
  <2>. QED  BY <1>2, <1>3, <1>4, <2>1, <2>2 DEF Gapless
<1>5. CASE s \notin calendar
  <2>1. PICK p \in Proc : /\ pc[p] = "submit" /\ job[p].todo # {}
                          /\ s.src = Min(job[p].todo) /\ s.src \in job[p].decision
    BY <1>5, NewSubmission
  <2>2. PICK j : j = job[p]
    OBVIOUS
  <2>3. /\ j.src \in Commits /\ j.decision \subseteq Anc(j.src)
        /\ j.todo \in SUBSET Nat /\ \A d \in j.done : HasPair(work, d)
        /\ j.decision \subseteq j.todo \cup j.done
        /\ \A d \in Anc(j.src) : IsGenerated(d) \/ d \in j.decision \cup work.ots
    <3>1. j.src \in Commits /\ j.todo \in SUBSET Nat
      BY <2>1, <2>2, JobFacts DEF JobsConsistent
    <3>2. j.decision \subseteq Anc(j.src)
      BY <2>1, <2>2 DEF JobsClaims, JobClaims, Selecting, PendingMeaningful
    <3>3. \A d \in j.done : HasPair(work, d)
      BY <2>1, <2>2 DEF Present, JobPresent, Selecting
    <3>4. /\ j.decision \subseteq j.todo \cup j.done
          /\ \A d \in Anc(j.src) : IsGenerated(d) \/ d \in j.decision \cup work.ots
      BY <2>1, <2>2 DEF JobsGapless, JobGapless, Selecting
    <3>. QED  BY <3>1, <3>2, <3>3, <3>4
  <2>4. s.src \in Anc(j.src) /\ s.src \in Commits
    BY <2>1, <2>2, <2>3 DEF LineagesExist
  <2>5. c \in Anc(s.src) /\ c \in Anc(j.src) /\ c \in Commits
    BY <1>3, <2>3, <2>4 DEF Lineal, LineagesExist
  <2>6. c \notin j.todo
    <3>1. c <= s.src /\ c \in Nat /\ s.src \in Nat
      BY <2>4, <2>5, CommitFacts DEF Lineal, TypeOK
    <3>. QED  BY <2>1, <2>2, <2>3, <3>1, LeastFirst
  <2>7. IsGenerated(c) \/ c \in work.ots
    BY <2>3, <2>5, <2>6 DEF HasPair
  <2>. QED  BY <1>2, <1>3, <2>5, <2>7
<1>. QED  BY <1>4, <1>5

(* What a run that has something to do leaves undone of its decision. *)
LEMMA DecisionKept ==
    ASSUME TypeOK, NEW p \in Proc, Step(p) \/ Disturb(p), pc'[p] \in Selecting,
           job'[p].todo # {},
           pc[p] \in Selecting /\ job[p].todo # {}
               => job[p].decision \subseteq job[p].todo \cup job[p].done
    PROVE  job'[p].decision \subseteq job'[p].todo \cup job'[p].done
<1>1. CASE Scan(p)
  BY <1>1, ScanDoes DEF Frozen
<1>2. CASE Recover(p)
  BY <1>2, RecoverDoes DEF Frozen, Selecting
<1>3. CASE PersistManifest(p)
  BY <1>3, PersistManifestDoes DEF Frozen, Selecting
<1>4. CASE BeginSubmit(p) \/ Submit(p) \/ PersistProof(p)
  BY <1>4, MovesOn DEF Selecting
<1>5. ASSUME Acquire(p) \/ TakeSnapshot(p) PROVE FALSE
  BY <1>5, AcquireDoes, TakeSnapshotDoes DEF Selecting
<1>6. CASE FinishSelection(p) \/ Stage(p) \/ Commit(p) \/ AdoptLegacy(p)
           \/ CheckDurable(p) \/ TagNext(p)
  <2>1. pc'[p] \in {"durable", "stage", "commit", "tag", "idle"}
    BY <1>6, MovesOn, AdoptLegacyDoes, CheckDurableDoes, TagNextDoes
  <2>. QED  BY <2>1 DEF Selecting
<1>7. CASE Survey(p) \/ Ending(p) \/ SubmitFails(p)
           \/ BeginCompletion(p) \/ PassOver(p) \/ CompleteTag(p)
           \/ RepairPassesOver(p) \/ RepairTag(p)
  <2>1. pc'[p] \in {"snapshot", "survey", "repair", "complete", "idle"}
    BY <1>7, SurveyDoes, EndDoes, OtherwiseDoes
  <2>. QED  BY <2>1 DEF Selecting
<1>. QED  BY <1>1, <1>2, <1>3, <1>4, <1>5, <1>6, <1>7 DEF Step, Disturb, Ending

LEMMA JobsGaplessNext ==
    EveryCommit /\ InitialAll /\ FilesStay /\ "clean" \notin DevActions =>
      (/\ TypeOK /\ JobsConsistent /\ LockHeld /\ LineagesExist /\ Accrues /\ StoresAttested
       /\ Present /\ Gapless /\ JobsGapless /\ [Next]_vars
       => JobsGapless')
<1>. SUFFICES ASSUME EveryCommit, InitialAll, FilesStay, "clean" \notin DevActions,
                     TypeOK, JobsConsistent, LockHeld, LineagesExist, Accrues, StoresAttested,
                     Present, Gapless, JobsGapless, [Next]_vars
              PROVE  JobsGapless'
  OBVIOUS
<1>1. HistoryGrows
  BY TypeStep DEF vars, repoVars, HistoryGrows, Commits
<1>2. work.ots \subseteq work'.ots
  BY WorkGrows DEF Holds
<1>3. \A c \in Commits : IsGenerated(c)' = IsGenerated(c) /\ Anc(c)' = Anc(c)
  BY <1>1 DEF HistoryGrows, IsGenerated, Anc
<1>. SUFFICES ASSUME NEW p \in Proc PROVE JobGapless(job[p], pc[p])'
  BY DEF JobsGapless
<1>. PICK src : src = job'[p].src
  OBVIOUS
<1>4. ASSUME pc'[p] \in {"scan"} \cup Selecting, NEW c \in Anc(src)'
      PROVE  IsGenerated(c)' \/ c \in job'[p].decision \cup work'.ots
  <2>1. CASE TakeSnapshot(p)
    <3>1. src = head /\ head \in Commits
      BY <2>1, TakeSnapshotDoes DEF TypeOK, RepoTypeOK, Commits
    <3>2. c \in Anc(head) /\ c \in Commits
      BY <1>3, <1>4, <3>1 DEF LineagesExist
    <3>3. IsGenerated(c) \/ c \in job'[p].decision \cup work.ots
      BY <2>1, <3>2, SnapshotGapless
    <3>. QED  BY <1>2, <1>3, <3>2, <3>3
  <2>2. CASE /\ pc[p] \in {"scan"} \cup Selecting
             /\ job'[p].decision = job[p].decision /\ src = job[p].src
    <3>1. job[p].src \in Commits
      BY <2>2 DEF JobsConsistent, Selecting
    <3>2. c \in Anc(job[p].src) /\ c \in Commits
      BY <1>3, <1>4, <2>2, <3>1 DEF LineagesExist
    <3>3. IsGenerated(c) \/ c \in job[p].decision \cup work.ots
      BY <2>2, <3>2 DEF JobsGapless, JobGapless
    <3>. QED  BY <1>2, <1>3, <2>2, <3>2, <3>3
  <2>3. CASE \E q \in Proc : Acquire(q) \/ AcquireForRepair(q) \/ Step(q) \/ Disturb(q)
    <3>1. PICK q \in Proc : Acquire(q) \/ AcquireForRepair(q) \/ Step(q) \/ Disturb(q)
      BY <2>3
    <3>2. q = p
      BY <1>4, <3>1, OthersIdle DEF Selecting
    <3>. QED  BY <1>4, <2>1, <2>2, <3>1, <3>2, Selects DEF Frozen
  <2>4. CASE UNCHANGED <<pc, job>>
    BY <1>4, <2>2, <2>4
  <2>. QED  BY <2>3, <2>4, WhoMoves
<1>5. ASSUME pc'[p] \in Selecting, job'[p].todo # {}
      PROVE  job'[p].decision \subseteq job'[p].todo \cup job'[p].done
  <2>1. CASE UNCHANGED <<pc, job>>
    BY <1>5, <2>1 DEF JobsGapless, JobGapless
  <2>2. CASE \E q \in Proc : Acquire(q) \/ AcquireForRepair(q) \/ Step(q) \/ Disturb(q)
    <3>1. PICK q \in Proc : Acquire(q) \/ AcquireForRepair(q) \/ Step(q) \/ Disturb(q)
      BY <2>2
    <3>2. q = p
      BY <1>5, <3>1, OthersIdle DEF Selecting
    <3>3. ~Acquire(p) /\ ~AcquireForRepair(p)
      BY <1>5, AcquireDoes, SurveyDoes DEF Selecting
    <3>4. Step(p) \/ Disturb(p)
      BY <3>1, <3>2, <3>3
    <3>5. pc[p] \in Selecting /\ job[p].todo # {}
             => job[p].decision \subseteq job[p].todo \cup job[p].done
      BY DEF JobsGapless, JobGapless
    <3>. QED  BY <1>5, <3>4, <3>5, DecisionKept
  <2>. QED  BY <2>1, <2>2, WhoMoves
<1>6. PICK j, step : j = job'[p] /\ step = pc'[p]
  OBVIOUS
<1>7. JobGapless(j, step)'
  BY <1>4, <1>5, <1>6 DEF JobGapless
<1>. QED  BY <1>6, <1>7

-----------------------------------------------------------------------------
(* Along a lineage, submissions are in the order of their sources *)

(* Which configurations submit in order: those that decide for the newest,  *)
(* or for everything.                                                       *)
Orderly == ~EveryCommit \/ (InitialAll /\ {"clean", "drop"} \cap DevActions = {})

LEMMA InOrderNext ==
    /\ TypeOK /\ JobsConsistent /\ LockHeld /\ OwnDecision /\ JobsAttested
    /\ JobsMeaningful /\ OnlyOwn /\ Dated /\ InOrder
    /\ DecidesForTop \/ Gapless
    /\ [Next]_vars
    => InOrder'
<1>. SUFFICES ASSUME TypeOK, JobsConsistent, LockHeld, OwnDecision, JobsAttested,
                     JobsMeaningful, OnlyOwn, Dated, InOrder,
                     DecidesForTop \/ Gapless, [Next]_vars
              PROVE  InOrder'
  OBVIOUS
<1>1. HistoryGrows
  BY TypeStep DEF vars, repoVars, HistoryGrows, Commits
<1>2. ASSUME NEW s \in calendar' \ calendar
      PROVE  \E p \in Proc : /\ pc[p] = "submit" /\ s.src = Min(job[p].todo)
                             /\ s.src \in job[p].decision /\ s.at = job[p].at
  BY <1>2, NewSubmission
<1>3. \A p, q \in Proc : pc[p] = "submit" /\ pc[q] = "submit" => p = q
  BY DEF LockHeld, At
<1>. SUFFICES ASSUME NEW s \in calendar', NEW t \in calendar',
                     s.src \in Anc(t.src)', s.src # t.src
              PROVE  s.at <= t.at
  BY DEF InOrder
<1>4. CASE t \in calendar
  <2>1. s.src \in Anc(t.src) /\ t.src \in Commits
    BY <1>1, <1>4, AboveStays DEF Dated
  <2>2. CASE s \in calendar
    BY <1>4, <2>1, <2>2 DEF InOrder
  <2>3. CASE s \notin calendar
    <3>1. PICK p \in Proc : /\ pc[p] = "submit" /\ s.src = Min(job[p].todo)
                            /\ s.src \in job[p].decision
      BY <1>2, <2>3
    <3>2. ~DecidesForTop
      BY <1>4, <2>1, <3>1 DEF DecidesForTop, Selecting
    <3>3. IsGenerated(s.src) \/ s.src \in work.ots
      BY <1>4, <2>1, <3>2 DEF Gapless
    <3>4. ~IsGenerated(s.src) /\ s.src \notin work.ots
      BY <3>1 DEF JobsMeaningful, Meaningful, Selecting, OnlyOwn
    <3>. QED  BY <3>3, <3>4
  <2>. QED  BY <2>2, <2>3
<1>5. CASE t \notin calendar
  <2>1. PICK p \in Proc : pc[p] = "submit" /\ t.at = job[p].at
    BY <1>2, <1>5
  <2>2. CASE s \in calendar
    BY <2>1, <2>2 DEF Dated, Selecting
  <2>3. CASE s \notin calendar
    <3>1. s.at = job[p].at /\ job[p].at \in Nat
      BY <1>2, <1>3, <2>1, <2>3, JobFacts
    <3>. QED  BY <2>1, <3>1
  <2>. QED  BY <2>2, <2>3
<1>. QED  BY <1>4, <1>5

LEMMA TopInvariant ==
    ASSUME "reset" \notin DevActions, ~EveryCommit
    PROVE  Spec => []DecidesForTop
<1>1. Init => DecidesForTop
  BY DEF Init, DecidesForTop, Selecting
<1>2. Spec => [](StoresAttested /\ JobsAttested)
  BY TypeInvariant, AttestedInit, AttestedNext, PTL DEF Spec
<1>3. Backed => LineagesExist
  BY DEF Backed
<1>4. /\ TypeOK /\ JobsConsistent /\ LockHeld /\ OwnDecision /\ JobsAttested
      /\ Lineal /\ LineagesExist /\ TimesOrdered /\ Topped /\ HeadIsNewest /\ Dated
      /\ DecidesForTop /\ [Next]_vars
      => DecidesForTop'
  BY DecidesForTopNext
<1>5. Spec => [](TimesOrdered /\ Topped /\ HeadIsNewest)
  BY ToppedInvariant
<1>. QED  BY TypeInvariant, LockInvariant, OwnDecisionInvariant, LinealInvariant,
             BackedInvariant, DatedInvariant, <1>1, <1>2, <1>3, <1>4, <1>5, PTL DEF Spec

LEMMA GaplessInvariant ==
    ASSUME OneLineage, EveryCommit, InitialAll, {"clean", "drop"} \cap DevActions = {}
    PROVE  Spec => [](Present /\ Gapless /\ JobsGapless)
<1>1. FilesStay /\ "clean" \notin DevActions
  BY DEF OneLineage, FilesStay
<1>2. Init => Present /\ Gapless /\ JobsGapless
  BY DEF Init, RepoInit, Present, JobPresent, TaggedSources, Gapless, JobsGapless,
         JobGapless, Selecting
<1>3. Spec => [](StoresAttested /\ JobsAttested)
  BY TypeInvariant, AttestedInit, AttestedNext, PTL DEF Spec
<1>4. Spec => []Accrues
  BY <1>1, AccruesInvariant
<1>5. Spec => []JobsClaims
  <2>1. Spec => [](Chained /\ ClaimsPast /\ ClaimsOnRecord /\ JobsClaims)
    BY ClaimsInvariant
  <2>. QED  BY <2>1, PTL
<1>6. TypeOK /\ JobsConsistent /\ LockHeld /\ Accrues /\ Present /\ [Next]_vars => Present'
  BY <1>1, PresentNext
<1>7. /\ TypeOK /\ JobsConsistent /\ OwnDecision /\ JobsAttested /\ Lineal
      /\ LineagesExist /\ JobsClaims /\ Dated /\ Present /\ Gapless /\ JobsGapless /\ [Next]_vars
      => Gapless'
  BY <1>1, GaplessNext
<1>8. /\ TypeOK /\ JobsConsistent /\ LockHeld /\ LineagesExist /\ Accrues /\ StoresAttested
      /\ Present /\ Gapless /\ JobsGapless /\ [Next]_vars
      => JobsGapless'
  BY <1>1, JobsGaplessNext
<1>9. Backed => LineagesExist
  BY DEF Backed
<1>. QED  BY TypeInvariant, LockInvariant, OwnDecisionInvariant, LinealInvariant,
             BackedInvariant, DatedInvariant, <1>2, <1>3, <1>4, <1>5, <1>6, <1>7, <1>8, <1>9,
             PTL DEF Spec

LEMMA OrderInvariant ==
    ASSUME OneLineage, Orderly
    PROVE  Spec => []InOrder
<1>1. "reset" \notin DevActions
  BY DEF OneLineage
<1>2. Spec => [](DecidesForTop \/ Gapless)
  <2>1. CASE ~EveryCommit
    <3>1. Spec => []DecidesForTop
      BY <1>1, <2>1, TopInvariant
    <3>. QED  BY <3>1, PTL
  <2>2. CASE EveryCommit
    <3>1. Spec => [](Present /\ Gapless /\ JobsGapless)
      BY <2>2, GaplessInvariant DEF Orderly
    <3>. QED  BY <3>1, PTL
  <2>. QED  BY <2>1, <2>2
<1>3. Init => InOrder
  BY DEF Init, InOrder
<1>4. Spec => [](StoresAttested /\ JobsAttested)
  BY TypeInvariant, AttestedInit, AttestedNext, PTL DEF Spec
<1>5. Spec => []OnlyOwn
  BY <1>1, OnlyOwnInvariant
<1>. QED  BY TypeInvariant, LockInvariant, OwnDecisionInvariant, MeaningfulInvariant,
             DatedInvariant, InOrderNext, <1>2, <1>3, <1>4, <1>5, PTL DEF Spec

-----------------------------------------------------------------------------
(* The newest manifest *)

(* Submissions come one at a time. *)
LEMMA FiniteCalendar == Spec => []IsFiniteSet(calendar)
<1>1. Init => IsFiniteSet(calendar)
  BY FS_EmptySet DEF Init
<1>2. IsFiniteSet(calendar) /\ [Next]_vars => IsFiniteSet(calendar)'
  <2>. SUFFICES ASSUME IsFiniteSet(calendar), [Next]_vars, calendar' # calendar
                PROVE  IsFiniteSet(calendar)'
    OBVIOUS
  <2>1. PICK p \in Proc : Submit(p) \/ SubmitFails(p)
    BY WhoMoves, CalendarUntouched
  <2>2. PICK stamp : calendar' = calendar \cup {stamp}
    BY <2>1 DEF Submit, SubmitFails
  <2>. QED  BY <2>2, FS_AddElement
<1>. QED  BY <1>1, <1>2, PTL DEF Spec

(* If generated commits are on the lineage of src, the policy's baseline is *)
(* as new as every manifest of src's tree; one of the same time comes from  *)
(* the tree too, and is for the latest source.                              *)
LEMMA NewestProof ==
    ASSUME RepoTypeOK, NEW src \in Commits, IsFiniteSet(Tree(src).json),
           GeneratedAncestors(src) # {}, NEW m \in Tree(src).json,
           m.src \in Anc(src), m.src \in Tree(src).ots
    PROVE  /\ Baseline(src) \in Stamp
           /\ \/ Baseline(src).at > m.at
              \/ /\ Baseline(src).at = m.at /\ Baseline(src).src >= m.src
                 /\ Baseline(src).src \in Tree(src).ots
                 /\ Baseline(src) \in Tree(src).json
<1>. DEFINE found == {u \in Tree(src).json : u.src \in Anc(src) \cap Tree(src).ots}
            Newer(u, v) == u.at > v.at \/ (u.at = v.at /\ u.src > v.src)
            R == {uv \in found \X found : Newer(uv[1], uv[2])}
            newest == {u \in found : \A v \in found :
                          \/ u.at > v.at
                          \/ u.at = v.at /\ u.src >= v.src}
<1>1. /\ \A u \in found : u \in Stamp /\ u.at \in Nat /\ u.src \in Nat
      /\ m \in found /\ IsFiniteSet(found)
  <2>1. \A u \in found : u \in Stamp
    BY CommitFacts
  <2>. QED  BY <2>1, FS_Subset DEF Stamp
<1>2. \A u, v \in found : <<u, v>> \in R <=> Newer(u, v)
  OBVIOUS
<1>. HIDE DEF R, found
<1>3. \A u \in found : <<u, u>> \notin R
  BY <1>1, <1>2
<1>4. \A u, v, w \in found : <<u, v>> \in R /\ <<v, w>> \in R => <<u, w>> \in R
  BY <1>1, <1>2
<1>5. PICK u \in found : \A v \in found : <<v, u>> \notin R
  BY <1>1, <1>3, <1>4, SomeTop
<1>6. u \in newest
  <2>1. ASSUME NEW v \in found
        PROVE  u.at > v.at \/ (u.at = v.at /\ u.src >= v.src)
    <3>1. ~(v.at > u.at) /\ ~(v.at = u.at /\ v.src > u.src)
      BY <1>2, <1>5
    <3>2. u.at \in Nat /\ v.at \in Nat /\ u.src \in Nat /\ v.src \in Nat
      BY <1>1
    <3>. QED  BY <3>1, <3>2
  <2>. QED  BY <2>1
<1>7. PICK prf : prf = ProofCommitBaseline(src)
  OBVIOUS
<1>8. prf \in newest
  BY <1>6, <1>7, Zenon DEF ProofCommitBaseline, found
<1>9. /\ prf \in found /\ prf \in Stamp /\ prf.at \in Nat /\ prf.src \in Nat /\ m.at \in Nat
      /\ prf.at > m.at \/ (prf.at = m.at /\ prf.src >= m.src)
  BY <1>1, <1>8
<1>10. prf # None /\ prf.src \in Tree(src).ots /\ prf \in Tree(src).json
  BY <1>9, AbsentStamp DEF found
<1>11. PICK tag : tag = TagBaseline(src)
  OBVIOUS
<1>12. CASE tag # None /\ tag.at > prf.at
  <2>1. Baseline(src) = tag
    BY <1>7, <1>10, <1>11, <1>12 DEF Baseline
  <2>2. tag \in Stamp /\ tag.at \in Nat
    <3>1. tag \in tags \cup {None}
      BY <1>11, Zenon DEF TagBaseline
    <3>. QED  BY <1>12, <3>1 DEF RepoTypeOK, Stamp
  <2>. QED  BY <1>9, <1>12, <2>1, <2>2
<1>13. CASE ~(tag # None /\ tag.at > prf.at)
  <2>1. Baseline(src) = prf
    BY <1>7, <1>10, <1>11, <1>13 DEF Baseline
  <2>. QED  BY <1>9, <1>10, <2>1
<1>. QED  BY <1>12, <1>13

-----------------------------------------------------------------------------
(* No run takes up a claimed source *)

(* What is selected is not claimed, or its files are gone: if they were    *)
(* there, they would be in HEAD's tree, and its manifest would be as new as *)
(* the baseline's, which is for an earlier source.                         *)
LEMMA SnapshotUnclaimed ==
    ASSUME TypeOK, LineagesExist, Lineal, Chained, ClaimsPast, ClaimsOnRecord,
           StoresAttested, InOrder, IsFiniteSet(calendar),
           NEW clock, NEW c \in DecisionFor(head, clock).commits, c \in Claimed(head),
           HasPair(work, c)
    PROVE  FALSE
<1>1. RepoTypeOK /\ head \in Commits
  BY DEF TypeOK, RepoTypeOK, Commits
<1>2. PICK base : base = Baseline(head)
  OBVIOUS
<1>3. c \in Anc(head) /\ (base = None \/ c \notin Anc(base.src))
  <2>1. c \in PendingMeaningful(head, BaseSource(base))
    BY <1>2, DecidesWith, DecidesPending
  <2>2. base # None => base.src \in Nat
    BY <1>1, <1>2, BaselineOnLineage, CommitFacts
  <2>. QED  BY <2>1, <2>2, PolicyAssumption DEF PendingMeaningful, BaseSource
<1>4. HasPair(Tree(head), c)
  BY DEF ClaimsOnRecord
<1>5. PICK m \in Tree(head).json : m.src = c
  BY <1>4 DEF HasPair, Described
<1>6. GeneratedAncestors(head) # {}
  <2>1. PICK g \in Anc(head) : c \in history[g].claims
    BY DEF Claimed
  <2>. QED  BY <1>1, <2>1 DEF ClaimsPast, LineagesExist, GeneratedAncestors
<1>7. Tree(head).json \subseteq calendar
  BY <1>1 DEF StoresAttested
<1>8. IsFiniteSet(Tree(head).json)
  BY <1>7, FS_Subset
<1>9. /\ base \in Stamp
      /\ \/ base.at > m.at
         \/ base.at = m.at /\ base.src >= m.src
  <2>1. m.src \in Anc(head) /\ m.src \in Tree(head).ots
    BY <1>3, <1>4, <1>5 DEF HasPair
  <2>. QED  BY <1>1, <1>2, <1>6, <1>8, <2>1, NewestProof
<1>10. base # None
  BY <1>9, AbsentStamp
<1>11. base.src \in Anc(head) /\ base \in calendar
  <2>1. /\ base.src \in Anc(head)
        /\ base \in tags \/ base \in Tree(head).json
    BY <1>2, <1>10, BaselineOnLineage DEF Proven
  <2>. QED  BY <1>7, <2>1 DEF StoresAttested
<1>12. /\ c \in Nat /\ base.src \in Nat
       /\ c \in Anc(base.src) <=> c <= base.src
       /\ base.src \in Anc(c) <=> base.src <= c
  BY <1>1, <1>3, <1>11, ChainOrder
<1>13. base.src < c /\ base.src \in Anc(c) /\ base.src # c
  BY <1>3, <1>10, <1>12
<1>14. base.at <= m.at
  BY <1>5, <1>7, <1>11, <1>13 DEF InOrder
<1>15. m.at \in Nat /\ base.at \in Nat
  BY <1>1, <1>5, <1>9, CommitFacts DEF Stamp
<1>. QED  BY <1>5, <1>9, <1>12, <1>13, <1>14, <1>15

LEMMA StillClaimed ==
    ASSUME OneLineage, TypeOK, LockHeld, Lineal, LineagesExist, [Next]_vars, NEW p \in Proc,
           Acquire(p) \/ AcquireForRepair(p) \/ Step(p) \/ Disturb(p), ~Commit(p)
    PROVE  Claimed(head)' = Claimed(head)
<1>1. ASSUME NEW q \in Proc, Commit(q) PROVE FALSE
  <2>1. pc'[q] = "tag"
    BY <1>1, MovesOn
  <2>2. q = p
    BY <2>1, OthersIdle
  <2>. QED  BY <1>1, <2>2
<1>. QED  BY <1>1, ClaimsStay

LEMMA StepUnclaimed ==
    ASSUME TypeOK, JobsConsistent, LineagesExist, Lineal, Chained, ClaimsPast, ClaimsOnRecord,
           JobsClaims, StoresAttested, InOrder, IsFiniteSet(calendar), NEW p \in Proc,
           Acquire(p) \/ AcquireForRepair(p) \/ Step(p) \/ Disturb(p),
           JobUnclaimed(job[p], pc[p]), Claimed(head)' = Claimed(head)
    PROVE  JobUnclaimed(job[p], pc[p])'
<1>1. PICK j, k, step, next : j = job[p] /\ k = job'[p] /\ step = pc[p] /\ next = pc'[p]
  OBVIOUS
<1>2. PICK least : least = Min(j.todo)
  OBVIOUS
<1>3. JobUnclaimed(j, step) /\ JobClaims(j, step)
  BY <1>1 DEF JobsClaims
<1>4. j.todo \in SUBSET Nat /\ j.done \in SUBSET Nat
  BY <1>1, JobFacts
<1>5. /\ step \in {"proof", "manifest"} => least \notin Claimed(head)
      /\ \A c : HasPair(work, c)' => \/ HasPair(work, c)
                                     \/ step \in {"proof", "manifest"} /\ c = least
  BY <1>1, <1>2, <1>3, DiskGains DEF JobClaims, HasPair
<1>6. \A c \in Claimed(head) : HasPair(work, c)' => HasPair(work, c)
  BY <1>5
<1>. SUFFICES JobUnclaimed(k, next)'
  BY <1>1
<1>7. SUFFICES /\ next = "scan" => \A c \in k.decision \cap Claimed(head) : ~HasPair(work, c)
               /\ next \in Selecting => \A c \in k.todo \cap Claimed(head) : ~HasPair(work, c)
               /\ next \in Selecting \cup {"durable", "stage", "commit"}
                      => k.done \cap Claimed(head) = {}
  BY <1>6 DEF JobUnclaimed
<1>8. CASE TakeSnapshot(p)
  <2>1. next = "scan" /\ k.decision = DecisionFor(head, job[p].clock).commits
    BY <1>1, <1>8, TakeSnapshotDoes
  <2>2. \A c \in k.decision \cap Claimed(head) : ~HasPair(work, c)
    BY <2>1, SnapshotUnclaimed
  <2>. QED  BY <2>1, <2>2 DEF Selecting
<1>9. CASE Scan(p)
  <2>1. /\ step = "scan" /\ next \in {"adopt", "select"}
        /\ k.done = InFlight(j.src, j.decision) /\ k.todo \subseteq j.decision
    <3>1. PICK fl : fl = InFlight(j.src, j.decision)
      OBVIOUS
    <3>2. /\ next \in {"adopt", "select"} /\ k.done = fl
          /\ k.todo = IF fl = {} THEN j.decision ELSE {}
      BY <1>1, <1>9, <3>1, ScanDoes
    <3>3. step = "scan"
      BY <1>1, <1>9 DEF Scan, At
    <3>4. k.todo \subseteq j.decision
      BY <3>2
    <3>. QED  BY <3>1, <3>2, <3>3, <3>4
  <2>2. \A c \in k.done : HasPair(work, c) /\ c \notin Tree(j.src).ots
    BY <2>1 DEF InFlight
  <2>3. \A c \in Claimed(head) : HasPair(work, c) => c \in Tree(j.src).ots
    BY <1>3, <2>1 DEF JobClaims, HasPair
  <2>4. \A c \in j.decision \cap Claimed(head) : ~HasPair(work, c)
    BY <1>3, <2>1 DEF JobUnclaimed
  <2>. QED  BY <2>1, <2>2, <2>3, <2>4
<1>10. CASE Recover(p)
  <2>1. /\ step = "select" /\ next = "select" /\ HasPair(work, least) /\ j.todo # {}
        /\ k.todo = j.todo \ {least} /\ k.done = j.done \cup {least}
    BY <1>1, <1>2, <1>10, RecoverDoes DEF Recover
  <2>2. least \in j.todo
    BY <1>2, <1>4, <2>1, MinType
  <2>3. /\ \A c \in j.todo \cap Claimed(head) : ~HasPair(work, c)
        /\ j.done \cap Claimed(head) = {}
    BY <1>3, <2>1 DEF JobUnclaimed, Selecting
  <2>. QED  BY <2>1, <2>2, <2>3
<1>11. CASE PersistManifest(p)
  <2>1. /\ step = "manifest" /\ next = "select"
        /\ k.todo = j.todo \ {least} /\ k.done = j.done \cup {least}
    BY <1>1, <1>2, <1>11, PersistManifestDoes
  <2>2. /\ \A c \in j.todo \cap Claimed(head) : ~HasPair(work, c)
        /\ j.done \cap Claimed(head) = {}
    BY <1>3, <2>1 DEF JobUnclaimed, Selecting
  <2>. QED  BY <1>5, <2>1, <2>2
<1>12. CASE BeginSubmit(p) \/ Submit(p) \/ PersistProof(p) \/ FinishSelection(p)
            \/ Stage(p) \/ Commit(p)
  <2>1. /\ k = j
        /\ \/ step \in Selecting /\ next \in Selecting \cup {"durable"}
           \/ step = "stage" /\ next = "commit"
           \/ next = "tag"
    BY <1>1, <1>12, MovesOn DEF Selecting
  <2>2. CASE step \in Selecting /\ next \in Selecting \cup {"durable"}
    BY <1>3, <2>1, <2>2 DEF JobUnclaimed, Selecting
  <2>3. CASE step = "stage" /\ next = "commit"
    BY <1>3, <2>1, <2>3 DEF JobUnclaimed, Selecting
  <2>4. CASE next = "tag"
    BY <2>4 DEF Selecting
  <2>. QED  BY <2>1, <2>2, <2>3, <2>4
<1>13. CASE CheckDurable(p)
  <2>1. step = "durable" /\ next \in {"stage", "tag"} /\ k.done = j.done
    BY <1>1, <1>13, CheckDurableDoes
  <2>. QED  BY <1>3, <2>1 DEF JobUnclaimed, Selecting
<1>14. CASE AdoptLegacy(p)
  <2>1. step = "adopt" /\ next = "stage" /\ j.src \in Commits
    BY <1>1, <1>14, AdoptLegacyDoes DEF JobsConsistent
  <2>2. Claimed(head) = Claimed(j.src)
    BY <1>3, <2>1 DEF JobClaims
  <2>3. GeneratedAncestors(j.src) = {}
    BY <1>1, <1>14 DEF AdoptLegacy, LegacyTag
  <2>4. Claimed(j.src) = {}
    <3>1. \A g \in Anc(j.src) : history[g].claims = {}
      BY <2>1, <2>3 DEF LineagesExist, ClaimsPast, GeneratedAncestors
    <3>. QED  BY <3>1 DEF Claimed
  <2>. QED  BY <2>1, <2>2, <2>4 DEF Selecting
<1>15. CASE Acquire(p) \/ AcquireForRepair(p) \/ Survey(p) \/ Ending(p) \/ SubmitFails(p)
            \/ BeginCompletion(p) \/ PassOver(p) \/ CompleteTag(p) \/ TagNext(p)
            \/ RepairPassesOver(p) \/ RepairTag(p)
  <2>1. next \in {"snapshot", "survey", "repair", "complete", "idle", "tag"}
    BY <1>1, <1>15, AcquireDoes, SurveyDoes, EndDoes, OtherwiseDoes, TagNextDoes
  <2>. QED  BY <2>1 DEF Selecting
<1>. QED  BY <1>8, <1>9, <1>10, <1>11, <1>12, <1>13, <1>14, <1>15 DEF Step, Disturb, Ending

LEMMA JobsUnclaimedNext ==
    OneLineage =>
      (/\ TypeOK /\ JobsConsistent /\ LockHeld /\ LineagesExist /\ Lineal /\ Chained
       /\ ClaimsPast /\ ClaimsOnRecord /\ JobsClaims /\ StoresAttested /\ InOrder
       /\ IsFiniteSet(calendar) /\ JobsUnclaimed /\ [Next]_vars
       => JobsUnclaimed')
<1>. SUFFICES ASSUME OneLineage, TypeOK, JobsConsistent, LockHeld, LineagesExist, Lineal,
                     Chained, ClaimsPast, ClaimsOnRecord, JobsClaims, StoresAttested,
                     InOrder, IsFiniteSet(calendar), JobsUnclaimed, [Next]_vars
              PROVE  JobsUnclaimed'
  OBVIOUS
<1>1. ASSUME DevStep \/ EnableProofCommit \/ UNCHANGED vars, UNCHANGED <<pc, job>>
      PROVE  JobsUnclaimed'
  <2>1. /\ Claimed(head)' = Claimed(head)
        /\ \A c : HasPair(work, c)' => HasPair(work, c)
    <3>1. CASE DevStep
      BY <3>1, DevClaims, DevDisk DEF TypeOK
    <3>2. CASE EnableProofCommit \/ UNCHANGED vars
      BY <3>2 DEF EnableProofCommit, vars, repoVars, HasPair, Described, Claimed, Anc
    <3>. QED  BY <1>1, <3>1, <3>2
  <2>2. ASSUME NEW p \in Proc
        PROVE  JobUnclaimed(job[p], pc[p])'
    <3>1. PICK j, step : j = job[p] /\ step = pc[p]
      OBVIOUS
    <3>2. JobUnclaimed(j, step)
      BY <3>1 DEF JobsUnclaimed
    <3>3. JobUnclaimed(j, step)'
      BY <2>1, <3>2 DEF JobUnclaimed
    <3>. QED  BY <1>1, <3>1, <3>3
  <2>. QED  BY <2>2 DEF JobsUnclaimed
<1>2. ASSUME NEW p \in Proc, Acquire(p) \/ AcquireForRepair(p) \/ Step(p) \/ Disturb(p)
      PROVE  JobsUnclaimed'
  <2>1. \A q \in Proc \ {p} : pc'[q] = "idle"
    BY <1>2, OthersIdle
  <2>2. CASE Commit(p)
    <3>1. pc'[p] = "tag"
      BY <2>2, MovesOn
    <3>. QED  BY <2>1, <3>1 DEF JobsUnclaimed, JobUnclaimed, Selecting
  <2>3. CASE ~Commit(p)
    <3>1. Claimed(head)' = Claimed(head)
      BY <1>2, <2>3, StillClaimed
    <3>2. JobUnclaimed(job[p], pc[p])
      BY DEF JobsUnclaimed
    <3>3. JobUnclaimed(job[p], pc[p])'
      BY <1>2, <3>1, <3>2, StepUnclaimed
    <3>. QED  BY <2>1, <3>3 DEF JobsUnclaimed, JobUnclaimed, Selecting
  <2>. QED  BY <2>2, <2>3
<1>3. DevStep /\ UNCHANGED runVars => UNCHANGED <<pc, job>>
  BY DEF runVars
<1>4. EnableProofCommit \/ UNCHANGED vars => UNCHANGED <<pc, job>>
  BY DEF EnableProofCommit, vars, runVars
<1>. QED  BY <1>1, <1>2, <1>3, <1>4 DEF Next, DevStep

LEMMA ClaimedOnceNext ==
    OneLineage =>
      (/\ TypeOK /\ Lineal /\ LineagesExist /\ JobsUnclaimed /\ ClaimedOnce /\ [Next]_vars
       => ClaimedOnce')
<1>. SUFFICES ASSUME OneLineage, TypeOK, Lineal, LineagesExist, JobsUnclaimed, ClaimedOnce,
                     [Next]_vars
              PROVE  ClaimedOnce'
  OBVIOUS
<1>1. CASE UNCHANGED <<history, head>>
  BY <1>1 DEF ClaimedOnce, Commits, Anc
<1>2. CASE \E ancestry, generated, claims, tree : Made(ancestry, generated, claims, tree)
  <2>1. PICK ancestry, generated, claims, tree : Made(ancestry, generated, claims, tree)
    BY <1>2
  <2>2. PICK h : h = head'
    OBVIOUS
  <2>3. /\ Commits' = Commits \cup {h} /\ h \notin Commits
        /\ \A c \in Commits : Anc(c)' = Anc(c) /\ history'[c] = history[c]
        /\ Anc(h)' = ancestry \cup {h} /\ history'[h].claims = claims
        /\ ancestry \in SUBSET Commits /\ ancestry \subseteq Anc(head) /\ head \in Commits
    <3>1. RepoTypeOK
      BY DEF TypeOK
    <3>2. /\ Commits' = Commits \cup {head'} /\ head' \notin Commits
          /\ head' \in Nat /\ \A c \in Commits : c \in Nat /\ c < head'
          /\ \A c \in Commits : /\ Anc(c)' = Anc(c) /\ Tree(c)' = Tree(c)
                                /\ IsGenerated(c)' = IsGenerated(c)
                                /\ history'[c] = history[c]
          /\ Anc(head)' = ancestry \cup {head'} /\ Tree(head)' = tree
          /\ IsGenerated(head)' = generated /\ history'[head'].claims = claims
          /\ head \in Commits /\ head \in Anc(head)
          /\ ancestry \in SUBSET Commits /\ ancestry \subseteq Anc(head)
      BY <2>1, <3>1, MadeFacts, Zenon
    <3>3. Anc(h)' = ancestry \cup {h}
      BY <2>2, <3>2 DEF Anc
    <3>. QED  BY <2>2, <3>2, <3>3
  <2>4. \A g \in ancestry : history[g].claims \cap claims = {}
    <3>1. CASE claims = {}
      BY <3>1
    <3>2. CASE ancestry = Anc(head) \ {head} /\ claims = history[head].claims
      BY <2>3, <3>2 DEF ClaimedOnce
    <3>3. CASE \E p \in Proc : /\ Commit(p) /\ ancestry = Anc(head) /\ generated = TRUE
                               /\ claims = job[p].done
      <4>1. PICK p \in Proc : Commit(p) /\ ancestry = Anc(head) /\ claims = job[p].done
        BY <3>3
      <4>2. job[p].done \cap Claimed(head) = {}
        BY <4>1 DEF Commit, At, JobsUnclaimed, JobUnclaimed
      <4>. QED  BY <4>1, <4>2 DEF Claimed
    <3>. QED  BY <2>1, <3>1, <3>2, <3>3 DEF Made
  <2>5. ASSUME NEW d \in Commits', NEW g \in Anc(d)', g # d
        PROVE  history'[g].claims \cap history'[d].claims = {}
    <3>1. CASE d = h
      <4>1. g \in ancestry /\ g \in Commits
        BY <2>3, <2>5, <3>1
      <4>. QED  BY <2>3, <2>4, <3>1, <4>1
    <3>2. CASE d # h
      <4>1. d \in Commits /\ g \in Anc(d) /\ g \in Commits
        BY <2>3, <2>5, <3>2 DEF LineagesExist
      <4>. QED  BY <2>3, <2>5, <4>1 DEF ClaimedOnce
    <3>. QED  BY <3>1, <3>2
  <2>. QED  BY <2>5 DEF ClaimedOnce
<1>. QED  BY <1>1, <1>2, LinearSteps

(* No source is claimed by two commits of one lineage.  The diagnostics of *)
(* recovery refuse a repository where one is (exit 5 for good); run() does *)
(* not check for it, it relies on the baseline of its snapshot.  Whatever  *)
(* is killed, refused, amended or repaired in between, a run commits no    *)
(* source that a proof commit below it has.  A reset may bring back what   *)
(* HEAD's lineage had lost; on merged lineages one baseline need not cover *)
(* all that is recorded; and under every_commit, removing proof files      *)
(* makes a run take up sources below the baseline.                         *)
THEOREM ClaimedAtMostOnce ==
    ASSUME {"reset", "merge"} \cap DevActions = {},
           ~EveryCommit \/ (InitialAll /\ {"clean", "drop"} \cap DevActions = {})
    PROVE  Spec => []ClaimedOnce
<1>1. OneLineage /\ Orderly
  BY DEF OneLineage, Orderly
<1>2. Init => JobsUnclaimed /\ ClaimedOnce
  <2>. SUFFICES ASSUME Init PROVE JobsUnclaimed /\ ClaimedOnce
    OBVIOUS
  <2>1. /\ Commits = {1} /\ Anc(1) = {1} /\ \A p \in Proc : pc[p] = "idle"
    BY DEF Init, RepoInit, Commits, Anc
  <2>. QED  BY <2>1 DEF JobsUnclaimed, JobUnclaimed, ClaimedOnce, Selecting
<1>3. Spec => [](TypeOK /\ JobsConsistent /\ LockHeld /\ Lineal /\ LineagesExist /\ StoresAttested)
  <2>1. Spec => [](StoresAttested /\ JobsAttested)
    BY TypeInvariant, AttestedInit, AttestedNext, PTL DEF Spec
  <2>2. Backed => LineagesExist
    BY DEF Backed
  <2>. QED  BY <2>1, <2>2, TypeInvariant, LockInvariant, LinealInvariant, BackedInvariant, PTL
<1>4. Spec => [](Chained /\ ClaimsPast /\ ClaimsOnRecord /\ JobsClaims)
  BY <1>1, ClaimsInvariant
<1>5. Spec => []InOrder
  BY <1>1, OrderInvariant
<1>6. /\ TypeOK /\ JobsConsistent /\ LockHeld /\ LineagesExist /\ Lineal /\ Chained
      /\ ClaimsPast /\ ClaimsOnRecord /\ JobsClaims /\ StoresAttested /\ InOrder
      /\ IsFiniteSet(calendar) /\ JobsUnclaimed /\ [Next]_vars
      => JobsUnclaimed'
  BY <1>1, JobsUnclaimedNext
<1>7. /\ TypeOK /\ Lineal /\ LineagesExist /\ JobsUnclaimed /\ ClaimedOnce /\ [Next]_vars
      => ClaimedOnce'
  BY <1>1, ClaimedOnceNext
<1>. QED  BY <1>2, <1>3, <1>4, <1>5, <1>6, <1>7, FiniteCalendar, PTL DEF Spec

-----------------------------------------------------------------------------
(* Tags and the manifests they come from, where files may be removed *)

LEMMA StackedNext ==
    OneLineage =>
      (/\ TypeOK /\ Lineal /\ LineagesExist /\ Stacked /\ [Next]_vars
       => Stacked')
<1>. SUFFICES ASSUME OneLineage, TypeOK, Lineal, LineagesExist, Stacked, [Next]_vars
              PROVE  Stacked'
  OBVIOUS
<1>1. /\ RepoTypeOK /\ work \in Store /\ Holds(index, Tree(head)) /\ Holds(work, index)
      /\ Holds(work, Tree(head))
  BY HoldsChain DEF TypeOK, RepoTypeOK, Stacked
<1>2. CASE UNCHANGED <<history, head, index, work>>
  BY <1>2 DEF Stacked, Tree
<1>3. CASE \E p \in Proc : Acquire(p) \/ AcquireForRepair(p) \/ Step(p) \/ Disturb(p)
  <2>1. PICK p \in Proc : \/ PersistProof(p) \/ PersistManifest(p) \/ Stage(p)
                          \/ Commit(p) \/ LeavesFiles(p)
    BY <1>3, ProcessSteps
  <2>2. CASE PersistProof(p) \/ PersistManifest(p)
    <3>1. UNCHANGED <<history, head, index>> /\ Holds(work', work)
      BY <1>1, <2>2 DEF PersistProof, PersistManifest, Holds, Store
    <3>. QED  BY <1>1, <3>1, HoldsChain DEF Stacked, Tree
  <2>3. CASE Stage(p)
    <3>1. /\ UNCHANGED <<history, head, work>>
          /\ index' = Put(index, work, job[p].done)
      BY <2>3 DEF Stage, StagePaths
    <3>2. Holds(index', index) /\ Holds(work, index')
      BY <1>1, <3>1, PutGains
    <3>. QED  BY <1>1, <3>1, <3>2, HoldsChain DEF Stacked, Tree
  <2>4. CASE Commit(p)
    <3>1. index' = Put(index, work, job[p].done) /\ work' = work
      BY <2>4 DEF Commit, GeneratedProofCommit
    <3>2. Tree(head)' = Put(Tree(head), work, job[p].done)
      BY <2>4, CommitClaims
    <3>. QED  BY <1>1, <3>1, <3>2, PutGains, PutHolds DEF Stacked
  <2>5. CASE LeavesFiles(p)
    BY <1>2, <2>5, LeavesFilesFacts
  <2>. QED  BY <2>1, <2>2, <2>3, <2>4, <2>5
<1>4. CASE DevStep
  <2>1. UNCHANGED <<history, head>> \/ Tree(head)' = index'
    BY <1>1, <1>4, DevClaims
  <2>2. UNCHANGED <<history, head>> => UNCHANGED index \/ Tree(head)' = index'
    <3>1. CASE DevClean \/ Tick
      BY <3>1 DEF DevClean, Tick
    <3>2. CASE DevCommit \/ DevAmend \/ DevDrop
      <4>1. head' # head
        <5>1. head' = Len(history) + 1
          BY <3>2 DEF DevCommit, DevAmend, DevDrop, NewCommit
        <5>2. history \in Seq(CommitInfo) /\ head \in DOMAIN history
          BY <1>1 DEF RepoTypeOK, Commits
        <5>3. head \in 1..Len(history) /\ Len(history) \in Nat
          BY <5>2
        <5>. QED  BY <5>1, <5>3
      <4>. QED  BY <4>1
    <3>3. ~DevReset /\ ~DevMerge
      BY DEF DevReset, DevMerge, Dev, OneLineage
    <3>. QED  BY <1>4, <3>1, <3>2, <3>3 DEF DevStep
  <2>3. Holds(index', Tree(head)')
    BY <1>1, <2>1, <2>2, HoldsItself DEF Tree
  <2>4. Holds(work', index')
    <3>1. CASE DevCommit
      BY <1>1, <3>1, HoldsItself DEF DevCommit
    <3>2. CASE DevAmend \/ Tick
      BY <1>1, <3>2 DEF DevAmend, Tick
    <3>3. CASE DevDrop
      BY <1>1, <3>3, PutHolds DEF DevDrop
    <3>4. CASE DevClean
      BY <1>1, <3>4 DEF DevClean, Holds, Described
    <3>5. ~DevReset /\ ~DevMerge
      BY DEF DevReset, DevMerge, Dev, OneLineage
    <3>. QED  BY <1>4, <3>1, <3>2, <3>3, <3>4, <3>5 DEF DevStep
  <2>. QED  BY <2>3, <2>4 DEF Stacked
<1>5. CASE EnableProofCommit \/ UNCHANGED vars
  BY <1>2, <1>5 DEF EnableProofCommit, vars, repoVars
<1>. QED  BY <1>3, <1>4, <1>5 DEF Next, DevStep

LEMMA StackedInvariant ==
    ASSUME OneLineage
    PROVE  Spec => []Stacked
<1>1. Init => Stacked
  <2>. SUFFICES ASSUME Init PROVE Stacked
    OBVIOUS
  <2>1. head = 1 /\ Tree(1) = EmptyStore /\ index = EmptyStore /\ work = EmptyStore
    BY DEF Init, RepoInit, Tree
  <2>. QED  BY <2>1, HoldsItself DEF Stacked
<1>2. Backed => LineagesExist
  BY DEF Backed
<1>3. TypeOK /\ Lineal /\ LineagesExist /\ Stacked /\ [Next]_vars => Stacked'
  BY StackedNext
<1>. QED  BY TypeInvariant, LinealInvariant, BackedInvariant, <1>1, <1>2, <1>3, PTL DEF Spec

(* What the manifests and claims are found by, either because nobody       *)
(* removes files or because nobody merges.                                 *)
LEMMA SettledInvariant ==
    ASSUME "reset" \notin DevActions
    PROVE  Spec => [](Calm /\ Stacked /\ ClaimsKept)
<1>1. CASE "drop" \notin DevActions
  <2>1. FilesStay
    BY <1>1 DEF FilesStay
  <2>2. TypeOK /\ JobsConsistent /\ Backed /\ Accrues => Calm /\ Stacked /\ ClaimsKept
    <3>. SUFFICES ASSUME TypeOK, JobsConsistent, Backed, Accrues
                  PROVE  Calm /\ Stacked /\ ClaimsKept
      OBVIOUS
    <3>1. Calm /\ Stacked
      BY DEF Calm, Stacked, Accrues
    <3>2. ASSUME NEW p \in Proc, pc[p] = "complete", NEW c \in Claimed(job[p].src)
          PROVE  \E g \in Commits : HasPair(Tree(g), c) /\ Holds(work, Tree(g))
      <4>1. job[p].src \in Commits
        BY <3>2 DEF JobsConsistent
      <4>2. PICK g \in Anc(job[p].src) : c \in history[g].claims
        BY <3>2 DEF Claimed
      <4>3. g \in Commits /\ HasPair(Tree(g), c)
        BY <4>1, <4>2 DEF Backed, LineagesExist, ClaimsBacked
      <4>. QED  BY <4>3, AllOnDisk
    <3>. QED  BY <3>1, <3>2 DEF ClaimsKept, ClaimsFound
  <2>3. Spec => []Accrues
    BY <2>1, AccruesInvariant
  <2>. QED  BY TypeInvariant, BackedInvariant, <2>2, <2>3, PTL
<1>2. CASE "drop" \in DevActions
  <2>1. OneLineage
    BY <1>2, RepoAssumption DEF OneLineage
  <2>2. TypeOK /\ Stacked /\ ClaimsOnRecord /\ JobsClaims => Calm /\ Stacked /\ ClaimsKept
    <3>. SUFFICES ASSUME TypeOK, Stacked, ClaimsOnRecord, JobsClaims
                  PROVE  Calm /\ ClaimsKept
      OBVIOUS
    <3>1. Calm
      BY <2>1 DEF Calm, OneLineage
    <3>2. head \in Commits /\ Holds(work, Tree(head))
      BY HoldsChain DEF TypeOK, RepoTypeOK, Commits, Stacked
    <3>3. ASSUME NEW p \in Proc, pc[p] = "complete", NEW c \in Claimed(job[p].src),
                 HasPair(work, c)
          PROVE  HasPair(Tree(head), c)
      <4>1. Claimed(head) = Claimed(job[p].src)
        BY <3>3 DEF JobsClaims, JobClaims
      <4>. QED  BY <3>3, <4>1 DEF ClaimsOnRecord
    <3>. QED  BY <3>1, <3>2, <3>3 DEF ClaimsKept, ClaimsFound
  <2>3. Spec => []Stacked
    BY <2>1, StackedInvariant
  <2>4. Spec => [](Chained /\ ClaimsPast /\ ClaimsOnRecord /\ JobsClaims)
    BY <2>1, ClaimsInvariant
  <2>. QED  BY TypeInvariant, <2>2, <2>3, <2>4, PTL
<1>. QED  BY <1>1, <1>2

LEMMA WitnessedInvariant ==
    ASSUME "reset" \notin DevActions, ~Repairs
    PROVE  Spec => [](OneManifest /\ JobsFaithful /\ TagsWitnessed)
<1>1. Init => /\ JobsBacked /\ KeptThroughout /\ ~Repairing /\ OneManifest
              /\ JobsFaithful /\ TagsWitnessed
  BY NotWriting DEF Init, RepoInit, JobsBacked, KeptThroughout, Repairing, OneManifest,
                    EmptyStore, JobsFaithful, JobFaithful, Selecting, TagsWitnessed, Writing
<1>2. Spec => [](Calm /\ Stacked /\ ClaimsKept)
  BY SettledInvariant
<1>3. TypeOK /\ ~Repairing /\ [Next]_vars => ~Repairing'
  BY NoRepairNext
<1>4. Spec => []JobsBacked /\ []KeptThroughout /\ []~Repairing
  BY TypeInvariant, BackedInvariant, <1>1, JobsBackedNext, KeptNext, <1>3, PTL DEF Spec
<1>5. Spec => []OneManifest
  BY TypeInvariant, <1>1, <1>2, OneManifestNext, PTL DEF Spec
<1>6. Spec => []JobsFaithful
  BY TypeInvariant, LockInvariant, BackedInvariant, <1>1, <1>2, <1>4, <1>5, FaithfulNext, PTL
     DEF Spec
<1>7. Spec => []TagsWitnessed
  BY TypeInvariant, <1>1, <1>2, <1>4, <1>5, <1>6, TagsWitnessedNext, PTL DEF Spec
<1>. QED  BY <1>5, <1>6, <1>7, PTL

(* With proof commits enabled, every tag's own proof and manifest, and not *)
(* only some manifest of its source, are in the tree of some commit.  Runs *)
(* may be killed between any two of their steps, and others adopt what     *)
(* they left; the developer may amend, merge, clean and remove committed   *)
(* proofs in between.                                                      *)
THEOREM TagsAreDurable ==
    ASSUME "reset" \notin DevActions, ~Repairs
    PROVE  Spec => []TagsDurable
<1>1. TagsWitnessed => TagsDurable
  BY DEF TagsWitnessed, TagsDurable, Witnessed
<1>. QED  BY WitnessedInvariant, <1>1, PTL
=============================================================================
