------------------------ MODULE ProofUpgrade_proofs ------------------------
(***************************************************************************)
(* Proofs about `git ots upgrade`, for every set of sources, calendars and *)
(* configurations, every developer, every failure and every bound.         *)
(*                                                                         *)
(*   TypeCorrect      every reachable state is well typed                  *)
(*   LosesNothing     a pass never makes HEAD's proofs attest to less      *)
(*   FoldsItsOwn      a fold takes only the tool's own commits away        *)
(*   StaysForward     a fold never takes a published commit away           *)
(*   KeepsTheRecord   the record of refreshed sources only grows           *)
(*                                                                         *)
(* They rest on what a pass knows and nobody else can change while it is   *)
(* under way: the proofs on disk (Gains) and the commit it decided to fold *)
(* into (Approved).                                                        *)
(***************************************************************************)
EXTENDS ProofUpgrade, TLAPS

-----------------------------------------------------------------------------
(* Type correctness *)

LEMMA TypeInit == Init => TypeOK
<1>. SUFFICES ASSUME Init PROVE TypeOK
  OBVIOUS
<1>1. NoFiles \in Files
  BY DEF NoFiles, Files, Proof
<1>. DEFINE first == [anc |-> {1}, kind |-> "ordinary", claims |-> {}, upgraded |-> {},
                      outside |-> TRUE, signed |-> FALSE, tree |-> NoFiles]
<1>2. first \in CommitInfo
  BY <1>1 DEF CommitInfo
<1>3. history = <<first>> /\ history \in Seq(CommitInfo) /\ head \in DOMAIN history
  <2>1. history = <<first>> /\ head = 1
    BY DEF Init
  <2>. HIDE DEF first
  <2>. QED  BY <1>2, <2>1
<1>4. NoJob \in Job /\ NoJob.todo \cup NoJob.upgraded = {}
  BY <1>1 DEF NoJob, Job, Config
<1>. QED  BY <1>1, <1>3, <1>4 DEF Init, TypeOK, Steps

LEMMA NoJobType == NoJob \in Job /\ NoJob.todo = {} /\ NoJob.upgraded = {}
  BY DEF NoJob, NoFiles, Job, Config, Files, Proof

LEMMA PutType ==
    ASSUME NEW a \in Files, NEW b \in Files, NEW S \in SUBSET Source
    PROVE  Put(a, b, S) \in Files
  BY DEF Put, Files

LEMMA CommitFacts ==
    ASSUME TypeOK, NEW c \in Commits
    PROVE  history[c] \in CommitInfo /\ Anc(c) \subseteq Nat /\ Tree(c) \in Files
<1>1. history \in Seq(CommitInfo) /\ c \in 1..Len(history)
  BY DEF TypeOK, Commits
<1>2. history[c] \in CommitInfo
  BY <1>1
<1>. QED  BY <1>2 DEF CommitInfo, Anc, Tree

(* What a new commit does to the history. *)
LEMMA NewCommitGrows ==
    ASSUME TypeOK, NEW ancestry, NEW info, NewCommit(ancestry, info)
    PROVE  /\ head' = Len(history) + 1 /\ head' \notin Commits
           /\ Commits' = Commits \cup {head'}
           /\ \A c \in Commits : history'[c] = history[c]
           /\ history'[head'].anc = ancestry \cup {head'}
           /\ history'[head'].upgraded = info.upgraded
           /\ history'[head'].signed = info.signed
           /\ history'[head'].tree = info.tree
<1>. DEFINE new == [anc     |-> ancestry \cup {Len(history) + 1}, kind |-> info.kind,
                    claims  |-> info.claims, upgraded |-> info.upgraded,
                    outside |-> info.outside, signed |-> info.signed, tree |-> info.tree]
            Infos == CommitInfo \cup {new}
<1>1. history \in Seq(CommitInfo) /\ Len(history) \in Nat /\ DOMAIN history = 1..Len(history)
  BY DEF TypeOK
<1>2. history' = Append(history, new) /\ head' = Len(history) + 1
  BY DEF NewCommit
<1>3. /\ new.anc = ancestry \cup {Len(history) + 1} /\ new.upgraded = info.upgraded
      /\ new.signed = info.signed /\ new.tree = info.tree
  OBVIOUS
<1>4. new \in Infos
  OBVIOUS
<1>. HIDE DEF new
<1>5. history \in Seq(Infos)
  BY <1>1
<1>. HIDE DEF Infos
<1>6. /\ Len(history') = Len(history) + 1 /\ DOMAIN history' = 1..Len(history')
      /\ \A c \in 1..Len(history) : history'[c] = history[c]
      /\ history'[Len(history) + 1] = new
  BY <1>2, <1>4, <1>5
<1>. QED  BY <1>1, <1>2, <1>3, <1>6 DEF Commits

LEMMA HeadFacts ==
    ASSUME TypeOK
    PROVE  head \in Commits /\ Anc(head) \subseteq Nat /\ Tree(head) \in Files
           /\ history[head] \in CommitInfo
  BY CommitFacts DEF TypeOK, Commits

(* The steps that make a commit make it of well-typed parts. *)
LEMMA MakesCommit ==
    ASSUME TypeOK, NEW ancestry, NEW info, NewCommit(ancestry, info),
           ancestry \in SUBSET Nat,
           info.kind \in {"ordinary", "proof", "upgrade"}, info.claims \in SUBSET Source,
           info.upgraded \in SUBSET Source, info.outside \in BOOLEAN,
           info.signed \in BOOLEAN, info.tree \in Files
    PROVE  /\ history' \in Seq(CommitInfo)
           /\ head' \in DOMAIN history'
           /\ DOMAIN history \subseteq DOMAIN history'
<1>. DEFINE new == [anc     |-> ancestry \cup {Len(history) + 1}, kind |-> info.kind,
                    claims  |-> info.claims, upgraded |-> info.upgraded,
                    outside |-> info.outside, signed |-> info.signed, tree |-> info.tree]
<1>1. history \in Seq(CommitInfo)
  BY DEF TypeOK
<1>2. history' = Append(history, new)
  BY DEF NewCommit
<1>3. new \in CommitInfo
  <2>1. Len(history) + 1 \in Nat
    BY <1>1
  <2>2. ancestry \cup {Len(history) + 1} \in SUBSET Nat
    BY <2>1
  <2>. QED  BY <2>2 DEF CommitInfo
<1>. HIDE DEF new
<1>4. history' \in Seq(CommitInfo)
  BY <1>1, <1>2, <1>3
<1>. QED  BY <1>4, NewCommitGrows DEF Commits

LEMMA RecordedType ==
    ASSUME TypeOK
    PROVE  Recorded \in Files /\ job.upgraded \in SUBSET Source
           /\ job.prev \in SUBSET Source /\ job.config.sign \in BOOLEAN
  BY HeadFacts, PutType DEF Recorded, TypeOK, Job, Config

LEMMA TypePass ==
    ASSUME TypeOK, PassStep
    PROVE  TypeOK'
<1>1. CASE Scan
  <2>. DEFINE new == [NoJob EXCEPT !.config = config, !.base = head, !.bytes = work,
                            !.todo = Stored \ Skipped, !.recovered = Recovered]
  <2>0. config \in Config /\ head \in Nat /\ work \in Files
    BY UpgradeAssumption DEF TypeOK
  <2>1. new \in Job
    BY <2>0, NoJobType DEF Job, Stored, Recovered, Uncommitted
  <2>2. new.todo \cup new.upgraded = Stored \ Skipped /\ new.bytes = work
    BY DEF NoJob
  <2>3. \A s \in new.todo \cup new.upgraded : new.bytes[s] # None
    BY <2>2 DEF Stored
  <2>4. job' = new /\ pc' = "collect"
        /\ UNCHANGED <<history, head, index, work, remote, filed, config, devs, faults>>
    BY <1>1 DEF Scan
  <2>. HIDE DEF new
  <2>. QED  BY <2>1, <2>3, <2>4 DEF TypeOK, Steps
<1>2. CASE \E s \in Source : Collect(s)
  <2>1. PICK s \in Source : Collect(s)
    BY <1>2
  <2>2. PICK got \in SUBSET Owed(s) :
          /\ IF got = {} THEN UNCHANGED work ELSE Persist(s, got)
          /\ job' = [job EXCEPT
                !.todo     = @ \ {s},
                !.upgraded = IF got # {} \/ s \in job.recovered THEN @ \cup {s} ELSE @]
    BY <2>1 DEF Collect
  <2>3. faults' \in Nat
    BY <2>1 DEF Collect, Fault, TypeOK
  <2>4. s \in job.todo /\ job.bytes[s] # None /\ job.bytes[s] \in Proof
    BY <2>1 DEF Collect, TypeOK, Job, Files
  <2>5. job.bytes[s] \cup got \in Proof
    BY <2>4 DEF Proof, Owed, TypeOK
  <2>6. work' \in Files
    BY <2>2, <2>5 DEF Persist, TypeOK, Files
  <2>7. job' \in Job /\ job'.todo \subseteq job.todo /\ job'.bytes = job.bytes
        /\ job'.upgraded \subseteq job.upgraded \cup {s}
    BY <2>2 DEF TypeOK, Job
  <2>8. \A t \in job'.todo \cup job'.upgraded : job'.bytes[t] # None
    BY <2>4, <2>7 DEF TypeOK
  <2>9. UNCHANGED <<history, head, index, remote, filed, config, pc, devs>>
    BY <2>1 DEF Collect
  <2>. QED  BY <2>3, <2>6, <2>7, <2>8, <2>9 DEF TypeOK
<1>3. CASE FinishPass
  BY <1>3, NoJobType DEF FinishPass, EndPass, TypeOK, Steps
<1>4. CASE FindTarget
  <2>1. job' \in Job /\ UNCHANGED <<job.todo, job.upgraded, job.bytes>>
    <3>1. history[head].upgraded \in SUBSET Source /\ head \in Nat /\ remote \in Nat
      BY HeadFacts DEF CommitInfo, TypeOK
    <3>. QED  BY <1>4, <3>1 DEF FindTarget, TypeOK, Job
  <2>. QED  BY <1>4, <2>1 DEF FindTarget, TypeOK, Steps
<1>5. CASE StagePaths
  <2>1. index' \in Files
    BY <1>5, PutType, RecordedType DEF StagePaths, TypeOK
  <2>. QED  BY <1>5, <2>1 DEF StagePaths, TypeOK, Steps
<1>6. CASE CreateUpgradeCommit
  <2>1. index' \in Files
    BY <1>6, PutType, RecordedType DEF CreateUpgradeCommit, TypeOK
  <2>2. /\ history' \in Seq(CommitInfo) /\ head' \in DOMAIN history'
        /\ DOMAIN history \subseteq DOMAIN history'
    BY <1>6, RecordedType, HeadFacts, MakesCommit DEF CreateUpgradeCommit
  <2>. QED  BY <1>6, <2>1, <2>2, NoJobType
            DEF CreateUpgradeCommit, EndPass, TypeOK, Steps
<1>7. CASE NothingToCommit
  BY <1>7, NoJobType DEF NothingToCommit, EndPass, TypeOK, Steps
<1>8. CASE CheckHead
  <2>1. CASE head = job.target
    <3>1. job' \in Job /\ UNCHANGED <<job.todo, job.upgraded, job.bytes>>
      BY <1>8, <2>1 DEF CheckHead, TypeOK, Job
    <3>. QED  BY <1>8, <2>1, <3>1 DEF CheckHead, TypeOK, Steps
  <2>2. CASE head # job.target
    BY <1>8, <2>2, NoJobType DEF CheckHead, EndPass, TypeOK, Steps
  <2>. QED  BY <2>1, <2>2
<1>9. CASE Amend
  <2>1. index' \in Files
    BY <1>9, PutType, RecordedType DEF Amend, TypeOK
  <2>2. /\ history' \in Seq(CommitInfo) /\ head' \in DOMAIN history'
        /\ DOMAIN history \subseteq DOMAIN history'
    <3>1. history[head].outside \in BOOLEAN /\ Anc(head) \ {head} \in SUBSET Nat
          /\ job.prev \cup job.upgraded \in SUBSET Source
      BY HeadFacts, RecordedType DEF CommitInfo
    <3>. QED  BY <1>9, <3>1, RecordedType, MakesCommit DEF Amend
  <2>. QED  BY <1>9, <2>1, <2>2, NoJobType DEF Amend, EndPass, TypeOK, Steps
<1>. QED  BY <1>1, <1>2, <1>3, <1>4, <1>5, <1>6, <1>7, <1>8, <1>9 DEF PassStep

LEMMA TypeFailure ==
    ASSUME TypeOK, (\E s \in Source : ClientFails(s)) \/ AmendContended \/ Interrupt
    PROVE  TypeOK'
  BY NoJobType DEF ClientFails, AmendContended, Interrupt, Fault, EndPass, TypeOK, Steps

LEMMA TypeSurroundings ==
    ASSUME TypeOK, Surroundings
    PROVE  TypeOK'
<1>1. CASE \E s \in Source, k \in Calendar : CalendarFiles(s, k)
  BY <1>1 DEF CalendarFiles, TypeOK
<1>2. CASE \E s \in Source : RunStores(s)
  <2>1. PICK s \in Source : RunStores(s)
    BY <1>2
  <2>2. work' \in Files /\ faults' \in Nat
    BY <2>1 DEF RunStores, Fault, TypeOK, Files, Proof
  <2>. QED  BY <2>1, <2>2 DEF RunStores, TypeOK
<1>3. CASE \E s \in Source : RunCommits(s)
  <2>1. PICK s \in Source : RunCommits(s)
    BY <1>3
  <2>. DEFINE found == IF work[s] = None THEN [work EXCEPT ![s] = {}] ELSE work
  <2>2. found \in Files
    BY DEF TypeOK, Files, Proof
  <2>3. /\ work' = found /\ index' = Put(index, found, {s})
        /\ NewCommit(Anc(head), [kind |-> "proof", claims |-> {s}, upgraded |-> {},
                                 outside |-> FALSE, signed |-> config.sign,
                                 tree |-> Put(Tree(head), found, {s})])
        /\ UNCHANGED <<remote, filed, config, pc, job, devs, faults>>
    BY <2>1 DEF RunCommits
  <2>. HIDE DEF found
  <2>4. index' \in Files /\ Put(Tree(head), found, {s}) \in Files
    BY <2>2, <2>3, PutType, HeadFacts DEF TypeOK
  <2>5. config.sign \in BOOLEAN
    BY UpgradeAssumption DEF TypeOK, Config
  <2>6. /\ history' \in Seq(CommitInfo) /\ head' \in DOMAIN history'
        /\ DOMAIN history \subseteq DOMAIN history'
    BY <2>3, <2>4, <2>5, HeadFacts, MakesCommit
  <2>. QED  BY <2>2, <2>3, <2>4, <2>6 DEF TypeOK
<1>4. CASE DevCommit
  <2>1. PICK all \in BOOLEAN :
          LET staged == IF all THEN work ELSE index
          IN  /\ index' = staged
              /\ NewCommit(Anc(head), [kind |-> "ordinary", claims |-> {}, upgraded |-> {},
                                       outside |-> TRUE, signed |-> FALSE, tree |-> staged])
    BY <1>4 DEF DevCommit
  <2>. DEFINE staged == IF all THEN work ELSE index
  <2>2. staged \in Files
    BY DEF TypeOK
  <2>3. index' = staged
        /\ NewCommit(Anc(head), [kind |-> "ordinary", claims |-> {}, upgraded |-> {},
                                 outside |-> TRUE, signed |-> FALSE, tree |-> staged])
    BY <2>1
  <2>. HIDE DEF staged
  <2>4. /\ history' \in Seq(CommitInfo) /\ head' \in DOMAIN history'
        /\ DOMAIN history \subseteq DOMAIN history'
    BY <2>2, <2>3, HeadFacts, MakesCommit
  <2>. QED  BY <1>4, <2>2, <2>3, <2>4 DEF DevCommit, Dev, TypeOK
<1>5. CASE DevAmend
  <2>1. PICK edited \in BOOLEAN, more \in BOOLEAN :
          NewCommit(Anc(head) \ {head},
                 [kind |-> IF edited THEN "ordinary" ELSE history[head].kind,
                  claims |-> history[head].claims, upgraded |-> history[head].upgraded,
                  outside |-> history[head].outside \/ more, signed |-> FALSE,
                  tree |-> index])
    BY <1>5 DEF DevAmend
  <2>2. /\ history[head].kind \in {"ordinary", "proof", "upgrade"}
        /\ history[head].claims \in SUBSET Source /\ history[head].upgraded \in SUBSET Source
        /\ history[head].outside \in BOOLEAN /\ index \in Files
    BY HeadFacts DEF CommitInfo, TypeOK
  <2>3. (IF edited THEN "ordinary" ELSE history[head].kind)
           \in {"ordinary", "proof", "upgrade"}
    BY <2>2
  <2>4. (history[head].outside \/ more) \in BOOLEAN
    OBVIOUS
  <2>. DEFINE info == [kind |-> IF edited THEN "ordinary" ELSE history[head].kind,
                  claims |-> history[head].claims, upgraded |-> history[head].upgraded,
                  outside |-> history[head].outside \/ more, signed |-> FALSE,
                  tree |-> index]
  <2>5. /\ info.kind \in {"ordinary", "proof", "upgrade"}
        /\ info.claims \in SUBSET Source /\ info.upgraded \in SUBSET Source
        /\ info.outside \in BOOLEAN /\ info.signed \in BOOLEAN /\ info.tree \in Files
        /\ Anc(head) \ {head} \in SUBSET Nat
    BY <2>2, <2>3, <2>4, HeadFacts
  <2>6. NewCommit(Anc(head) \ {head}, info)
    BY <2>1
  <2>. HIDE DEF info
  <2>7. /\ history' \in Seq(CommitInfo) /\ head' \in DOMAIN history'
        /\ DOMAIN history \subseteq DOMAIN history'
    BY <2>5, <2>6, MakesCommit
  <2>. QED  BY <1>5, <2>7 DEF DevAmend, Dev, TypeOK
<1>6. CASE DevPush
  BY <1>6 DEF DevPush, Dev, TypeOK
<1>7. CASE DevReset
  <2>1. PICK c \in Commits : head' = c /\ index' = Tree(c)
          /\ work' = [s \in Source |-> IF index[s] = None /\ Tree(c)[s] = None
                                       THEN work[s] ELSE Tree(c)[s]]
    BY <1>7 DEF DevReset
  <2>2. Tree(c) \in Files
    BY CommitFacts
  <2>3. index' \in Files /\ work' \in Files /\ head' \in DOMAIN history
    BY <2>1, <2>2 DEF TypeOK, Files, Commits
  <2>. QED  BY <1>7, <2>3 DEF DevReset, Dev, TypeOK
<1>8. CASE DevRestore
  <2>1. PICK s \in Stored, c \in Commits : work' = [work EXCEPT ![s] = Tree(c)[s]]
    BY <1>8 DEF DevRestore
  <2>2. work' \in Files
    BY <2>1, CommitFacts DEF TypeOK, Files, Stored
  <2>. QED  BY <1>8, <2>2 DEF DevRestore, Dev, TypeOK
<1>9. CASE DevConfigure
  BY <1>9 DEF DevConfigure, Dev, TypeOK
<1>. QED  BY <1>1, <1>2, <1>3, <1>4, <1>5, <1>6, <1>7, <1>8, <1>9 DEF Surroundings

LEMMA TypeNext == TypeOK /\ [Next]_vars => TypeOK'
<1>. SUFFICES ASSUME TypeOK, [Next]_vars PROVE TypeOK'
  OBVIOUS
<1>1. CASE UNCHANGED vars
  BY <1>1 DEF vars, TypeOK
<1>. QED  BY <1>1, TypePass, TypeFailure, TypeSurroundings DEF Next

(* Every reachable state is well typed; a pass has work only with proofs   *)
(* that its scan has read.                                                 *)
THEOREM TypeCorrect == Spec => []TypeOK
  BY TypeInit, TypeNext, PTL DEF Spec

-----------------------------------------------------------------------------
(* Steps *)

(* A commit was made on the lineage ancestry. *)
Grown(ancestry) ==
    /\ head' \notin Commits
    /\ Commits' = Commits \cup {head'}
    /\ \A c \in Commits : history'[c] = history[c]
    /\ history'[head'].anc = ancestry \cup {head'}

LEMMA CreateFacts ==
    ASSUME TypeOK, CreateUpgradeCommit
    PROVE  /\ Grown(Anc(head))
           /\ history'[head'].upgraded = job.upgraded
           /\ history'[head'].tree = Recorded
  BY NewCommitGrows DEF CreateUpgradeCommit, Grown

LEMMA AmendFacts ==
    ASSUME TypeOK, Amend
    PROVE  /\ Grown(Anc(head) \ {head})
           /\ history'[head'].upgraded = job.prev \cup job.upgraded
           /\ history'[head'].signed = job.config.sign
           /\ history'[head'].tree = Recorded
  BY NewCommitGrows DEF Amend, Grown

(* Others only commit, on top of HEAD or in its place, while a pass is     *)
(* under way; the pass and the files on disk are its own.                  *)
LEMMA Elsewhere ==
    ASSUME TypeOK, Surroundings
    PROVE  /\ UNCHANGED <<pc, job>>
           /\ history' = history \/ \E ancestry \in SUBSET Anc(head) : Grown(ancestry)
           /\ pc # "idle" => /\ UNCHANGED work
                             /\ history'[head'].upgraded \subseteq history[head].upgraded
<1>1. CASE \E s \in Source, k \in Calendar : CalendarFiles(s, k)
  BY <1>1 DEF CalendarFiles
<1>2. CASE \E s \in Source : RunStores(s)
  BY <1>2 DEF RunStores
<1>3. CASE \E s \in Source : RunCommits(s)
  <2>1. PICK s \in Source : RunCommits(s)
    BY <1>3
  <2>2. pc = "idle" /\ UNCHANGED <<pc, job>> /\ \E info : NewCommit(Anc(head), info)
    BY <2>1 DEF RunCommits
  <2>. QED  BY <2>2, NewCommitGrows DEF Grown
<1>4. CASE DevCommit
  <2>1. PICK staged :
          NewCommit(Anc(head), [kind |-> "ordinary", claims |-> {}, upgraded |-> {},
                                outside |-> TRUE, signed |-> FALSE, tree |-> staged])
    BY <1>4 DEF DevCommit
  <2>2. UNCHANGED <<pc, job, work>>
    BY <1>4 DEF DevCommit, Dev
  <2>. QED  BY <2>1, <2>2, NewCommitGrows DEF Grown
<1>5. CASE DevAmend
  <2>1. PICK kind, outside :
          NewCommit(Anc(head) \ {head},
                 [kind |-> kind, claims |-> history[head].claims,
                  upgraded |-> history[head].upgraded, outside |-> outside,
                  signed |-> FALSE, tree |-> index])
    BY <1>5 DEF DevAmend
  <2>2. UNCHANGED <<pc, job, work>>
    BY <1>5 DEF DevAmend, Dev
  <2>3. Anc(head) \ {head} \in SUBSET Anc(head)
    OBVIOUS
  <2>4. Grown(Anc(head) \ {head}) /\ history'[head'].upgraded = history[head].upgraded
    BY <2>1, NewCommitGrows DEF Grown
  <2>. QED  BY <2>2, <2>3, <2>4
<1>6. CASE DevPush \/ DevConfigure
  BY <1>6 DEF DevPush, DevConfigure, Dev
<1>7. CASE DevReset \/ DevRestore
  BY <1>7 DEF DevReset, DevRestore, Dev
<1>. QED  BY <1>1, <1>2, <1>3, <1>4, <1>5, <1>6, <1>7 DEF Surroundings

(* The steps of a pass that make no commit. *)
Quiet ==
    \/ Scan \/ (\E s \in Source : Collect(s)) \/ FinishPass \/ FindTarget \/ StagePaths
    \/ NothingToCommit \/ CheckHead \/ (\E s \in Source : ClientFails(s))
    \/ AmendContended \/ Interrupt

LEMMA QuietFacts ==
    ASSUME Quiet
    PROVE  UNCHANGED <<history, head, remote>>
  BY DEF Quiet, Scan, Collect, FinishPass, FindTarget, StagePaths, NothingToCommit,
         CheckHead, ClientFails, AmendContended, Interrupt

LEMMA NextCases ==
    ASSUME [Next]_vars
    PROVE  CreateUpgradeCommit \/ Amend \/ Quiet \/ Surroundings \/ UNCHANGED vars
  BY DEF Next, PassStep, Quiet

(* Commits are only added, and each on the lineage of the one before it. *)
LEMMA HistoryStep ==
    ASSUME TypeOK, [Next]_vars
    PROVE  history' = history \/ \E ancestry \in SUBSET Anc(head) : Grown(ancestry)
<1>1. CASE CreateUpgradeCommit
  BY <1>1, CreateFacts
<1>2. CASE Amend
  <2>1. Anc(head) \ {head} \in SUBSET Anc(head)
    OBVIOUS
  <2>. QED  BY <1>2, <2>1, AmendFacts
<1>3. CASE Quiet \/ UNCHANGED vars
  BY <1>3, QuietFacts DEF vars
<1>. QED  BY <1>1, <1>2, <1>3, NextCases, Elsewhere

LEMMA Grows ==
    ASSUME TypeOK, [Next]_vars
    PROVE  Commits \subseteq Commits' /\ \A c \in Commits : history'[c] = history[c]
  BY HistoryStep DEF Grown, Commits

-----------------------------------------------------------------------------
(* Lineages *)

LEMMA LineagesNext == TypeOK /\ Lineages /\ [Next]_vars => Lineages'
<1>. SUFFICES ASSUME TypeOK, Lineages, [Next]_vars PROVE Lineages'
  OBVIOUS
<1>1. CASE history' = history
  BY <1>1 DEF Lineages, Commits, Anc
<1>2. CASE \E ancestry \in SUBSET Anc(head) : Grown(ancestry)
  <2>1. PICK ancestry \in SUBSET Anc(head) : Grown(ancestry)
    BY <1>2
  <2>2. Anc(head) \subseteq Commits
    BY HeadFacts DEF Lineages
  <2>. QED  BY <2>1, <2>2 DEF Grown, Lineages, Anc
<1>. QED  BY <1>1, <1>2, HistoryStep

-----------------------------------------------------------------------------
(* The proofs a pass may commit *)

LEMMA GainsKept ==
    ASSUME TypeOK, Gains, Commits \subseteq Commits',
           \A c \in Commits : history'[c] = history[c],
           UNCHANGED <<work, job.base, job.bytes, job.config, job.todo, job.upgraded>>,
           pc' # "idle" => pc # "idle"
    PROVE  Gains'
  BY DEF Gains, Tree

LEMMA GainsScan ==
    ASSUME TypeOK, Scan
    PROVE  Gains'
<1>1. /\ job'.base = head /\ job'.bytes = work /\ job'.todo = Stored \ Skipped
      /\ job'.upgraded = {} /\ job'.config = config
      /\ UNCHANGED <<history, work>>
  BY DEF Scan, NoJob
<1>2. head \in Commits /\ head \in Commits'
  BY <1>1, HeadFacts DEF Commits
<1>3. ASSUME NEW s \in Stored \ Skipped, config.commit, Tree(head)[s] # None
      PROVE  Tree(head)[s] \subseteq work[s]
  BY <1>3 DEF Skipped, Uncommitted, IsAdditiveUpgrade
<1>. QED  BY <1>1, <1>2, <1>3 DEF Gains, Tree

LEMMA GainsCollect ==
    ASSUME TypeOK, Gains, NEW s \in Source, Collect(s)
    PROVE  Gains'
<1>1. PICK got \in SUBSET Owed(s) :
        /\ IF got = {} THEN UNCHANGED work ELSE Persist(s, got)
        /\ job' = [job EXCEPT
              !.todo     = @ \ {s},
              !.upgraded = IF got # {} \/ s \in job.recovered THEN @ \cup {s} ELSE @]
  BY DEF Collect
<1>2. pc = "collect" /\ s \in job.todo /\ UNCHANGED <<history, pc>>
  BY DEF Collect
<1>3. /\ job'.todo \subseteq job.todo /\ job'.upgraded \subseteq job.upgraded \cup {s}
      /\ UNCHANGED <<job.base, job.bytes, job.config>>
  BY <1>1 DEF TypeOK, Job
<1>4. \A t \in job'.todo \cup job'.upgraded : t \in job.todo \cup job.upgraded
  BY <1>2, <1>3
<1>5. ASSUME NEW t \in job.todo \cup job.upgraded
      PROVE  job.bytes[t] \subseteq work'[t]
  <2>1. t \in Source /\ job.bytes[t] \subseteq work[t]
    BY <1>2 DEF Gains, TypeOK, Job
  <2>2. CASE got = {}
    BY <1>1, <2>1, <2>2
  <2>3. CASE got # {}
    <3>1. work' = [work EXCEPT ![s] = job.bytes[s] \cup got] /\ work \in Files
      BY <1>1, <2>3 DEF Persist, TypeOK
    <3>. QED  BY <2>1, <3>1 DEF Files
  <2>. QED  BY <2>2, <2>3
<1>. QED  BY <1>2, <1>3, <1>4, <1>5 DEF Gains, Tree, Commits

LEMMA GainsNext == TypeOK /\ Gains /\ [Next]_vars => Gains'
<1>. SUFFICES ASSUME TypeOK, Gains, [Next]_vars PROVE Gains'
  OBVIOUS
<1>1. CASE Scan \/ \E s \in Source : Collect(s)
  BY <1>1, GainsScan, GainsCollect
<1>2. CASE pc' = "idle"
  BY <1>2 DEF Gains
<1>3. CASE pc' # "idle" /\ ~Scan /\ ~ \E s \in Source : Collect(s)
  <2>1. UNCHANGED <<work, job.base, job.bytes, job.config, job.todo, job.upgraded>>
        /\ pc # "idle"
    <3>1. CASE FindTarget
      BY <3>1 DEF FindTarget, TypeOK, Job
    <3>2. CASE StagePaths \/ AmendContended
      BY <3>2 DEF StagePaths, AmendContended
    <3>3. CASE CheckHead
      BY <1>3, <3>3 DEF CheckHead, EndPass, TypeOK, Job
    <3>4. CASE CreateUpgradeCommit \/ Amend \/ FinishPass \/ NothingToCommit \/ Interrupt
               \/ \E s \in Source : ClientFails(s)
      BY <1>3, <3>4 DEF CreateUpgradeCommit, Amend, FinishPass, NothingToCommit,
                        Interrupt, ClientFails, EndPass
    <3>5. CASE Surroundings
      BY <1>3, <3>5, Elsewhere
    <3>6. CASE UNCHANGED vars
      BY <1>3, <3>6 DEF vars
    <3>. QED  BY <1>3, <3>1, <3>2, <3>3, <3>4, <3>5, <3>6, NextCases DEF Quiet
  <2>. QED  BY <2>1, Grows, GainsKept
<1>. QED  BY <1>1, <1>2, <1>3

-----------------------------------------------------------------------------
(* The commit a pass folds into *)

(* The target, once approved, stays what it is. *)
LEMMA ApprovedKept ==
    ASSUME TypeOK, Approved, Commits \subseteq Commits',
           \A c \in Commits : history'[c] = history[c],
           UNCHANGED <<job.target, job.prev, job.seen, job.config>>, Folding
    PROVE  /\ job'.target \in Commits'
           /\ history'[job'.target].kind = "upgrade"
           /\ ~history'[job'.target].outside
           /\ history'[job'.target].signed => job'.config.sign
           /\ job'.prev = history'[job'.target].upgraded
           /\ job'.seen # 0 =>
                 job'.seen \in Commits' /\ job'.target \notin history'[job'.seen].anc
  BY DEF Approved, Anc

LEMMA ApprovedNext == TypeOK /\ Approved /\ [Next]_vars => Approved'
<1>. SUFFICES ASSUME TypeOK, Approved, [Next]_vars PROVE Approved'
  OBVIOUS
<1>1. Commits \subseteq Commits' /\ \A c \in Commits : history'[c] = history[c]
  BY Grows
<1>2. CASE pc' \in {"idle", "collect"}
  BY <1>2 DEF Approved, Folding
<1>3. CASE FindTarget
  <2>1. /\ pc' = "stage" /\ job'.config = job.config /\ job.config.commit
        /\ job'.target # 0 => job'.target = head /\ MaySquash(head, job.config.sign)
                              /\ job'.prev = history[head].upgraded
        /\ job'.seen = remote
        /\ UNCHANGED history
    BY <1>3 DEF FindTarget, TypeOK, Job
  <2>2. remote # 0 => remote \in Commits
    BY DEF TypeOK, Commits
  <2>. QED  BY <2>1, <2>2, HeadFacts
            DEF Approved, Folding, MaySquash, WouldDropSignature, IsPublished, Anc, Commits
<1>4. CASE StagePaths
  <2>1. /\ pc = "stage" /\ UNCHANGED job /\ pc' \in {"commit", "check"}
        /\ pc' = "check" => Folding
    BY <1>4 DEF StagePaths, Folding
  <2>2. Folding' => Folding
    BY <2>1 DEF Folding
  <2>3. job.config.commit
    BY <2>1 DEF Approved
  <2>. QED  BY <1>1, <2>1, <2>2, <2>3, ApprovedKept DEF Approved, Anc
<1>5. CASE CheckHead /\ pc' # "idle"
  <2>1. /\ pc = "check" /\ pc' = "amend" /\ head = job.target /\ job'.current = head
        /\ UNCHANGED <<history, head, job.target, job.prev, job.seen, job.config>>
    BY <1>5 DEF CheckHead, EndPass, TypeOK, Job
  <2>2. Folding
    BY <2>1 DEF Folding
  <2>4. job.config.commit
    BY <2>1 DEF Approved
  <2>3. job.prev = history[head].upgraded
    BY <2>1, <2>2 DEF Approved
  <2>. QED  BY <1>1, <2>1, <2>2, <2>3, <2>4, ApprovedKept DEF Approved, Anc
<1>6. CASE AmendContended
  <2>1. pc = "amend" /\ pc' = "check" /\ UNCHANGED job
    BY <1>6 DEF AmendContended
  <2>2. Folding
    BY <2>1 DEF Folding
  <2>3. job.config.commit
    BY <2>1 DEF Approved
  <2>. QED  BY <1>1, <2>1, <2>2, <2>3, ApprovedKept DEF Approved, Anc
<1>7. CASE Surroundings \/ UNCHANGED vars
  <2>1. /\ UNCHANGED <<pc, job>>
        /\ pc # "idle" => history'[head'].upgraded \subseteq history[head].upgraded
    BY <1>7, Elsewhere DEF vars
  <2>2. Folding' => Folding
    BY <2>1 DEF Folding
  <2>. QED  BY <1>1, <2>1, <2>2, ApprovedKept DEF Approved, Anc
<1>8. CASE \/ Scan \/ (\E s \in Source : Collect(s)) \/ FinishPass \/ NothingToCommit
           \/ (\E s \in Source : ClientFails(s)) \/ Interrupt
           \/ CreateUpgradeCommit \/ Amend
  <2>1. pc' \in {"idle", "collect"}
    BY <1>8 DEF Scan, Collect, FinishPass, NothingToCommit, ClientFails, Interrupt,
                CreateUpgradeCommit, Amend, EndPass
  <2>. QED  BY <1>2, <2>1
<1>. QED  BY <1>2, <1>3, <1>4, <1>5, <1>6, <1>7, <1>8, NextCases DEF Quiet

LEMMA InvariantInit == Init => Lineages /\ Gains /\ Approved
<1>. SUFFICES ASSUME Init PROVE Lineages /\ Gains /\ Approved
  OBVIOUS
<1>1. pc = "idle" /\ Commits = {1} /\ Anc(1) = {1}
  BY DEF Init, Commits, Anc
<1>. QED  BY <1>1 DEF Lineages, Gains, Approved, Folding

LEMMA Invariant == Spec => [](TypeOK /\ Lineages /\ Gains /\ Approved)
  BY TypeInit, InvariantInit, TypeNext, LineagesNext, GainsNext, ApprovedNext, PTL DEF Spec

-----------------------------------------------------------------------------
(* What the steps that make a pass's commit do *)

LEMMA PassCommitSteps ==
    ASSUME TypeOK, [Next]_vars, PassCommits
    PROVE  CreateUpgradeCommit \/ Amend
  BY NextCases, QuietFacts, Elsewhere DEF PassCommits, vars

(* A pass commits only what it names, and nothing that attests to less. *)
LEMMA RecordedGains ==
    ASSUME TypeOK, Gains, Approved, pc \in {"commit", "amend"}, head = job.base,
           NEW s \in Source, Tree(head)[s] # None
    PROVE  Tree(head)[s] \subseteq Recorded[s]
<1>1. CASE s \in job.upgraded
  BY <1>1 DEF Recorded, Put, Gains, Approved
<1>2. CASE s \notin job.upgraded
  BY <1>2 DEF Recorded, Put
<1>. QED  BY <1>1, <1>2

LEMMA AttestsStep ==
    ASSUME TypeOK, Gains, Approved, [Next]_vars, PassCommits, head = job.base,
           NEW s \in Source, Tree(head)[s] # None
    PROVE  Tree(head)[s] \subseteq history'[head'].tree[s]
<1>1. CreateUpgradeCommit \/ Amend
  BY PassCommitSteps
<1>2. history'[head'].tree = Recorded /\ pc \in {"commit", "amend"}
  BY <1>1, CreateFacts, AmendFacts DEF CreateUpgradeCommit, Amend
<1>. QED  BY <1>2, RecordedGains

(* A pass never makes HEAD's proofs attest to less than on the HEAD it     *)
(* scanned.                                                                *)
THEOREM LosesNothing == Spec => AttestsNoLess
<1>1. TypeOK /\ Gains /\ Approved /\ [Next]_vars =>
        [PassCommits /\ head = job.base =>
           \A s \in Source : Tree(head)[s] # None =>
               Tree(head)[s] \subseteq history'[head'].tree[s]]_vars
  BY AttestsStep
<1>. QED  BY Invariant, <1>1, PTL DEF Spec, AttestsNoLess

LEMMA FoldsStep ==
    ASSUME TypeOK, Lineages, Approved, [Next]_vars, PassCommits, AsChecked,
           NEW c \in Anc(head) \ history'[head'].anc
    PROVE  /\ history[c].kind = "upgrade"
           /\ ~history[c].outside
           /\ history[c].signed => history'[head'].signed
<1>1. CASE CreateUpgradeCommit
  BY <1>1, CreateFacts DEF Grown
<1>2. CASE Amend
  <2>1. pc = "amend" /\ Folding
    BY <1>2 DEF Amend, Folding
  <2>2. c = head /\ head = job.target
    BY <1>2, <2>1, AmendFacts DEF Grown, AsChecked, Approved
  <2>. QED  BY <1>2, <2>1, <2>2, AmendFacts DEF Approved
<1>. QED  BY <1>1, <1>2, PassCommitSteps

(* What a fold takes off the branch is one commit of the tool's own,       *)
(* unedited and unmixed, and a signature is not lost with it.              *)
THEOREM FoldsItsOwn == Spec => FoldsOnlyItsOwn
<1>1. TypeOK /\ Lineages /\ Approved /\ [Next]_vars =>
        [PassCommits /\ AsChecked =>
           \A c \in Anc(head) \ history'[head'].anc :
              /\ history[c].kind = "upgrade"
              /\ ~history[c].outside
              /\ history[c].signed => history'[head'].signed]_vars
  BY FoldsStep
<1>. QED  BY Invariant, <1>1, PTL DEF Spec, FoldsOnlyItsOwn

LEMMA ForwardStep ==
    ASSUME TypeOK, Lineages, Approved, [Next]_vars, PassCommits, AsChecked,
           remote = job.seen, remote \in Anc(head)
    PROVE  remote \in history'[head'].anc
<1>1. CASE CreateUpgradeCommit
  BY <1>1, CreateFacts DEF Grown
<1>2. CASE Amend
  <2>1. pc = "amend" /\ Folding
    BY <1>2 DEF Amend, Folding
  <2>2. remote \in Commits
    BY HeadFacts DEF Lineages
  <2>3. remote # 0
    BY <2>2 DEF Commits, TypeOK
  <2>4. head = job.target /\ job.target \notin Anc(remote) /\ remote \in Anc(remote)
    BY <2>1, <2>2, <2>3 DEF Approved, AsChecked, Lineages
  <2>5. remote # head
    BY <2>4
  <2>. QED  BY <1>2, <2>5, AmendFacts DEF Grown
<1>. QED  BY <1>1, <1>2, PassCommitSteps

(* A fold never takes a commit away that this clone has seen pushed before *)
(* it looked.                                                              *)
THEOREM StaysForward == Spec => FastForwards
<1>1. TypeOK /\ Lineages /\ Approved /\ [Next]_vars =>
        [PassCommits /\ AsChecked /\ remote = job.seen /\ remote \in Anc(head) =>
           remote \in history'[head'].anc]_vars
  BY ForwardStep
<1>. QED  BY Invariant, <1>1, PTL DEF Spec, FastForwards

LEMMA RecordsStep ==
    ASSUME TypeOK, Lineages, Approved, [Next]_vars, PassCommits
    PROVE  /\ Refreshed(history, head) \subseteq Refreshed(history', head')
           /\ \A s \in Source : history'[head'].tree[s] # Tree(head)[s] =>
                 s \in history'[head'].upgraded
<1>1. job.upgraded \subseteq history'[head'].upgraded /\ history'[head'].tree = Recorded
  BY PassCommitSteps, CreateFacts, AmendFacts
<1>2. \A s \in Source : Recorded[s] # Tree(head)[s] => s \in job.upgraded
  BY DEF Recorded, Put
<1>3. Anc(head) \subseteq Commits /\ head \in Commits
  BY HeadFacts DEF Lineages
<1>4. ASSUME NEW g \in Anc(head), NEW s \in history[g].upgraded
      PROVE  \E k \in history'[head'].anc : s \in history'[k].upgraded
  <2>1. CASE CreateUpgradeCommit
    BY <1>3, <1>4, <2>1, CreateFacts DEF Grown
  <2>2. CASE Amend /\ g # head
    BY <1>3, <1>4, <2>2, AmendFacts DEF Grown
  <2>3. CASE Amend /\ g = head
    <3>1. s \in job.prev
      BY <1>4, <2>3 DEF Amend, Approved
    <3>. QED  BY <2>3, <3>1, AmendFacts DEF Grown
  <2>. QED  BY <2>1, <2>2, <2>3, PassCommitSteps
<1>5. Refreshed(history, head) \subseteq Refreshed(history', head')
  BY <1>4 DEF Refreshed, Anc
<1>. QED  BY <1>1, <1>2, <1>5

(* However often upgrade commits are folded into each other, the record of *)
(* refreshed sources only grows, and a pass names every source whose       *)
(* committed proof it changes.                                             *)
THEOREM KeepsTheRecord == Spec => RecordsRefreshes
<1>1. TypeOK /\ Lineages /\ Approved /\ [Next]_vars =>
        [PassCommits =>
          /\ Refreshed(history, head) \subseteq Refreshed(history', head')
          /\ \A s \in Source : history'[head'].tree[s] # Tree(head)[s] =>
                s \in history'[head'].upgraded]_vars
  BY RecordsStep
<1>. QED  BY Invariant, <1>1, PTL DEF Spec, RecordsRefreshes
=============================================================================
