---------------------------- MODULE ProofUpgrade ----------------------------
(***************************************************************************)
(* `git ots upgrade` (upgrade.py): the pass that asks the calendars for    *)
(* the attestations they have filed since a proof was stored, rewrites the *)
(* proof files that gain some, and records them in an upgrade commit: a    *)
(* new one, or, with squashing on, the one already at HEAD, amended.       *)
(*                                                                         *)
(* A stored proof is the set of calendars whose completed attestation it   *)
(* holds; the promises of the others are what a pass may still collect.    *)
(* Of a tree, of the index and of the working tree only the proof files    *)
(* are kept.  Commits are numbered in the order they are made, and no      *)
(* commit has two parents.  A manifest comes and goes with its proof.      *)
(*                                                                         *)
(* A pass runs under the repository lock, so there is one at a time and    *)
(* `git ots run` stores and commits proofs only between passes.  The       *)
(* developer does not take the lock.                                       *)
(***************************************************************************)
EXTENDS Naturals, Sequences

CONSTANTS
    None,           \* a model value: no file
    Source,         \* the source commits that get stamped
    Calendar,       \* the calendars every one of them is submitted to
    Configs,        \* the configurations that occur
    DevActions,     \* what the developer may do in this instance
    MaxDev,         \* bound on the number of developer actions
    Faults,         \* which failures happen in this instance
    MaxFaults       \* bound on the number of failures

(* proofCommit, squashUpgradeCommits, requireCleanWorktree, signing *)
Config == [commit : BOOLEAN, squash : BOOLEAN, clean : BOOLEAN, sign : BOOLEAN]

ASSUME UpgradeAssumption ==
    /\ Configs \subseteq Config
    /\ MaxDev \in Nat
    /\ MaxFaults \in Nat

VARIABLES
    history,        \* the commits ever made, oldest first
    head,           \* the commit HEAD names
    index,          \* the proofs in the index
    work,           \* the proofs in the working tree
    remote,         \* the commit the remote-tracking ref names, or 0
    filed,          \* the attestations each calendar has ready
    config,         \* the configuration as it is now
    pc,             \* the step the pass is at
    job,            \* the local state of the pass
    devs,           \* developer actions so far
    faults          \* failures so far

vars == <<history, head, index, work, remote, filed, config, pc, job, devs, faults>>

Proof == {None} \cup SUBSET Calendar

Files == [Source -> Proof]

(* What a commit's message says it is.  Only a message that is exactly the *)
(* one this tool writes makes an "upgrade" commit; upgraded and claims are *)
(* its trailers, outside whether it changes anything but proofs.           *)
CommitInfo == [anc : SUBSET Nat, kind : {"ordinary", "proof", "upgrade"},
               claims : SUBSET Source, upgraded : SUBSET Source,
               outside : BOOLEAN, signed : BOOLEAN, tree : Files]

(* Local variables of upgrade_proofs and amend_upgrade_commit: base is the *)
(* HEAD the scan compared with, bytes the proofs as the scan read them,    *)
(* target the approved commit (0: none) and prev the sources it names,     *)
(* seen what the published check looked at, and current the HEAD that the  *)
(* last check_head read.                                                   *)
Job == [config : Config, base : Nat, bytes : Files, todo : SUBSET Source,
        recovered : SUBSET Source, upgraded : SUBSET Source,
        target : Nat, prev : SUBSET Source, seen : Nat, current : Nat]

Steps == {"idle", "collect", "stage", "commit", "check", "amend"}

TypeOK ==
    /\ history \in Seq(CommitInfo)
    /\ head \in DOMAIN history
    /\ index \in Files
    /\ work \in Files
    /\ remote \in {0} \cup DOMAIN history
    /\ filed \in [Source -> SUBSET Calendar]
    /\ config \in Configs
    /\ pc \in Steps
    /\ job \in Job
    /\ \A s \in job.todo \cup job.upgraded : job.bytes[s] # None
    /\ devs \in Nat
    /\ faults \in Nat

NoFiles == [s \in Source |-> None]

NoJob == [config |-> [commit |-> FALSE, squash |-> FALSE, clean |-> FALSE, sign |-> FALSE],
          base |-> 0, bytes |-> NoFiles, todo |-> {}, recovered |-> {}, upgraded |-> {},
          target |-> 0, prev |-> {}, seen |-> 0, current |-> 0]

(* A repository with one commit and no stored proof. *)
Init ==
    /\ history = <<[anc |-> {1}, kind |-> "ordinary", claims |-> {}, upgraded |-> {},
                    outside |-> TRUE, signed |-> FALSE, tree |-> NoFiles]>>
    /\ head = 1
    /\ index = NoFiles
    /\ work = NoFiles
    /\ remote = 0
    /\ filed = [s \in Source |-> {}]
    /\ config \in Configs
    /\ pc = "idle"
    /\ job = NoJob
    /\ devs = 0
    /\ faults = 0

-----------------------------------------------------------------------------
(* The repository *)

Commits == DOMAIN history

Anc(c) == history[c].anc

Tree(c) == history[c].tree

(* Reachable from the remote-tracking ref: what this clone has seen pushed. *)
IsPublished(c) == remote # 0 /\ c \in Anc(remote)

IsClean == work = index /\ index = Tree(head)

(* files with the proofs of S replaced by those of from. *)
Put(files, from, S) == [s \in Source |-> IF s \in S THEN from[s] ELSE files[s]]

(* A new commit on the lineage ancestry, made the new HEAD. *)
NewCommit(ancestry, info) ==
    /\ history' = Append(history,
           [anc     |-> ancestry \cup {Len(history) + 1}, kind |-> info.kind,
            claims  |-> info.claims, upgraded |-> info.upgraded,
            outside |-> info.outside, signed |-> info.signed, tree |-> info.tree])
    /\ head' = Len(history) + 1

Fault(kind) ==
    /\ kind \in Faults
    /\ faults < MaxFaults
    /\ faults' = faults + 1

-----------------------------------------------------------------------------
(* The pass *)

(* Faulty: both bind to the same source, and that is taken to be enough. *)
BindsToSameSource(committed, new) == TRUE

(* _is_additive_upgrade *)
IsAdditiveUpgrade(committed, new) == committed \subseteq new

(* Faulty: goes by the stamped sources, not by the files there are. *)
EverySource == Source

Stored == {s \in Source : work[s] # None}

(* Where proofs are kept in commits: those that differ from what HEAD      *)
(* holds for the same source.                                              *)
Uncommitted == {s \in Stored : config.commit /\ Tree(head)[s] \notin {None, work[s]}}

(* Some other proof of the source: left alone. *)
Skipped == {s \in Uncommitted : ~IsAdditiveUpgrade(Tree(head)[s], work[s])}

(* Faulty: counts on the calendars to have something new for it. *)
NoneRecovered == {}

(* An upgrade that an earlier pass wrote and did not get to commit. *)
Recovered == {s \in Uncommitted : IsAdditiveUpgrade(Tree(head)[s], work[s])}

(* The clean-worktree preference; a refused command changes nothing.  The  *)
(* refusals of assert_committable_state, a detached HEAD or an operation   *)
(* in progress, are left out.                                              *)
MayStart == config.commit /\ config.clean => IsClean

(* upgrade_proofs up to the candidates. *)
Scan ==
    /\ pc = "idle"
    /\ MayStart
    /\ Stored \ Skipped # {}
    /\ pc' = "collect"
    /\ job' = [NoJob EXCEPT !.config = config, !.base = head, !.bytes = work,
                            !.todo = Stored \ Skipped, !.recovered = Recovered]
    /\ UNCHANGED <<history, head, index, work, remote, filed, config, devs, faults>>

(* The end of a pass, for whatever reason: what is written stays written. *)
EndPass ==
    /\ pc' = "idle"
    /\ job' = NoJob

(* collectible_calendars: what the calendars have for s that the proof the  *)
(* scan read does not hold.                                                *)
Owed(s) == filed[s] \ job.bytes[s]

(* persist_upgraded_proof: the merged proof replaces the file. *)
Persist(s, got) == work' = [work EXCEPT ![s] = job.bytes[s] \cup got]

(* _process_candidate: every calendar that owes something is asked, any of *)
(* them may be down, and the file is replaced if anything came back.       *)
Collect(s) ==
    /\ pc = "collect"
    /\ s \in job.todo
    /\ \E got \in SUBSET Owed(s) :
         /\ \/ got = Owed(s) /\ UNCHANGED faults
            \/ got # Owed(s) /\ Fault("calendar")
         /\ IF got = {} THEN UNCHANGED work ELSE Persist(s, got)
         /\ job' = [job EXCEPT
              !.todo     = @ \ {s},
              !.upgraded = IF got # {} \/ s \in job.recovered THEN @ \cup {s} ELSE @]
    /\ UNCHANGED <<history, head, index, remote, filed, config, pc, devs>>

(* The client, asked only about a proof without any attestation, cannot be *)
(* run: the pass ends with the proofs before this one rewritten.           *)
ClientFails(s) ==
    /\ pc = "collect"
    /\ s \in job.todo
    /\ job.bytes[s] = {}
    /\ Fault("client")
    /\ EndPass
    /\ UNCHANGED <<history, head, index, work, remote, filed, config, devs>>

(* _amend_would_drop_a_signature, without an ambient commit.gpgsign. *)
WouldDropSignature(c, sign) == history[c].signed /\ ~sign

(* Faulty: does not ask whether the commit was pushed. *)
MaySquashPublished(c, sign) ==
    /\ history[c].kind = "upgrade"
    /\ ~history[c].outside
    /\ ~WouldDropSignature(c, sign)

(* find_squashable_upgrade_commit *)
MaySquash(c, sign) ==
    /\ history[c].kind = "upgrade"
    /\ ~history[c].outside
    /\ ~WouldDropSignature(c, sign)
    /\ ~IsPublished(c)

(* Nothing to record, or proofs are not kept in commits. *)
FinishPass ==
    /\ pc = "collect"
    /\ job.todo = {}
    /\ job.upgraded = {} \/ ~job.config.commit
    /\ EndPass
    /\ UNCHANGED <<history, head, index, work, remote, filed, config, devs, faults>>

(* The squash target is decided before anything is staged. *)
FindTarget ==
    LET found == job.config.squash /\ MaySquash(head, job.config.sign)
    IN  /\ pc = "collect"
        /\ job.todo = {}
        /\ job.upgraded # {} /\ job.config.commit
        /\ pc' = "stage"
        /\ job' = [job EXCEPT !.target = IF found THEN head ELSE 0,
                              !.prev = IF found THEN history[head].upgraded ELSE {},
                              !.seen = remote]
        /\ UNCHANGED <<history, head, index, work, remote, filed, config, devs, faults>>

(* stage_paths *)
StagePaths ==
    /\ pc = "stage"
    /\ index' = Put(index, work, job.upgraded)
    /\ pc' = IF job.target = 0 THEN "commit" ELSE "check"
    /\ UNCHANGED <<history, head, work, remote, filed, config, job, devs, faults>>

Recorded == Put(Tree(head), work, job.upgraded)

(* create_upgrade_commit: only the named paths, on top of HEAD. *)
CreateUpgradeCommit ==
    /\ pc = "commit"
    /\ Recorded # Tree(head)
    /\ NewCommit(Anc(head), [kind |-> "upgrade", claims |-> {}, upgraded |-> job.upgraded,
                             outside |-> FALSE, signed |-> job.config.sign,
                             tree |-> Recorded])
    /\ index' = Put(index, work, job.upgraded)
    /\ EndPass
    /\ UNCHANGED <<work, remote, filed, config, devs, faults>>

(* git refuses a commit that changes nothing: somebody else committed the  *)
(* proofs since the scan.                                                  *)
NothingToCommit ==
    /\ pc = "commit"
    /\ Recorded = Tree(head)
    /\ EndPass
    /\ UNCHANGED <<history, head, index, work, remote, filed, config, devs, faults>>

(* Faulty: reads HEAD and does not compare it. *)
CheckNothing ==
    /\ pc = "check"
    /\ pc' = "amend"
    /\ job' = [job EXCEPT !.current = head]
    /\ UNCHANGED <<history, head, index, work, remote, filed, config, devs, faults>>

(* check_head, before every attempt to amend. *)
CheckHead ==
    /\ pc = "check"
    /\ IF head = job.target
       THEN pc' = "amend" /\ job' = [job EXCEPT !.current = head]
       ELSE EndPass
    /\ UNCHANGED <<history, head, index, work, remote, filed, config, devs, faults>>

(* Faulty: the new message names the new sources only. *)
AmendForgetting ==
    /\ pc = "amend"
    /\ NewCommit(Anc(head) \ {head},
                 [kind |-> "upgrade", claims |-> {}, upgraded |-> job.upgraded,
                  outside |-> history[head].outside, signed |-> job.config.sign,
                  tree |-> Recorded])
    /\ index' = Put(index, work, job.upgraded)
    /\ EndPass
    /\ UNCHANGED <<work, remote, filed, config, devs, faults>>

(* amend_upgrade_commit: `git commit --amend -- paths` replaces whatever   *)
(* HEAD names now; the message names what the target named, too.           *)
Amend ==
    /\ pc = "amend"
    /\ NewCommit(Anc(head) \ {head},
                 [kind |-> "upgrade", claims |-> {}, upgraded |-> job.prev \cup job.upgraded,
                  outside |-> history[head].outside, signed |-> job.config.sign,
                  tree |-> Recorded])
    /\ index' = Put(index, work, job.upgraded)
    /\ EndPass
    /\ UNCHANGED <<work, remote, filed, config, devs, faults>>

(* .git/index.lock is held: the amend is tried again, from the check. *)
AmendContended ==
    /\ pc = "amend"
    /\ Fault("contended")
    /\ pc' = "check"
    /\ UNCHANGED <<history, head, index, work, remote, filed, config, job, devs>>

(* A kill, a lock that stays held, a rejected hook, a signer that fails:   *)
(* the pass ends and nothing is rolled back.                               *)
Interrupt ==
    /\ pc # "idle"
    /\ Fault("interrupt")
    /\ EndPass
    /\ UNCHANGED <<history, head, index, work, remote, filed, config, devs>>

-----------------------------------------------------------------------------
(* The surroundings: calendars, `git ots run`, the developer, the remote *)

Stamped(s) == work[s] # None \/ \E c \in Commits : Tree(c)[s] # None

CalendarFiles(s, k) ==
    /\ Stamped(s)
    /\ k \notin filed[s]
    /\ filed' = [filed EXCEPT ![s] = @ \cup {k}]
    /\ UNCHANGED <<history, head, index, work, remote, config, pc, job, devs, faults>>

(* `git ots run` stores a fresh proof and leaves it uncommitted: proofs    *)
(* are not kept in commits, or it is killed first.                         *)
RunStores(s) ==
    /\ pc = "idle"
    /\ MayStart
    /\ ~Stamped(s)
    /\ \/ ~config.commit /\ UNCHANGED faults
       \/ config.commit /\ Fault("interrupt")
    /\ work' = [work EXCEPT ![s] = {}]
    /\ UNCHANGED <<history, head, index, remote, filed, config, pc, job, devs>>

(* `git ots run` commits a stored proof, its own or one a killed run left. *)
RunCommits(s) ==
    LET found == IF work[s] = None THEN [work EXCEPT ![s] = {}] ELSE work
    IN  /\ pc = "idle"
        /\ MayStart
        /\ config.commit
        /\ ~Stamped(s) \/ work[s] # None
        /\ Tree(head)[s] = None
        /\ work' = found
        /\ index' = Put(index, found, {s})
        /\ NewCommit(Anc(head), [kind |-> "proof", claims |-> {s}, upgraded |-> {},
                                 outside |-> FALSE, signed |-> config.sign,
                                 tree |-> Put(Tree(head), found, {s})])
        /\ UNCHANGED <<remote, filed, config, pc, job, devs, faults>>

Dev(name) ==
    /\ name \in DevActions
    /\ devs < MaxDev
    /\ devs' = devs + 1
    /\ UNCHANGED <<filed, pc, job, faults>>

(* An ordinary commit; with all, `git add -A` first. *)
DevCommit ==
    /\ Dev("commit")
    /\ \E all \in BOOLEAN :
         LET staged == IF all THEN work ELSE index
         IN  /\ index' = staged
             /\ NewCommit(Anc(head), [kind |-> "ordinary", claims |-> {}, upgraded |-> {},
                                      outside |-> TRUE, signed |-> FALSE, tree |-> staged])
    /\ UNCHANGED <<work, remote, config>>

(* `git commit --amend` of an unpushed commit, with more work in it and    *)
(* with or without a new message; the trailers stay.                       *)
DevAmend ==
    /\ Dev("amend")
    /\ ~IsPublished(head)
    /\ \E edited, more \in BOOLEAN :
         LET old == history[head]
         IN  NewCommit(Anc(head) \ {head},
                 [kind |-> IF edited THEN "ordinary" ELSE old.kind,
                  claims |-> old.claims, upgraded |-> old.upgraded,
                  outside |-> old.outside \/ more, signed |-> FALSE, tree |-> index])
    /\ UNCHANGED <<index, work, remote, config>>

DevPush ==
    /\ Dev("push")
    /\ remote # head
    /\ remote = 0 \/ remote \in Anc(head)
    /\ remote' = head
    /\ UNCHANGED <<history, head, index, work, config>>

(* Between passes: `git reset --hard` to a commit that has what was pushed. *)
DevReset ==
    /\ Dev("reset")
    /\ pc = "idle"
    /\ \E c \in Commits \ {head} :
         /\ remote = 0 \/ remote \in Anc(c)
         /\ head' = c
         /\ index' = Tree(c)
         /\ work' = [s \in Source |-> IF index[s] = None /\ Tree(c)[s] = None
                                      THEN work[s] ELSE Tree(c)[s]]
    /\ UNCHANGED <<history, remote, config>>

(* Between passes: a proof of an earlier commit is put back, as from a     *)
(* backup or by `git restore --source`.                                    *)
DevRestore ==
    /\ Dev("restore")
    /\ pc = "idle"
    /\ \E s \in Stored, c \in Commits :
         /\ Tree(c)[s] \notin {None, work[s]}
         /\ work' = [work EXCEPT ![s] = Tree(c)[s]]
    /\ UNCHANGED <<history, head, index, remote, config>>

DevConfigure ==
    /\ Dev("configure")
    /\ config' \in Configs \ {config}
    /\ UNCHANGED <<history, head, index, work, remote>>

-----------------------------------------------------------------------------
PassStep ==
    \/ Scan
    \/ \E s \in Source : Collect(s)
    \/ FinishPass
    \/ FindTarget
    \/ StagePaths
    \/ CreateUpgradeCommit
    \/ NothingToCommit
    \/ CheckHead
    \/ Amend

Surroundings ==
    \/ \E s \in Source, k \in Calendar : CalendarFiles(s, k)
    \/ \E s \in Source : RunStores(s) \/ RunCommits(s)
    \/ DevCommit \/ DevAmend \/ DevPush \/ DevReset \/ DevRestore \/ DevConfigure

Next ==
    \/ PassStep
    \/ \E s \in Source : ClientFails(s)
    \/ AmendContended
    \/ Interrupt
    \/ Surroundings

(* Passes are scheduled again and again (upgrade-proofs.yml, cron), and a  *)
(* pass under way goes on.                                                 *)
Spec == Init /\ [][Next]_vars /\ WF_vars(PassStep)

-----------------------------------------------------------------------------
(* Properties *)

(* The step of a pass that makes a commit, and whether it replaces HEAD    *)
(* with what check_head last saw there.                                    *)
PassCommits == pc' # pc /\ history' # history

AsChecked == pc = "amend" => head = job.current

(* A pass never makes HEAD's proofs attest to less: on the HEAD it scanned *)
(* or a squash of it, every committed proof keeps each attestation, even   *)
(* when an older proof was put back in the working tree (upgrade.py:511).  *)
AttestsNoLess ==
    [][PassCommits /\ head = job.base =>
         \A s \in Source : Tree(head)[s] # None =>
             Tree(head)[s] \subseteq history'[head'].tree[s]]_vars

(* Folding upgrades destroys no words, work or signature of anybody: what  *)
(* an amend takes off the branch was one unedited, unmixed upgrade commit, *)
(* and a signed one is replaced by a signed one (git.py:3087).             *)
FoldsOnlyItsOwn ==
    [][PassCommits /\ AsChecked =>
         \A c \in Anc(head) \ history'[head'].anc :
             /\ history[c].kind = "upgrade"
             /\ ~history[c].outside
             /\ history[c].signed => history'[head'].signed]_vars

(* A pass does not take from the branch that it fast-forwards from what    *)
(* this clone has seen pushed, unless a push lands after the published     *)
(* check.                                                                  *)
FastForwards ==
    [][PassCommits /\ AsChecked /\ remote = job.seen /\ remote \in Anc(head) =>
         remote \in history'[head'].anc]_vars

Refreshed(h, c) == UNION {h[g].upgraded : g \in h[c].anc}

(* The record of refreshed sources on a branch only grows under passes,    *)
(* however often upgrade commits are folded into each other, and a pass    *)
(* names every source whose committed proof it changes (git.py:3340).      *)
RecordsRefreshes ==
    [][PassCommits =>
         /\ Refreshed(history, head) \subseteq Refreshed(history', head')
         /\ \A s \in Source : history'[head'].tree[s] # Tree(head)[s] =>
                s \in history'[head'].upgraded]_vars

(* Why they hold: the parts of the inductive invariant *)

(* A lineage consists of commits and has its own tip. *)
Lineages == \A c \in Commits : c \in Anc(c) /\ Anc(c) \subseteq Commits

(* For every source a pass may commit, the proof on disk has kept what the *)
(* scan read there, and that what HEAD held then.                          *)
Gains ==
    pc # "idle" =>
        /\ job.base \in Commits
        /\ \A s \in job.todo \cup job.upgraded :
              /\ job.bytes[s] \subseteq work[s]
              /\ job.config.commit /\ Tree(job.base)[s] # None =>
                     Tree(job.base)[s] \subseteq job.bytes[s]

Folding == pc \in {"check", "amend"} \/ (pc = "stage" /\ job.target # 0)

(* A pass about to fold has a target that it may fold into, unless a push  *)
(* comes after the published check, and knows all that HEAD's message      *)
(* names.                                                                  *)
Approved ==
    /\ pc \notin {"idle", "collect"} => job.config.commit
    /\ Folding =>
          /\ job.target \in Commits
          /\ history[job.target].kind = "upgrade"
          /\ ~history[job.target].outside
          /\ history[job.target].signed => job.config.sign
          /\ job.prev = history[job.target].upgraded
          /\ job.seen # 0 => job.seen \in Commits /\ job.target \notin Anc(job.seen)
    /\ pc = "amend" =>
          /\ job.current = job.target
          /\ history[head].upgraded \subseteq job.prev

(* Once s is committed and not superseded by another proof in the working  *)
(* tree, everything the calendars filed for it is in HEAD.                 *)
Settled(s) ==
    Tree(head)[s] # None /\ work[s] # None =>
        \/ ~(Tree(head)[s] \subseteq work[s])
        \/ Tree(head)[s] = work[s] /\ work[s] = filed[s]

(* Whatever passes are interrupted at, and whoever commits meanwhile, all  *)
(* attestations the calendars file end up committed, as long as proofs are *)
(* kept in commits and a clean worktree is not insisted on.                *)
EventuallySettled ==
    <>[](config.commit /\ ~config.clean) => <>[](\A s \in Source : Settled(s))
=============================================================================
