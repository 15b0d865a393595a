------------------------------- MODULE OtsRun -------------------------------
(***************************************************************************)
(* `git ots run` (orchestration.py): the resumable transaction that turns  *)
(* a policy decision into a calendar submission, a stored proof, a         *)
(* manifest, a generated proof commit and a timestamp tag, executed by     *)
(* schedulers that may overlap, in a repository somebody else is working   *)
(* in, with interruptions at any step.  `git ots repair` (repair.py), which *)
(* makes missing tags from stored manifests, runs under the same lock.     *)
(*                                                                         *)
(* One action per step of run() that another party can observe or that an  *)
(* interruption can separate from the next.  All reads of a step happen in *)
(* the step.                                                               *)
(***************************************************************************)
EXTENDS GitRepo

CONSTANTS
    Proc,           \* invocations of git ots that may overlap
    ProofCommit,    \* ots.proofCommit as first configured, a Boolean
    Faults,         \* which external failures happen in this instance
    Repairs,        \* does anybody call `git ots repair`? a Boolean
    CrashAt,        \* the steps at which a process may be killed
    MaxFaults       \* bound on failures and kills together

ASSUME RunAssumption ==
    /\ ProofCommit \in BOOLEAN
    /\ Repairs \in BOOLEAN
    /\ Faults \subseteq {"refuse", "submit", "veto"}
    /\ MaxFaults \in Nat
    /\ None \notin Proc

VARIABLES
    proofCommit,    \* ots.proofCommit as configured now
    pc,             \* the step each invocation is at
    job,            \* the local state of its run()
    lock,           \* the holder of the advisory repository lock, or None
    outcome,        \* how each invocation's last run ended
    calendar,       \* every submission the calendars ever accepted (a ghost)
    faults          \* failures and kills so far

runVars == <<proofCommit, pc, job, lock, outcome, calendar, faults>>
vars == <<repoVars, runVars>>

Steps == {"idle", "snapshot", "scan", "adopt", "complete", "select", "submit",
          "proof", "manifest", "durable", "stage", "commit", "tag",
          "survey", "repair"}

ASSUME CrashAssumption == CrashAt \subseteq Steps \ {"idle"}

Outcomes == {"none", "ok", "failed", "killed"}

(* The snapshot and the local variables of run(): the frozen source, its   *)
(* baseline, the pending sources, the decision and its triggers, the       *)
(* policy clock, the submission time, the in-flight sources, the sources   *)
(* the current loop has left, those processed, _recovered_by_commit, and   *)
(* whether this run keeps proofs in commits (ots.proofCommit as it read it).*)
Job == [src : Nat, base : Stamp \cup {None}, pending : SUBSET Nat,
        decision : SUBSET Nat, trig : SUBSET Triggers, clock : Nat, at : Nat,
        inflight : SUBSET Nat, todo : SUBSET Nat, done : SUBSET Nat,
        rec : SUBSET Stamp, keep : BOOLEAN]

NoJob == [src |-> 0, base |-> None, pending |-> {}, decision |-> {},
          trig |-> {}, clock |-> 0, at |-> 0, inflight |-> {}, todo |-> {},
          done |-> {}, rec |-> {}, keep |-> FALSE]

TypeOK ==
    /\ RepoTypeOK
    /\ proofCommit \in BOOLEAN
    /\ pc \in [Proc -> Steps]
    /\ job \in [Proc -> Job]
    /\ lock \in Proc \cup {None}
    /\ outcome \in [Proc -> Outcomes]
    /\ calendar \subseteq Stamp
    /\ faults \in Nat

Init ==
    /\ RepoInit
    /\ proofCommit = ProofCommit
    /\ pc = [p \in Proc |-> "idle"]
    /\ job = [p \in Proc |-> NoJob]
    /\ lock = None
    /\ outcome = [p \in Proc |-> "none"]
    /\ calendar = {}
    /\ faults = 0

-----------------------------------------------------------------------------
(* Control *)

At(p, step) == pc[p] = step

Goto(p, step) ==
    /\ pc' = [pc EXCEPT ![p] = step]
    /\ UNCHANGED <<proofCommit, lock, outcome>>

(* The end of a run, for whatever reason: the lock goes with it. *)
End(p, how) ==
    /\ pc' = [pc EXCEPT ![p] = "idle"]
    /\ job' = [job EXCEPT ![p] = NoJob]
    /\ outcome' = [outcome EXCEPT ![p] = how]
    /\ lock' = None
    /\ UNCHANGED proofCommit

Fault(kind) ==
    /\ kind \in Faults
    /\ faults < MaxFaults
    /\ faults' = faults + 1

(* Faulty: recovered sources get this run's own submission metadata. *)
FreshStampOf(j, c) == [src |-> c, at |-> j.at, trig |-> j.trig]

(* The stamp a source of this run gets: recovered evidence when there is   *)
(* some, this run's own submission time and triggers otherwise.            *)
StampOf(j, c) ==
    LET recovered == {m \in j.rec : m.src = c}
    IN  IF recovered # {} THEN CHOOSE m \in recovered : TRUE
        ELSE [src |-> c, at |-> j.at, trig |-> j.trig]

(* A step that tags: create_timestamp_tag accepts an identical tag and     *)
(* fails the run (exit 3) on a different one of the same name.             *)
TagOrFail(p, stamp, next) ==
    IF TagCollides(stamp)
    THEN End(p, "failed") /\ UNCHANGED tags
    ELSE /\ tags' = tags \cup {stamp}
         /\ job' = [job EXCEPT ![p] = next]
         /\ UNCHANGED <<proofCommit, pc, lock, outcome>>

-----------------------------------------------------------------------------
(* Snapshot and scan *)

(* Faulty: does not take the lock into account. *)
AcquireAnyway(p) ==
    /\ At(p, "idle")
    /\ lock' = p
    /\ pc' = [pc EXCEPT ![p] = "snapshot"]
    /\ job' = [job EXCEPT ![p].clock = now, ![p].keep = proofCommit]
    /\ UNCHANGED <<repoVars, proofCommit, outcome, calendar, faults>>

(* The lock is tried once; an invocation that finds it held exits 7. *)
Acquire(p) ==
    /\ At(p, "idle")
    /\ lock = None
    /\ lock' = p
    /\ pc' = [pc EXCEPT ![p] = "snapshot"]
    /\ job' = [job EXCEPT ![p].clock = now, ![p].keep = proofCommit]
    /\ UNCHANGED <<repoVars, proofCommit, outcome, calendar, faults>>

(* build_snapshot: HEAD is resolved once and frozen; everything else is    *)
(* read from that commit and from the tags.                                *)
TakeSnapshot(p) ==
    LET base    == Baseline(head)
        pending == PendingMeaningful(head, BaseSource(base))
        due     == DecisionFor(head, job[p].clock)
    IN  /\ At(p, "snapshot")
        /\ ~ReplayRefused(HasAbandonedTags(head))
        /\ Goto(p, "scan")
        /\ job' = [job EXCEPT ![p].src = head, ![p].base = base,
                              ![p].pending = pending, ![p].at = now,
                              ![p].decision = due.commits, ![p].trig = due.trig]
        /\ UNCHANGED <<repoVars, calendar, faults>>

(* Rewritten history under every_commit. *)
RefuseReplay(p) ==
    /\ At(p, "snapshot")
    /\ ReplayRefused(HasAbandonedTags(head))
    /\ End(p, "failed")
    /\ UNCHANGED <<repoVars, calendar, faults>>

(* assert_committable_state and the clean-worktree preference: a merge or  *)
(* rebase in progress, a detached HEAD, no identity.                       *)
RefuseState(p) ==
    /\ At(p, "scan")
    /\ Fault("refuse")
    /\ End(p, "failed")
    /\ UNCHANGED <<repoVars, calendar>>

(* _in_flight_sources *)
InFlight(src, exclude) ==
    {c \in work.ots : /\ c \notin exclude
                      /\ c \notin TaggedSources
                      /\ c \notin Tree(src).ots
                      /\ HasPair(work, c)
                      /\ c \in Anc(src)}

(* Faulty: looks for interrupted work only when nothing is due. *)
ScanWhenNothingDue(p) ==
    LET j  == job[p]
        fl == IF j.decision = {} THEN InFlight(j.src, {}) ELSE {}
    IN  /\ At(p, "scan")
        /\ job' = [job EXCEPT ![p].inflight = fl,
                              ![p].done = fl,
                              ![p].todo = j.decision,
                              ![p].rec = {m \in work.json : m.src \in fl}]
        /\ Goto(p, IF j.decision = {} /\ fl = {} THEN "adopt" ELSE "select")
        /\ UNCHANGED <<repoVars, calendar, faults>>

(* Faulty: adopts the interrupted work and goes on with its own. *)
ScanWithoutDeferral(p) ==
    LET j  == job[p]
        fl == InFlight(j.src, j.decision)
    IN  /\ At(p, "scan")
        /\ job' = [job EXCEPT ![p].inflight = fl,
                              ![p].done = fl,
                              ![p].todo = j.decision,
                              ![p].rec = {m \in work.json : m.src \in fl}]
        /\ Goto(p, IF j.decision = {} /\ fl = {} THEN "adopt" ELSE "select")
        /\ UNCHANGED <<repoVars, calendar, faults>>

(* Adopting an earlier run's unrecorded submissions comes before this      *)
(* run's own decision, which is then deferred to a later run.              *)
Scan(p) ==
    LET j  == job[p]
        fl == InFlight(j.src, j.decision)
    IN  /\ At(p, "scan")
        /\ job' = [job EXCEPT ![p].inflight = fl,
                              ![p].done = fl,
                              ![p].todo = IF fl = {} THEN j.decision ELSE {},
                              ![p].rec = {m \in work.json : m.src \in fl}]
        /\ Goto(p, IF j.decision = {} /\ fl = {} THEN "adopt" ELSE "select")
        /\ UNCHANGED <<repoVars, calendar, faults>>

-----------------------------------------------------------------------------
(* Nothing is due and nothing is in flight *)

(* A tag whose artifacts were never committed, in a repository that has no *)
(* generated proof commit yet.                                             *)
LegacyTag(j) ==
    /\ j.keep
    /\ j.base # None
    /\ HasPair(work, j.base.src)
    /\ ~PathsAreCommitted({j.base.src})
    /\ GeneratedAncestors(j.src) = {}

AdoptLegacy(p) ==
    /\ At(p, "adopt")
    /\ LegacyTag(job[p])
    /\ Goto(p, "stage")
    /\ job' = [job EXCEPT ![p].done = {job[p].base.src}]
    /\ UNCHANGED <<repoVars, calendar, faults>>

(* Faulty: forgets that the baseline's own tag may be the missing one. *)
BeginCompletionOfPending(p) ==
    LET j == job[p]
    IN  /\ At(p, "adopt")
        /\ ~LegacyTag(j)
        /\ Goto(p, "complete")
        /\ job' = [job EXCEPT ![p].todo =
                     IF ~j.keep THEN {} ELSE j.pending \ TaggedSources]
        /\ UNCHANGED <<repoVars, calendar, faults>>

(* The sources whose tag may be missing: the baseline's and the pending. *)
BeginCompletion(p) ==
    LET j == job[p]
    IN  /\ At(p, "adopt")
        /\ ~LegacyTag(j)
        /\ Goto(p, "complete")
        /\ job' = [job EXCEPT ![p].todo =
                     IF ~j.keep THEN {}
                     ELSE (({BaseSource(j.base)} \ {None}) \cup j.pending)
                            \ TaggedSources]
        /\ UNCHANGED <<repoVars, calendar, faults>>

(* The baseline's source first, then the pending ones in repository order. *)
NextToComplete(j) == IF BaseSource(j.base) \in j.todo THEN j.base.src ELSE Min(j.todo)

CompletionClaims(j, c) ==
    Claiming(c, j.src, IF c = BaseSource(j.base) THEN None ELSE BaseSource(j.base))

(* Evidence from the frozen source's tree or, when a proof commit claims   *)
(* the source, from the working tree.                                      *)
CompletionEvidence(j, c) ==
    IF CommittedEvidence(c, j.src) # None THEN CommittedEvidence(c, j.src)
    ELSE IF CompletionClaims(j, c) # {} /\ HasPair(work, c)
         THEN ManifestOf(work, c) ELSE None

CompleteTag(p) ==
    LET j == job[p]
        c == NextToComplete(j)
        m == CompletionEvidence(j, c)
    IN  /\ At(p, "complete")
        /\ j.todo # {}
        /\ m # None
        /\ TagOrFail(p, m, [j EXCEPT !.todo = @ \ {c}, !.rec = @ \cup {m}])
        /\ UNCHANGED <<history, head, index, work, now, devs, calendar, faults>>

PassOver(p) ==
    LET j == job[p]
        c == NextToComplete(j)
    IN  /\ At(p, "complete")
        /\ j.todo # {}
        /\ CompletionEvidence(j, c) = None
        /\ CompletionClaims(j, c) = {}
        /\ Goto(p, "complete")
        /\ job' = [job EXCEPT ![p].todo = @ \ {c}]
        /\ UNCHANGED <<repoVars, calendar, faults>>

(* A claim with no manifest to be found: exit 5. *)
FailInconsistent(p) ==
    LET j == job[p]
        c == NextToComplete(j)
    IN  /\ At(p, "complete")
        /\ j.todo # {}
        /\ CompletionEvidence(j, c) = None
        /\ CompletionClaims(j, c) # {}
        /\ End(p, "failed")
        /\ UNCHANGED <<repoVars, calendar, faults>>

FinishCompletion(p) ==
    /\ At(p, "complete")
    /\ job[p].todo = {}
    /\ End(p, "ok")
    /\ UNCHANGED <<repoVars, calendar, faults>>

-----------------------------------------------------------------------------
(* The selected sources, in repository order *)

(* Both files are there: resume instead of submitting. *)
Recover(p) ==
    LET c == Min(job[p].todo)
    IN  /\ At(p, "select")
        /\ job[p].todo # {}
        /\ HasPair(work, c)
        /\ Goto(p, "select")
        /\ job' = [job EXCEPT ![p].todo = @ \ {c}, ![p].done = @ \cup {c},
                              ![p].rec = @ \cup {ManifestOf(work, c)}]
        /\ UNCHANGED <<repoVars, calendar, faults>>

(* Fail closed: one file of the pair without the other (exit 5), or a      *)
(* generated commit that claims a source with no artifacts (exit 3).       *)
FailSelected(p) ==
    LET j == job[p]
        c == Min(j.todo)
    IN  /\ At(p, "select")
        /\ j.todo # {}
        /\ ~HasPair(work, c)
        /\ \/ c \in work.ots \cup Described(work)
           \/ Claiming(c, j.src, BaseSource(j.base)) # {}
        /\ End(p, "failed")
        /\ UNCHANGED <<repoVars, calendar, faults>>

(* Faulty: takes half a pair for nothing at all. *)
BeginSubmitOverHalfPair(p) ==
    LET j == job[p]
        c == Min(j.todo)
    IN  /\ At(p, "select")
        /\ j.todo # {}
        /\ ~HasPair(work, c)
        /\ Claiming(c, j.src, BaseSource(j.base)) = {}
        /\ Goto(p, "submit")
        /\ UNCHANGED <<repoVars, job, calendar, faults>>

BeginSubmit(p) ==
    LET j == job[p]
        c == Min(j.todo)
    IN  /\ At(p, "select")
        /\ j.todo # {}
        /\ c \notin work.ots \cup Described(work)
        /\ Claiming(c, j.src, BaseSource(j.base)) = {}
        /\ Goto(p, "submit")
        /\ UNCHANGED <<repoVars, job, calendar, faults>>

(* The calendars answered with a proof. *)
Submit(p) ==
    /\ At(p, "submit")
    /\ calendar' = calendar \cup {StampOf(job[p], Min(job[p].todo))}
    /\ Goto(p, "proof")
    /\ UNCHANGED <<repoVars, job, faults>>

(* The client failed or ran into ots.timeout; calendars may hold the       *)
(* submission all the same.                                                *)
SubmitFails(p) ==
    /\ At(p, "submit")
    /\ Fault("submit")
    /\ \/ calendar' = calendar
       \/ calendar' = calendar \cup {StampOf(job[p], Min(job[p].todo))}
    /\ End(p, "failed")
    /\ UNCHANGED repoVars

(* persist_proof: the proof is renamed into place.  A file that is there   *)
(* already holds another submission's proof and is never overwritten.      *)
PersistProof(p) ==
    /\ At(p, "proof")
    /\ Min(job[p].todo) \notin work.ots
    /\ work' = [work EXCEPT !.ots = @ \cup {Min(job[p].todo)}]
    /\ Goto(p, "manifest")
    /\ UNCHANGED <<history, head, index, tags, now, devs, job, calendar, faults>>

(* persist_manifest: an identical manifest may be there already. *)
PersistManifest(p) ==
    LET c     == Min(job[p].todo)
        stamp == StampOf(job[p], c)
    IN  /\ At(p, "manifest")
        /\ \A m \in work.json : m.src = c => m = stamp
        /\ work' = [work EXCEPT !.json = @ \cup {stamp}]
        /\ Goto(p, "select")
        /\ job' = [job EXCEPT ![p].todo = @ \ {c}, ![p].done = @ \cup {c}]
        /\ UNCHANGED <<history, head, index, tags, now, devs, calendar, faults>>

(* _atomic_write: the file exists with different content, exit 5. *)
PersistFails(p) ==
    LET c == Min(job[p].todo)
    IN  /\ \/ At(p, "proof") /\ c \in work.ots
           \/ /\ At(p, "manifest")
              /\ \E m \in work.json : m.src = c /\ m # StampOf(job[p], c)
        /\ End(p, "failed")
        /\ UNCHANGED <<repoVars, calendar, faults>>

FinishSelection(p) ==
    /\ At(p, "select")
    /\ job[p].todo = {}
    /\ Goto(p, "durable")
    /\ UNCHANGED <<repoVars, job, calendar, faults>>

-----------------------------------------------------------------------------
(* Durability: one proof commit, then one tag per source *)

(* Are the artifacts in HEAD's tree, or not wanted there? *)
CheckDurable(p) ==
    LET j == job[p]
    IN  /\ At(p, "durable")
        /\ job' = [job EXCEPT ![p].todo = j.done]
        /\ Goto(p, IF j.keep /\ ~PathsAreCommitted(j.done) THEN "stage"
                                                                 ELSE "tag")
        /\ UNCHANGED <<repoVars, calendar, faults>>

Stage(p) ==
    /\ At(p, "stage")
    /\ StagePaths(job[p].done)
    /\ Goto(p, "commit")
    /\ UNCHANGED <<history, head, work, tags, now, devs, job, calendar, faults>>

StageFails(p) ==
    /\ At(p, "stage")
    /\ ~PathsKnown(job[p].done)
    /\ End(p, "failed")
    /\ UNCHANGED <<repoVars, calendar, faults>>

Commit(p) ==
    /\ At(p, "commit")
    /\ GeneratedProofCommit(job[p].done)
    /\ Goto(p, "tag")
    /\ UNCHANGED <<work, tags, now, devs, job, calendar, faults>>

(* Somebody else's commit took the staged files with it, or they are gone: *)
(* exit 6.                                                                 *)
CommitRefused(p) ==
    /\ At(p, "commit")
    /\ ~CanCommit(job[p].done)
    /\ End(p, "failed")
    /\ UNCHANGED <<repoVars, calendar, faults>>

(* Faulty: goes on to the tags although git commit failed. *)
CommitVetoIgnored(p) ==
    /\ At(p, "commit")
    /\ Fault("veto")
    /\ Goto(p, "tag")
    /\ UNCHANGED <<repoVars, job, calendar>>

(* A hook, a signer or the index lock stops git commit: exit 6. *)
CommitVetoed(p) ==
    /\ At(p, "commit")
    /\ Fault("veto")
    /\ End(p, "failed")
    /\ UNCHANGED <<repoVars, calendar>>

TagNext(p) ==
    LET j == job[p]
        c == Min(j.todo)
    IN  /\ At(p, "tag")
        /\ j.todo # {}
        /\ TagOrFail(p, StampOf(j, c), [j EXCEPT !.todo = @ \ {c}])
        /\ UNCHANGED <<history, head, index, work, now, devs, calendar, faults>>

FinishRun(p) ==
    /\ At(p, "tag")
    /\ job[p].todo = {}
    /\ End(p, "ok")
    /\ UNCHANGED <<repoVars, calendar, faults>>

-----------------------------------------------------------------------------
(* `git ots repair` *)

AcquireForRepair(p) ==
    /\ Repairs
    /\ At(p, "idle")
    /\ lock = None
    /\ lock' = p
    /\ pc' = [pc EXCEPT ![p] = "survey"]
    /\ UNCHANGED <<repoVars, proofCommit, job, outcome, calendar, faults>>

(* HEAD, the tagged sources and the proof files are each read once. *)
Survey(p) ==
    /\ At(p, "survey")
    /\ Goto(p, "repair")
    /\ job' = [job EXCEPT ![p].src = head, ![p].todo = work.ots \ TaggedSources]
    /\ UNCHANGED <<repoVars, calendar, faults>>

(* The proof files are taken in the order of their names, the object ids. *)
NextStored(j, c) == c \in j.todo /\ \A d \in j.todo : Sha(c) <= Sha(d)

(* The proof is still there, on the frozen lineage, and its manifest too. *)
Repairable(j, c) == c \in Anc(j.src) /\ HasPair(work, c)

(* Reported and left alone; a proof without its manifest makes the exit 5. *)
RepairPassesOver(p) ==
    /\ At(p, "repair")
    /\ \E c \in job[p].todo :
         /\ NextStored(job[p], c)
         /\ ~Repairable(job[p], c)
         /\ job' = [job EXCEPT ![p].todo = @ \ {c},
                       ![p].done = IF c \in Anc(job[p].src) \cap work.ots
                                   THEN @ \cup {c} ELSE @]
    /\ Goto(p, "repair")
    /\ UNCHANGED <<repoVars, calendar, faults>>

(* Faulty: manufactures the submission time. *)
RepairTagNow(p) ==
    /\ At(p, "repair")
    /\ \E c \in job[p].todo :
         /\ NextStored(job[p], c)
         /\ Repairable(job[p], c)
         /\ TagOrFail(p, [ManifestOf(work, c) EXCEPT !.at = now],
                      [job[p] EXCEPT !.todo = @ \ {c}])
    /\ UNCHANGED <<history, head, index, work, now, devs, calendar, faults>>

RepairTag(p) ==
    /\ At(p, "repair")
    /\ \E c \in job[p].todo :
         /\ NextStored(job[p], c)
         /\ Repairable(job[p], c)
         /\ TagOrFail(p, ManifestOf(work, c), [job[p] EXCEPT !.todo = @ \ {c}])
    /\ UNCHANGED <<history, head, index, work, now, devs, calendar, faults>>

FinishRepair(p) ==
    /\ At(p, "repair")
    /\ job[p].todo = {}
    /\ End(p, IF job[p].done = {} THEN "ok" ELSE "failed")
    /\ UNCHANGED <<repoVars, calendar, faults>>

-----------------------------------------------------------------------------

(* SIGKILL, OOM or power loss between two steps; the lock is released by   *)
(* the operating system.                                                   *)
Crash(p) ==
    /\ pc[p] \in CrashAt
    /\ faults < MaxFaults
    /\ faults' = faults + 1
    /\ End(p, "killed")
    /\ UNCHANGED <<repoVars, calendar>>

(* What the program does on its own. *)
Step(p) ==
    \/ TakeSnapshot(p) \/ RefuseReplay(p) \/ Scan(p)
    \/ AdoptLegacy(p) \/ BeginCompletion(p)
    \/ CompleteTag(p) \/ PassOver(p) \/ FailInconsistent(p) \/ FinishCompletion(p)
    \/ Recover(p) \/ FailSelected(p) \/ BeginSubmit(p) \/ Submit(p)
    \/ PersistProof(p) \/ PersistManifest(p) \/ PersistFails(p)
    \/ FinishSelection(p)
    \/ CheckDurable(p) \/ Stage(p) \/ StageFails(p)
    \/ Commit(p) \/ CommitRefused(p)
    \/ TagNext(p) \/ FinishRun(p)
    \/ Survey(p) \/ RepairPassesOver(p) \/ RepairTag(p) \/ FinishRepair(p)

(* What its surroundings do to it. *)
Disturb(p) ==
    \/ RefuseState(p) \/ SubmitFails(p) \/ CommitVetoed(p) \/ Crash(p)

(* The operator turns ots.proofCommit on; a run under way has read its own. *)
EnableProofCommit ==
    /\ Dev("config")
    /\ ~proofCommit
    /\ proofCommit' = TRUE
    /\ UNCHANGED <<history, head, index, work, pc, job, lock, outcome, calendar, faults>>

Next ==
    \/ \E p \in Proc : Acquire(p) \/ AcquireForRepair(p) \/ Step(p) \/ Disturb(p)
    \/ DevCommit /\ UNCHANGED runVars
    \/ DevAmend /\ UNCHANGED runVars
    \/ DevReset /\ UNCHANGED runVars
    \/ DevMerge /\ UNCHANGED runVars
    \/ DevDrop /\ UNCHANGED runVars
    \/ DevClean /\ UNCHANGED runVars
    \/ Tick /\ UNCHANGED runVars
    \/ EnableProofCommit

Spec == Init /\ [][Next]_vars

(* Some scheduler keeps starting runs, and a started run keeps going. *)
Scheduled ==
    /\ WF_vars(\E p \in Proc : Acquire(p))
    /\ \A p \in Proc : WF_vars(Step(p))

FairSpec == Spec /\ Scheduled
=============================================================================
