-------------------------- MODULE OtsRunProperties --------------------------
(***************************************************************************)
(* What `git ots run` must guarantee.  The hazards these are aimed at are  *)
(* listed in PROJECT.json; README.md says which run checks which.          *)
(***************************************************************************)
EXTENDS OtsRun

-----------------------------------------------------------------------------
(* State invariants *)

(* A timestamp tag states a source, a submission time and a trigger set    *)
(* that belong to one submission the calendars really accepted: however    *)
(* many interruptions and recoveries lie between the submission and the    *)
(* tag, run() never forges an earlier or a later attestation, and never    *)
(* gives one source the metadata of another of the same batch.             *)
TagsTruthful == tags \subseteq calendar

(* With proof commits enabled, every tag's own proof and manifest are in   *)
(* the tree of some commit: a clone can always check what a tag states.    *)
TagsDurable ==
    ProofCommit => \A t \in tags : \E c \in Commits :
        t.src \in Tree(c).ots /\ t \in Tree(c).json

(* The weaker form that survives HEAD jumping between lineages during a    *)
(* run: some commit holds a proof and manifest for the tag's source.       *)
TagsBacked ==
    ProofCommit => \A t \in tags : \E c \in Commits : HasPair(Tree(c), t.src)

(* A generated commit holds the proof and manifest of every source it      *)
(* claims, whatever was staged, reset, removed or amended meanwhile.       *)
ClaimsBacked ==
    \A g \in Commits : \A c \in history[g].claims : HasPair(Tree(g), c)

(* No source is claimed twice on one lineage; the recovery diagnostics     *)
(* take two claims for an inconsistent repository.                         *)
ClaimedOnce ==
    \A h \in Commits : \A g \in Anc(h) \ {h} :
        history[g].claims \cap history[h].claims = {}

(* At most one invocation is past the lock. *)
Exclusive == \A p, q \in Proc : ~At(p, "idle") /\ ~At(q, "idle") => p = q

-----------------------------------------------------------------------------
(* The inductive invariant behind TypeOK, Exclusive and TagsTruthful *)

(* A run past its snapshot has frozen a real commit; the paths of run()    *)
(* that work on the head of todo have one.                                 *)
JobsConsistent ==
    \A p \in Proc :
        /\ pc[p] \notin {"idle", "snapshot", "survey"} => job[p].src \in Commits
        /\ pc[p] = "adopt" => job[p].todo = {}
        /\ pc[p] \in {"submit", "proof", "manifest"} => job[p].todo # {}

(* The lock is held by exactly the invocation that is past it. *)
LockHeld == \A p \in Proc : At(p, "idle") <=> lock # p

(* Every manifest anywhere states an accepted submission. *)
StoresAttested ==
    /\ tags \subseteq calendar
    /\ work.json \subseteq calendar
    /\ index.json \subseteq calendar
    /\ \A c \in Commits : Tree(c).json \subseteq calendar

(* So does every stamp a run at this step is going to write into a *)
(* manifest or a tag.                                               *)
JobAttested(j, step, accepted) ==
    /\ j.rec \subseteq accepted
    /\ step \in {"select", "submit", "proof", "manifest", "durable"} =>
           \A c \in j.done : StampOf(j, c) \in accepted
    /\ step \in {"proof", "manifest"} => StampOf(j, Min(j.todo)) \in accepted
    /\ step \in {"stage", "commit", "tag"} =>
           \A c \in j.todo : StampOf(j, c) \in accepted

JobsAttested == \A p \in Proc : JobAttested(job[p], pc[p], calendar)

-----------------------------------------------------------------------------
(* The inductive invariant behind ClaimsBacked and TagsBacked *)

(* The lineage of a commit consists of commits. *)
LineagesExist == \A c \in Commits : Anc(c) \subseteq Commits

(* The files of one store are all in another, whatever they hold there. *)
Within(inner, outer) ==
    /\ inner.ots \subseteq outer.ots
    /\ Described(inner) \subseteq Described(outer)

(* What HEAD has is tracked, and what is tracked is on disk. *)
Layered == Within(Tree(head), index) /\ Within(index, work)

(* The sources some commit holds a proof and a manifest of. *)
Recorded == UNION {{c \in Tree(g).ots : HasPair(Tree(g), c)} : g \in Commits}

(* A run about to commit will tag what it commits, and one about to tag, if *)
(* it keeps proofs in commits, has them there.                              *)
JobBacked(j, step, recorded) ==
    /\ step \in {"stage", "commit"} => j.todo \subseteq j.done
    /\ step = "tag" /\ j.keep => j.todo \subseteq recorded

JobsBacked == \A p \in Proc : JobBacked(job[p], pc[p], Recorded)

(* Proofs once kept in commits are kept there by every run. *)
KeptThroughout ==
    ProofCommit =>
        /\ proofCommit
        /\ \A p \in Proc : pc[p] \notin {"idle", "survey", "repair"} => job[p].keep

-----------------------------------------------------------------------------
(* The inductive invariant behind LateTagsReopenNothing and OccurrenceOnce *)

(* A lineage holds its own commit, otherwise older ones, and their lineages. *)
Lineal ==
    \A d \in Commits : /\ d \in Anc(d) /\ Anc(d) \subseteq 1..d
                       /\ \A c \in Anc(d) : Anc(c) \subseteq Anc(d)

Selecting == {"select", "submit", "proof", "manifest"}

(* A run submits nothing but what its own decision selected. *)
OwnDecision == \A p \in Proc : pc[p] \in Selecting => job[p].todo \subseteq job[p].decision

(* Where fixed_time is the only rule, it is why anything was submitted. *)
ScheduleOnly ==
    ~EveryCommit /\ MaxAge = None =>
        /\ \A s \in calendar : s.trig = {"fixed_time"}
        /\ \A p \in Proc : job[p].decision # {} => job[p].trig = {"fixed_time"}

(* No scheduled stamp on the frozen lineage is as late as the occurrence. *)
NotYetStamped(j) ==
    ~\E t \in tags : /\ t.src \in Anc(j.src)
                     /\ "fixed_time" \in t.trig
                     /\ t.at >= MostRecentOccurrence(j.clock)

(* A run that fixed_time made due still has an occurrence to satisfy. *)
OccurrenceOpen ==
    \A p \in Proc :
        /\ pc[p] \in {"scan"} \cup Selecting
        /\ "fixed_time" \in job[p].trig
        => NotYetStamped(job[p])

-----------------------------------------------------------------------------
(* The inductive invariant behind NothingInFlightAtSubmit, NoResubmission  *)
(* and TagsDurable, where nobody takes files out of HEAD's tree            *)

Holds(outer, inner) ==
    inner.ots \subseteq outer.ots /\ inner.json \subseteq outer.json

(* HEAD has every file any commit has, the index has those, the disk these. *)
Accrues ==
    /\ \A c \in Commits : Holds(Tree(head), Tree(c))
    /\ Holds(index, Tree(head))
    /\ Holds(work, index)

(* A run that has something to submit leaves nothing in flight besides, and *)
(* submits only for a source that has no proof.                             *)
OnlyOwn ==
    \A p \in Proc :
        /\ pc[p] \in Selecting /\ job[p].todo # {}
               => InFlight(job[p].src, job[p].decision) = {}
        /\ pc[p] = "submit" => Min(job[p].todo) \notin work.ots

OneManifest == \A m, n \in work.json : m.src = n.src => m = n

(* The manifest on disk, if any, is the stamp the run gives the source. *)
StampedAs(j, c) == \A m \in work.json : m.src = c => m = StampOf(j, c)

Witnessed(s) == \E g \in Commits : s.src \in Tree(g).ots /\ s \in Tree(g).json

(* A run recovers what is on disk and nothing else, and knows no other     *)
(* stamp of a source it is going to tag; a stamp it tags, some commit has. *)
JobFaithful(j, step) ==
    /\ step \in Selecting => \A m \in j.rec, n \in j.rec \cup work.json :
                                 m.src = n.src => m = n
    /\ step \in Selecting \cup {"durable"} => \A c \in j.done : StampedAs(j, c)
    /\ step \in {"stage", "commit"} => \A c \in j.todo : StampedAs(j, c)
    /\ step = "tag" /\ j.keep => \A c \in j.todo : Witnessed(StampOf(j, c))

JobsFaithful == \A p \in Proc : JobFaithful(job[p], pc[p])

(* Where nothing is cleaned away either, what is tagged stays on disk. *)
JobPresent(j, step) ==
    /\ step \in Selecting \cup {"durable"} => \A c \in j.done : HasPair(work, c)
    /\ step = "manifest" => Min(j.todo) \in work.ots
    /\ step \in {"stage", "commit", "tag"} => \A c \in j.todo : HasPair(work, c)

Present ==
    /\ \A c \in TaggedSources : HasPair(work, c)
    /\ \A p \in Proc : JobPresent(job[p], pc[p])

-----------------------------------------------------------------------------
(* The inductive invariant behind NothingLeftInFlight *)

(* What a run leaves to a later one when it finds earlier work to finish. *)
Deferred(j) == IF j.inflight = {} THEN {} ELSE j.decision

(* Sources are commits of the developer's, never generated ones. *)
Meaningful(S) == \A c \in S : c \in Commits /\ ~IsGenerated(c)

StoresMeaningful ==
    /\ Meaningful(work.ots) /\ Meaningful(index.ots)
    /\ \A g \in Commits : Meaningful(Tree(g).ots)

JobsMeaningful ==
    \A p \in Proc : pc[p] \in {"scan"} \cup Selecting => Meaningful(job[p].decision)

(* Generated commits on top of a commit keep the proofs it has. *)
ProofsKept ==
    \A g \in Commits : \A c \in Anc(g) :
        (\A d \in Anc(g) \ Anc(c) : IsGenerated(d)) => Tree(c).ots \subseteq Tree(g).ots

(* In flight for a run, and not recorded by HEAD meanwhile. *)
Outstanding(j) == InFlight(j.src, Deferred(j)) \ Tree(head).ots

Untagged(j) == ((work.ots \cap Anc(j.src)) \ TaggedSources) \ Tree(head).ots

(* Whatever is outstanding is still on a run's, or a repair's, list. *)
Accounted(j, step) ==
    /\ step \in {"adopt", "complete"} => Outstanding(j) = {}
    /\ step \in Selecting => Outstanding(j) \subseteq j.todo \cup j.done
    /\ step = "durable" => Outstanding(j) \subseteq j.done
    /\ step \in {"stage", "commit", "tag"} => Outstanding(j) \subseteq j.todo
    /\ step = "repair" => Untagged(j) \subseteq j.todo \cup j.done

JobsAccounted == \A p \in Proc : Accounted(job[p], pc[p])

-----------------------------------------------------------------------------
(* The inductive invariant behind ClaimedOnce, and behind TagsDurable where *)
(* files are removed                                                        *)

(* A lineage is a chain: nobody merges. *)
Chained == \A h \in Commits : \A c, d \in Anc(h) : c <= d => c \in Anc(d)

(* HEAD has every file of its tree in the index, and these are on disk. *)
Stacked == Holds(index, Tree(head)) /\ Holds(work, index)

Claimed(h) == UNION {history[g].claims : g \in Anc(h)}

(* Only generated commits claim, and only what was there before them. *)
ClaimsPast == \A g \in Commits : \A c \in history[g].claims : IsGenerated(g) /\ c < g

(* What is claimed and still on disk, or there again, is in HEAD's tree. *)
ClaimsOnRecord == \A c \in Claimed(head) : HasPair(work, c) => HasPair(Tree(head), c)

(* The claims on HEAD's lineage are those the run has seen, and it submits *)
(* for none of them.                                                       *)
JobClaims(j, step) ==
    /\ step \in {"scan", "adopt", "complete"} \cup Selecting => Claimed(head) = Claimed(j.src)
    /\ step \in {"scan"} \cup Selecting =>
           /\ j.base # None => j.base.src \in Anc(j.src)
           /\ j.decision \subseteq PendingMeaningful(j.src, BaseSource(j.base))
    /\ step = "scan" => \A c \in Claimed(head) : HasPair(work, c) => HasPair(Tree(j.src), c)
    /\ step \in {"submit", "proof", "manifest"} => Min(j.todo) \notin Claimed(head)

JobsClaims == \A p \in Proc : JobClaims(job[p], pc[p])

(* Nor does it take up one: what it is going to commit is not claimed. *)
JobUnclaimed(j, step) ==
    /\ step = "scan" => \A c \in j.decision \cap Claimed(head) : ~HasPair(work, c)
    /\ step \in Selecting => \A c \in j.todo \cap Claimed(head) : ~HasPair(work, c)
    /\ step \in Selecting \cup {"durable", "stage", "commit"} => j.done \cap Claimed(head) = {}

JobsUnclaimed == \A p \in Proc : JobUnclaimed(job[p], pc[p])

-----------------------------------------------------------------------------
(* The inductive invariant behind Converged, and behind ClaimedOnce: along *)
(* a lineage, submissions are in the order of their sources                *)

(* The newest of the developer's commits on a lineage. *)
Tops(t, h) ==
    /\ t \in Anc(h) /\ ~IsGenerated(t)
    /\ \A c \in Anc(h) : IsGenerated(c) \/ c \in Anc(t)

Topped == \A h \in Commits : \E t \in Commits : Tops(t, h)

(* HEAD never goes back: nothing else was made on top of its newest. *)
HeadIsNewest ==
    \A t, d \in Commits : Tops(t, head) /\ t \in Anc(d) => IsGenerated(d) \/ d = t

TimesOrdered ==
    \A c, d \in Commits : c <= d => history[c].time <= history[d].time /\ history[d].time <= now

(* A submission is for a commit of the developer's, and none is later than *)
(* that of a run under way.                                                *)
Dated ==
    /\ \A s \in calendar : s.src \in Commits /\ ~IsGenerated(s.src) /\ s.at <= now
    /\ \A p \in Proc : pc[p] \in {"scan"} \cup Selecting =>
           job[p].at <= now /\ \A s \in calendar : s.at <= job[p].at

(* The older source was submitted first. *)
InOrder == \A s, t \in calendar : s.src \in Anc(t.src) \ {t.src} => s.at <= t.at

(* Without every_commit, a run decides for one commit, and nothing was *)
(* submitted above it.                                                  *)
DecidesForTop ==
    \A p \in Proc : pc[p] \in {"scan"} \cup Selecting => \A c \in job[p].decision :
        /\ job[p].decision = {c}
        /\ \A s \in calendar : c \in Anc(s.src) => s.src = c

(* With every_commit, everything below what was submitted has its proof. *)
Gapless == \A s \in calendar : \A c \in Anc(s.src) \ {s.src} : IsGenerated(c) \/ c \in work.ots

JobGapless(j, step) ==
    /\ step \in {"scan"} \cup Selecting =>
           \A c \in Anc(j.src) : IsGenerated(c) \/ c \in j.decision \cup work.ots
    /\ step \in Selecting /\ j.todo # {} => j.decision \subseteq j.todo \cup j.done

JobsGapless == \A p \in Proc : JobGapless(job[p], pc[p])

-----------------------------------------------------------------------------
(* The inductive invariant behind Converged *)

(* What HEAD has, everything made since has. *)
Ascending == \A t \in Anc(head), d \in Commits : t <= d => t \in Anc(d)

(* A tree has proofs of earlier commits only. *)
TreesPast == \A g \in Commits : \A c \in Tree(g).ots : c < g

(* Nothing of what any commit recorded above HEAD's newest is lost to HEAD. *)
TopRecorded ==
    \A t, g \in Commits : Tops(t, head) /\ Tops(t, g) => Holds(Tree(head), Tree(g))

(* A manifest that the proof-commit baseline is chosen from. *)
Proven(src, s) ==
    GeneratedAncestors(src) # {} /\ s \in Tree(src).json /\ s.src \in Tree(src).ots

(* What the policy chooses from, and chooses, for src at t, when base is *)
(* the baseline.                                                         *)
Candidates(src, base) ==
    {[id |-> c, time |-> history[c].time] : c \in PendingMeaningful(src, BaseSource(base))}

DecisionWith(src, base, t) ==
    EvaluatePolicy(Candidates(src, base), base # None, LastFixedTime(base), t)

(* A run's decision follows from a baseline that is still there. *)
JobDecided(j) ==
    /\ j.base # None => /\ j.base.src \in Anc(j.src)
                        /\ j.base \in tags \/ Proven(j.src, j.base)
    /\ j.decision = DecisionWith(j.src, j.base, j.clock).commits

Running == Selecting \cup {"scan", "adopt", "complete", "durable", "stage", "commit", "tag"}

JobsDecided == \A p \in Proc : pc[p] \in Running => JobDecided(job[p])

(* Unless it is deferred, the decision is carried through to the tags. *)
JobCarried(j, step) ==
    /\ step \in {"adopt", "complete"} => j.decision = {}
    /\ step \in Selecting => j.decision \subseteq j.todo \cup j.done
    /\ step = "durable" => j.decision \subseteq j.done
    /\ step \in {"stage", "commit"} => j.decision \subseteq j.todo
    /\ step = "tag" => j.decision \subseteq j.todo \cup TaggedSources

JobsCarried == \A p \in Proc : job[p].inflight = {} => JobCarried(job[p], pc[p])

Below(base) == IF base = None THEN {} ELSE Anc(base.src) \ {base.src}

(* A run that has decided for nothing and found nothing in flight can only *)
(* complete tags, and none below its baseline: no tag there is preferred   *)
(* to a tag that it took for the baseline.                                 *)
JobSettled(j, step) ==
    /\ step \notin Selecting \cup {"durable"}
    /\ step \in {"stage", "commit", "tag"} => j.todo = {}
    /\ step \in {"scan", "adopt"} => j.pending \cap Below(j.base) = {}
    /\ step = "complete" => j.todo \cap Below(j.base) = {}
    /\ Proven(j.src, j.base) \/ \A t \in tags :
           t.src \in Below(j.base) /\ t.at = j.base.at => Sha(t.src) <= Sha(j.base.src)

JobsSettled ==
    \A p \in Proc : /\ pc[p] \in Running /\ job[p].decision = {}
                    /\ pc[p] = "scan" \/ job[p].inflight = {}
                    => JobSettled(job[p], pc[p])

-----------------------------------------------------------------------------
(* Action properties *)

Submits(p) == At(p, "submit") /\ calendar' # calendar

EndsOk(p) == ~At(p, "idle") /\ pc'[p] = "idle" /\ outcome'[p] = "ok"

(* HEAD still descends from the source the run froze, and only generated *)
(* commits came on top.                                                   *)
NoNewWork(p) ==
    /\ job[p].src \in Anc(head)
    /\ \A c \in Anc(head) \ Anc(job[p].src) : IsGenerated(c)

(* A run or a repair that reports success leaves no proof and manifest     *)
(* pair on disk that neither a tag nor HEAD's tree records, including      *)
(* those that earlier, interrupted runs left.  A run that adopts such      *)
(* pairs has deferred its own decision, whatever that has on disk.         *)
NothingLeftInFlight ==
    [][\A p \in Proc : EndsOk(p) /\ NoNewWork(p) => InFlight(head, Deferred(job[p])) = {}]_vars

(* A source is not paid for again while anything of its stamp is left: a   *)
(* proof in the working tree or in HEAD's tree, or a tag.                  *)
NoResubmission ==
    [][\A p \in Proc : Submits(p) =>
          Min(job[p].todo) \notin work.ots \cup Tree(head).ots \cup TaggedSources]_vars

(* No submission is made while an earlier one is in flight: a blocked run  *)
(* converges on what is already paid for instead of racing ahead of it.    *)
NothingInFlightAtSubmit ==
    [][\A p \in Proc : Submits(p) => InFlight(job[p].src, job[p].decision) = {}]_vars

(* After a successful run that deferred nothing, the same policy evaluated *)
(* at the same instant selects nothing: running twice stamps once.         *)
Converged ==
    [][\A p \in Proc : EndsOk(p) /\ ~At(p, "repair") /\ NoNewWork(p) /\ job[p].inflight = {}
          => DecisionFor(head, job[p].clock).commits = {}]_vars

(* The non-generated commits of HEAD's lineage above its newest stamp. *)
StillPending == PendingMeaningful(head, BaseSource(Baseline(head)))

(* On HEAD's lineage, what was submitted earlier is below what was         *)
(* submitted later.  Resets, merges and the loss of a proof, which has its *)
(* source submitted anew, may change that order.                           *)
SubmittedInOrder ==
    \A s, u \in calendar :
        {s.src, u.src} \subseteq Anc(head) /\ s.at < u.at => s.src \in Anc(u.src)

(* A tag gives nothing back to be stamped.  Completions and `git ots       *)
(* repair` make tags late, for submissions of earlier invocations, when    *)
(* newer stamps are tagged already; such a tag must not become the         *)
(* baseline and have the commits above it stamped again, and neither may a *)
(* tag whose source HEAD has left meanwhile.  Two things are left out,     *)
(* which no order of tagging can help: submissions that were made in       *)
(* another order than their sources have, and a tag that ties in time with *)
(* one of its batch that has a newer source (the run tag_tie).             *)
LateTagsReopenNothing ==
    [][\A t \in tags' \ tags :
          /\ SubmittedInOrder
          /\ \A u \in tags : u.at = t.at /\ u.src \in Anc(head) => u.src \in Anc(t.src)
          => StillPending' \subseteq StillPending]_vars

(* What the documentation says of open transactions: the in-flight sources *)
(* are all those with a valid pair on disk and no tag, committed or not,   *)
(* and no submission is made while there is one.                           *)
OpenTransactionFirst ==
    [][\A p \in Proc : Submits(p) =>
          ~\E c \in Anc(job[p].src) \ job[p].decision :
              HasPair(work, c) /\ c \notin TaggedSources]_vars

(* A scheduled occurrence that a stamp on this lineage has satisfied is    *)
(* not the reason for another stamp.                                       *)
OccurrenceOnce ==
    [][\A p \in Proc : Submits(p) /\ "fixed_time" \in job[p].trig =>
          ~\E t \in tags : /\ t.src \in Anc(job[p].src)
                           /\ "fixed_time" \in t.trig
                           /\ t.at >= MostRecentOccurrence(job[p].clock)]_vars

-----------------------------------------------------------------------------
(* Refinement *)

(* Runs and repairs together implement the ledger of stamps: every step of *)
(* theirs, kills and failures included, is a step the ledger allows, and   *)
(* nothing the developer does touches it.                                  *)
Stamping == INSTANCE StampLedger WITH
    Client <- Proc, Nobody <- None, Stamps <- Stamp,
    holder <- lock, accepted <- calendar, tagged <- tags

Ledger == Stamping!Spec

-----------------------------------------------------------------------------
(* Liveness *)

CoveredBy(S) == \A c \in Anc(head) : IsGenerated(c) \/ \E s \in S : c \in Anc(s)

(* Once failures and developer activity stop, every meaningful commit of   *)
(* HEAD's history is, and stays, an ancestor of a tagged source: under a   *)
(* scheduler that keeps calling `git ots run`, interruptions delay a       *)
(* timestamp and never lose it.                                            *)
EventuallyCovered == <>[]CoveredBy(TaggedSources)
=============================================================================
