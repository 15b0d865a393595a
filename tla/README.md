# A TLA+ model of git-ots

git-ots timestamps Git commits with OpenTimestamps. Submitting to the calendars
is irreversible; after it come several steps that can fail (write the proof,
write the manifest, stage, commit, tag), in a repository in which people keep
working and on which schedulers keep calling `git ots run`. This directory
models that transaction, the repair of what it left behind, the upgrade of the
stored proofs later on, the process around each command with its lock and its
client, the resolution of the configuration that decides whether anything is
due, and the proof trees that upgrades are merged into. TLC checks all of them;
TLAPS proves most of the invariants for every value of the constants.

Source paths below are relative to `src/src/git_ots/`.

## 1. Inventory

### Components

| Component | State it keeps | Operations that matter | What makes it correct |
|---|---|---|---|
| Policy engine (`policy.py`) | none | `evaluate_policy` | selects for known triggers only; a satisfied occurrence does not fire again; refuses to replay rewritten history |
| Git queries (`git.py`) | none; read commits, trees, tags | baseline search, pending filter, claims, in-tree evidence | the last stamp of a lineage is found again however it got there |
| Git primitives (`git.py`) | index, HEAD, tags | `stage_paths`, `create_generated_proof_commit`, `create_timestamp_tag`, `paths_are_committed` | generated commits hold what they claim; tags never move |
| Repository lock (`git.py`) | `flock` on a file in the common Git directory, a re-entrancy counter per process | `acquire` (never waits), `release` | one invocation at a time; free again after a kill |
| Run transaction (`orchestration.py`, `cli._run_command`) | the snapshot, in-flight sources, recovered evidence; everything durable is in the repository | `build_snapshot`, `run` | tags tell the truth and are durable, nothing paid for is lost or paid twice, everything is covered in the end |
| Timestamp client (`timestamp.py`) | child process group | `submit`, `upgrade`, `verify`, `terminate_active_child` | a call ends within `ots.timeout` and leaves no child |
| Proof storage (`timestamp.py`) | `<source>.ots`, `<source>.json` in the proof directory | `persist_proof`, `persist_manifest`, `inspect_recovery_artifacts` | never overwritten with other content; accepted again only when bound to the source |
| Repair (`repair.py`) | none | `repair_missing_tags` | creates missing tags from manifests, submits nothing |
| Upgrade (`upgrade.py`, `git.py`) | stored proofs, its own commits | `upgrade_proofs`, `find_squashable_upgrade_commit`, `amend_upgrade_commit` | upgrades only add; published history is not knowingly rewritten |
| Proof trees (`proof_tree.py`) | none | `merge_node`, parse, serialize | a merge only adds, once, and in the order that reports rely on |
| Anchors (`anchors.py`) | none | `collectible_calendars`, `describe_anchors` | whoever still owes an answer is asked; each anchor is credited to its calendars |
| Servers, verify (`servers.py`, `verify.py`) | none | reports | read-only |
| Configuration (`config.py`, `gitconfig.py`) | none; reads Git's scopes in several subprocesses | `_resolve_triggers`, `assemble_config` | the trigger keys of the narrowest scope replace all wider ones, even when they are edited between the reads |
| CLI (`cli.py`) | the lock around each command | dispatch, interrupts, exit codes | every command works under the lock, ends, and leaves no client behind |
| Release and interop workflows | none | - | - |

### How they interact

`git ots run` takes the lock, evaluates the policy on a frozen source and calls
`run()`, which calls the client, the storage and the Git primitives in order.
Nothing is passed to the next invocation except through the repository: the
proof directory in the working tree, the index, the commits and the tags. The
developer shares all four and takes no lock. `repair` and `upgrade` take the
same lock and read and write the same files, commits and tags.

The lock is taken twice by `run` (in `cli.py` and in `run()`), once by the other
commands. The client is a child process in a session of its own, waited for by a
worker thread when there is a time limit; the Git index is shared with every
other program that uses Git.

### What is hard

* A kill or a failure between any two steps; the next run must recognise what
  was done from files, index, commits and tags alone, with HEAD already moved.
* Developers who commit, amend, reset, merge, delete or clean while a run is
  under way: the run's frozen source and the HEAD it commits to differ.
* Calendars that accepted a submission whose answer was lost.
* Several sources in one batch, some recovered and some fresh.
* Several places to read the last stamp from, and ties between them.
* Overlapping schedulers; convergence: one of many runs must get through, and
  the next one must find nothing to do.
* Upgrades that rewrite proofs and amend the last commit, hours after a
  submission: a pass that dies before it commits, a HEAD that moves or is pushed
  between the decision to amend and the amend, an older proof put back.
* Calendars that answer in any order, repeat or revise themselves, or answer with
  a branch that runs through another calendar's promise, while the client drops
  the promises it fulfilled and direct collection keeps them.
* Nested locks of one process, two deadlines for one client, Ctrl-C in either
  thread, an index lock that somebody else holds or left behind.
* A configuration read key by key while it is edited, from up to five scopes.
* Repair, which creates tags outside the order of a run.

`PROJECT.json` lists each hazard at its line, with the property aimed at it or
the reason there is none yet.

## 2. Modules

| Module | Contents |
|---|---|
| `TriggerPolicy` | the policy engine as pure operators |
| `GitRepo` | the repository, the developer, the clock; the queries and primitives of `git.py` |
| `OtsRun` | `git ots run` and `git ots repair`: one action per observable step, overlapping invocations, faults, kills; `Spec` and `FairSpec` |
| `StampLedger` | abstract specification: what git-ots promises of submissions and tags |
| `OtsRunProperties` | invariants, action properties, liveness, the inductive invariants, and the refinement mapping to `StampLedger` |
| `MCOtsRun` | the constants of the TLC instances |
| `OtsRun_proofs` | `TypeOK`, `Exclusive`, `TagsTruthful`; `OtsRun` implements `StampLedger` |
| `OtsRunBacking_proofs` | `ClaimsBacked`, `TagsBacked`, `LateTagsReopenNothing`, `OccurrenceOnce` |
| `OtsRunRecovery_proofs` | `NothingInFlightAtSubmit`, `NoResubmission`, `NothingLeftInFlight` |
| `OtsRunClaims_proofs` | `ClaimedOnce`, `TagsDurable` |
| `OtsRunConverged_proofs` | `Converged` |
| `ProofUpgrade` | `git ots upgrade` and its surroundings, with its properties |
| `MCProofUpgrade` | the configurations of the upgrade instances |
| `ProofUpgrade_proofs` | its theorems |
| `ProofTree`, `MCProofTree` | one stored proof as a tree: bytes, merging, collecting, reporting, under chains of upgrades; the answers of its instance |
| `RepositoryLock` | the re-entrant file lock: registry, instances, processes |
| `Invocation` | the process around a command: locks, client, index lock, Ctrl-C |
| `InvocationProperties`, `MCInvocation` | its properties and inductive invariant; the constants of its instance |
| `Invocation_proofs` | its theorems |
| `TriggerScopes` | reading and resolving the trigger keys, with its properties |
| `TriggerScopes_proofs` | its theorems |

There are five state machines. `OtsRun` extends `GitRepo` and that extends
`TriggerPolicy`; `MCOtsRun`, `OtsRun_proofs` and what builds on it extend
`OtsRunProperties`. `ProofUpgrade` stands by itself: what a proof attests to,
remotes and squashing matter only there, stamps and tags only in `OtsRun`, and
the two commands exclude each other by the repository lock. `ProofTree` is below
it: a proof there is a tree, here the set of what it attests to, and
`CollectsExactly` is why a merge may be a union of sets. `Invocation` extends
`RepositoryLock` and knows nothing of what a command does to the repository; that
its lock excludes (`WorksUnderLock`, proved) is what lets `OtsRun` model it as one
variable. `TriggerScopes` decides which triggers are enabled, which in `OtsRun`
are the constants `EveryCommit`, `MaxAge` and `FixedPeriod`.

Definitions whose comment begins with "Faulty:" are not part of the model: each
is a plausible bug in the definition that follows it, and `PROJECT.json`
(`mutants`) says which property catches it.

### State and code

* `history`, `head`: commits numbered in creation order, with ancestor sets,
  the generated trailer and its claimed sources, and the proof directory of the
  tree. The numbering is also the order `git log` lists them in; object ids are
  the constant `Sha`, unrelated to that order.
* `index`, `work`: the proof directory in the index and on disk, as a `Store`:
  which `.ots` files are there, and which manifests.
* `tags`: timestamp tags. A tag, a manifest and a calendar submission are all a
  `Stamp`: source, submission time, triggers.
* `lock`: the process that holds `RepositoryLock`. `cli.py` and `run()` both take
  it; here they are one acquisition, the nesting is in `Invocation`.
* `pc`, `job`: where each invocation is in `run()` and its local variables
  (the snapshot, `_recovered_by_commit`, the lists it works through).
* `calendar`: every submission ever accepted, whether or not the program
  learned of it. The code has no such variable; properties need it.
* `proofCommit`: `ots.proofCommit`. A run keeps the value it read (`job.keep`).

| `run()` | Actions |
|---|---|
| lock, snapshot, refusals | `Acquire` `TakeSnapshot` `RefuseReplay` `RefuseState` |
| in-flight scan (401-497, 549-557) | `Scan` |
| nothing due, nothing in flight (557-768) | `AdoptLegacy` `BeginCompletion` `CompleteTag` `PassOver` `FailInconsistent` `FinishCompletion` |
| selection loop (778-828) | `Recover` `FailSelected` `BeginSubmit` `Submit` `SubmitFails` `PersistProof` `PersistManifest` `PersistFails` `FinishSelection` |
| proof commit (830-844) | `CheckDurable` `Stage` `StageFails` `Commit` `CommitRefused` `CommitVetoed` |
| tags (846-856) | `TagNext` `FinishRun` |
| a kill at any step | `Crash` |

| `repair_missing_tags` | Actions |
|---|---|
| lock; HEAD, tags and proof files read once each | `AcquireForRepair` `Survey` |
| one stored proof: passed over, or tagged from its manifest | `RepairPassesOver` `RepairTag` |
| the report, exit 5 if a proof has no manifest | `FinishRepair` |

`CommitRefused` is what `git commit -- paths` itself refuses: a path that is
neither in the index nor in HEAD, or nothing to change (`CanCommit`).

The developer's actions are `DevCommit` (with and without `git add -A`),
`DevAmend`, `DevReset`, `DevMerge`, `DevDrop` and `DevClean`;
`EnableProofCommit` is the operator's change of configuration.

### The upgrade pass

In `ProofUpgrade` a stored proof is the set of calendars whose completed
attestation it holds. `history` keeps of a commit its kind (`upgrade` only if
the message is exactly the tool's), both trailers, whether it changes anything
besides proofs, whether it is signed, and the proofs in its tree; `remote` is
the remote-tracking ref, `filed` what the calendars have ready.

| `upgrade_proofs` | Actions |
|---|---|
| refusals, classification, comparison with HEAD (457-523) | `Scan` |
| one candidate: client, collection, rewrite (590-616) | `Collect` `ClientFails` |
| nothing to record (620) | `FinishPass` |
| squash target (625-639) | `FindTarget`, by `MaySquash` |
| staging (640) | `StagePaths` |
| a new commit (642-649) | `CreateUpgradeCommit` `NothingToCommit` |
| `check_head`, amend, index-lock retry | `CheckHead` `Amend` `AmendContended` |
| a kill, a rejected hook, a held lock at any step | `Interrupt` |

`check_head` and `--amend` are two steps, as in the code. Between passes
`git ots run` stores a proof and commits it (`RunCommits`), or stores it and
leaves it uncommitted (`RunStores`: killed, or `ots.proofCommit` off). The
developer commits, amends unpushed commits, pushes and reconfigures at any
time; resets and restored proofs happen between passes only, because
`docs/configuration.md` asks for no concurrent mutation and a proof replaced
during the network calls is overwritten.

### The proof tree

In `ProofTree` the stored proof is its bytes: `file` is what is on disk and
`committed` what HEAD holds, sequences of tokens (a fork marker, an attestation,
an operation). `filed` is what each calendar has to say about the commitment it
was given.

| Code | Definitions |
|---|---|
| `Node.serialize`, `parse_timestamp`, `parse_proof` | `Serialize` `ParseTimestamp` `ParseProof` |
| `merge_node` | `MergeNode` `MergeItem` |
| `collectible_calendars`, `_collect_from_calendars` and its refusal | `CollectibleCalendars` `CollectFrom` `Attested` |
| `describe_anchors`, `_walk` | `DescribeAnchors` `Anchors` |
| `_is_additive_upgrade` | `IsAdditiveUpgrade` |
| one candidate of a pass; recovery and commit | `Upgrade` `Commit` |
| `ots upgrade`, the calendars (external) | `ClientUpgrade` `CalendarFiles` |

A pass that dies before its commit is an `Upgrade` without `Commit`, and the
next one starts from what it left. The client replaces a promise by the answer
to it, the direct collection keeps the promise; this is why
`_is_additive_upgrade` compares the completed attestations only.

### The process around a command

`Invocation` has two locks per `run`, one per `upgrade` and `repair`
(`Instance`), a main thread (`pc`), the worker of the client's call (`worker`),
the client itself (`child`), whether `terminate_active_child` can reach it
(`active`), and the Git index (`index`).

| Code | Actions |
|---|---|
| `cli.py` and `run_orchestration`: `with RepositoryLock` | `Start` `EnterLock` `LockedOut` `Close` `Unwind` `Exit` |
| the command's own work, the push after it | `Decide` `PushEnds` |
| `_default_runner`, `on_spawn`, `on_exit`, its deadline | `Spawn` `RegisterChild` `Collect` `WorkerExpires` |
| `_invoke`: answer, deadline, Ctrl-C | `CallReturns` `CallExpires` `InterruptWait` `InterruptInline` |
| `run_with_index_lock_retry` around `git add`, `git commit` | `AttemptGit` `Contend` `GitEnds` `GitKilled` |
| surroundings | `InterruptElsewhere` `Kill` `ChildEnds` `OthersUseIndex` |

Without a time limit the main thread takes the worker's steps itself; the actions
are the same, and `InterruptInline` replaces `InterruptWait`.

### The trigger keys

`TriggerScopes` has `store`, Git's configuration by scope and key. A command reads
it in two steps, as the code does in several subprocesses: all value keys at once
(`ReadValues`), the boolean key later (`ReadBooleans`, which also assembles the
result by `ResolveTriggers`). `Edit` is the operator's `git config`, at any
time, also between the two. `torn` records whether that happened.

### Abstractions

* Time is a number; the daily schedule is its multiples of `FixedPeriod`.
  Submission times have the clock's resolution, one tick (a second in the code).
* A file that exists is complete and belongs to the source in its name: the code
  renames files into place and rejects anything else. Corrupt or forged
  files, and malformed tags and manifests, do not occur.
* All reads of one step happen together. The steps are cut where another party's
  write, or a kill, between them can matter.
* A failure of `git add`, or of the tag signer, has the effect of a kill at the
  same step and is left to `Crash`; a failing `git commit`, whether hook, signer
  or an index lock held past the retry window, is `CommitVetoed`.
* Fetching before a run and pushing after it are left out: a fetch moves the
  lineage the way `DevReset` and `DevMerge` do, a push only publishes.
* Tags and submissions are never deleted.
* `git add` and `git commit` of one run are one use of the index in `Invocation`,
  a command calls the client once, and a second Ctrl-C during the unwinding of the
  first is left out. `ots.gitTimeout` is on (0, its absence, would let a hook block
  a command for ever).
* A file that Git tracks is deleted by `DevDrop` and `DevClean` through Git, never
  behind its back; `ClaimsBacked` rests on it (`Layered`).
* In `TriggerScopes`, two boolean keys read in one step are one; the value of a key
  is whether it parses.
* In `ProofTree`, the path of operations to a node stands for the message there,
  which is the key calendars answer by. A calendar files one answer, not one per
  commitment, and an answer that names another calendar's promise has the block
  below it: a promise met only in an answer is never asked about. Sizes, the depth limit, malformed bytes
  and operations that cannot be executed (`keccak256`) are left out; an answer
  has no operation twice in one node. `ots.proofCommit` is on.
* In `ProofUpgrade`: every attestation is a Bitcoin one, so the client's answer
  and the collection's are one set; a pass reads the proof directory, HEAD and
  the squash conditions of one commit each in one step; a manifest is there
  whenever its proof is (others are skipped and left alone); no commit at HEAD
  is a merge; `commit.gpgsign` is unset, only `ots.signing` signs; HEAD is a branch
  and no merge or rebase is in progress (`assert_committable_state`), so that a
  pass is refused only for an unclean working tree.

## 3. Runs

The runs `crash` to `live`, `open_tag`, `tag_tie`, `two_rules` and `repair_early`
instantiate `MCOtsRun`. Bounds: `MaxDev` developer actions, `MaxTime` clock ticks,
`MaxFaults` failures and kills together, `Proc` for the invocations that may
overlap. A process runs any number of times, so the number of runs is bounded
only by there being something left to change.

| Run | Instance | Checks | Shows |
|---|---|---|---|
| `crash` | every_commit, proof commits, repairs; commit, amend, clean, 2 actions; 2 faults anywhere | `TypeOK` `TagsTruthful` `NothingLeftInFlight` `LateTagsReopenNothing` `Ledger` | recovery across two interruptions, by runs and repairs, keeps tags truthful, ends in success only with everything in flight recorded or deferred, has nothing stamped again for a tag that comes late, and implements `StampLedger` |
| `schedule` | fixed_time over a schedule day, proof commits switched on later; commit, amend, drop, clean, 3 actions; 1 fault | `ClaimsBacked` `ClaimedOnce` `NothingInFlightAtSubmit` `NoResubmission` `Converged` `OccurrenceOnce` | generated commits are consistent, nothing is paid twice, an occurrence stamps once and running twice stamps once while history is edited |
| `lineages` | max_age, proof commits; commit, amend, reset, merge, 3 actions; 1 fault | `TagsBacked` `ClaimsBacked` `NothingLeftInFlight` | HEAD jumping between lineages during a run leaves nothing in flight behind a success and empties no claim |
| `live` | every_commit, proof commits, 2 processes; 1 fault; fairness | `Exclusive` `TagsDurable` `EventuallyCovered` | overlapping schedulers exclude each other, tags come after their commits, and everything is covered in the end |
| `upgrade` | 2 sources, 1 calendar; squashing with and without signing, `proofCommit` off, clean worktree required; all developer actions, 2 of them; 1 fault; fairness | `TypeOK` `AttestsNoLess` `FoldsOnlyItsOwn` `FastForwards` `RecordsRefreshes` `EventuallySettled` | passes lose no attestation, no record, nobody's commit and no fast-forward, and bring everything filed into HEAD |
| `invocation` | 2 processes, any command, with and without a limit, retry window 3, pauses up to 2; fairness | `TypeOK` `WorksUnderLock` `LockedOutByOthers` `LeavesNoClient` `EventuallyEnds` | work is done under the lock, a command is locked out only by another process, no registered client survives its command, and commands end |
| `tree` | 2 calendars, 4 answers, 4 filings, 1 commit | `TypeOK` `ReadsBack` `CollectsExactly` `MergesOnce` `AlwaysRecognised` `Credited` | collecting adds exactly what was answered, a second time nothing; what is written is read back; interrupted upgrades are recognised; every anchor is credited to the calendars it came through |
| `config` | 3 scopes, 5 edits | `TypeOK` `ResolvesGroup` `RejectsOnlyAmbiguous` `OneScopeDecides` | one scope decides, as a group, and only the ambiguous is refused |
| `open_tag` | kill before the tag | `OpenTransactionFirst` violated | see findings |
| `tag_tie` | every_commit without proof commits | `Converged` violated | see findings |
| `two_rules` | max_age and fixed_time together | `OccurrenceOnce` violated | see findings |
| `repair_early` | kill before the proof commit, then repair | `TagsDurable` violated | see findings |

Why the bounds are enough: every hazard listed needs one interruption, one
developer action while a run is under way and one more run; two faults (`crash`)
allow an interruption of the recovery itself, and three developer actions
(`schedule`, `lineages`) allow a change before, during and after a run and
batches of several commits. One process suffices for the safety runs because
the lock, checked with two processes and proved for any number, makes
overlapping runs sequential. `MaxTime` is chosen so that every trigger is once
not due, due and satisfied (`schedule`: a whole day of two ticks, and the next
occurrence). Between them the passing runs take every action of `Next`. A run with nothing due is
itself a sequence of steps, so the system never deadlocks and the deadlock
check stays on.

In `upgrade`, two sources let one fold absorb another's record, one calendar
suffices because what is lost is an attestation, not a combination of them, and
two developer actions allow a proof to be put back and committed, or a commit
to arrive in a pass and another before it. Without a stored proof, or with a
clean worktree required and a dirty one, no command can do anything; this is
why `upgrade` does not check for deadlock.

In `invocation`, two processes are enough for a lock that one holds and one
wants; a process starts any number of commands. A window of 3 with pauses of 1
and 2 has every kind of last attempt: time left for a full pause, for a shorter
one, for none. In `tree`, the four answers are a Bitcoin block, another block by
the same way, another chain both at the commitment and below it, and a promise
of the second calendar with a block below it: a merge meets new and known
attestations, new and known operations, and two promises on one path. Four
filings let both calendars answer and both revise; one commit separates what
HEAD holds from what later passes left.

In `config`, three scopes allow a key in the deciding scope, in a wider and in a
narrower one; five edits set a trigger pair there, something in another scope,
and change something between two reads.

What the code does not promise is excepted in the properties themselves: a
commit that lands between `check_head` and the amend is rewritten (`AsChecked`),
a push that lands after the published check is not seen (`job.seen`), both
acknowledged in `docs/configuration.md`; `AttestsNoLess` is about the HEAD that
was scanned. `EventuallySettled` excludes a required clean worktree, under which
an interrupted pass blocks later ones until somebody commits or stashes, and
proofs that HEAD does not hold.

`NothingLeftInFlight` is about runs and repairs during which nobody commits
anything new, and leaves out what a run defers itself (`Deferred`): a run that
finds earlier work to finish puts its own decision off to the next one, together
with whatever the decision's sources have on disk (see findings).

`TagsDurable` asks for the tag's own proof and manifest in some commit;
`TagsBacked` is the weaker form that holds even if HEAD is reset while a run is
under way.

### Fairness

`FairSpec` adds that some scheduler keeps starting runs
(`WF_vars(\E p : Acquire(p))`; cron, systemd or CI call `git ots run` for ever,
see `docs/configuration.md`) and that a started run takes its next step
(`WF_vars(Step(p))`; calls to `ots` and `git` are bounded by timeouts). Nothing
is assumed of failures, kills or developers, which are bounded by `MaxFaults`
and `MaxDev`: liveness is about what happens once they stop. `ProofUpgrade`'s
`Spec` assumes the same of passes (`WF_vars(PassStep)`, hourly in
`.github/workflows/upgrade-proofs.yml`).

`Invocation`'s `FairSpec` assumes only that the operating system keeps running the
two threads of a process (`WF_vars(Main(p))`, `WF_vars(Call(p))`). The client may
never end, other programs may hold the index for ever, a stale `index.lock` may
stay: `EventuallyEnds` rests on the deadlines alone, so it is about commands that
have one (`limited`; without a limit a hanging client hangs the command).

### Limits of the safety properties

The following are not promised by the code, and were found by TLC to be false
outside the instances above:

* With `git reset --hard` during a run, `TagsDurable`, `NoResubmission`,
  `NothingInFlightAtSubmit` and `Converged` fail: `paths_are_committed` asks
  whether paths exist in HEAD's tree, not what they hold, and a source whose
  only record is on another lineage is rightly unknown on this one.
  `NothingLeftInFlight` is proved without it, and checked with it in `lineages`
  only.
* A run looks for a proof on disk only. Where the file went and a tag or a claim
  stays, `NoResubmission` can fail under every_commit, for the baseline does not
  always cover every stamped source of a batch: after `git rm` of a committed
  proof, after `git clean` with proof commits off, and after `git clean` of
  proofs that a repair has tagged and no run has committed. `PaidOnce`
  (section 4) excludes these three and nothing else.
* Under every_commit with merges, `ClaimedOnce` can fail. When the newest source of
  a batch, above a merge, is amended away before the proof commit, the baseline
  becomes a source on one of the merged lineages; those on the other are
  selected again, recovered from disk and not paid for again, but claimed by a
  second proof commit.
* With `git clean` in the middle of an every_commit batch, `ClaimedOnce` and
  `Converged` can fail: a source submitted again has a later time than the rest
  of its batch and becomes the baseline, and newer sources that are already
  recorded are selected and claimed again.
* A kill between `persist_proof` and `persist_manifest` leaves a proof without
  manifest; every later run that would select its source fails (exit 5) until
  somebody removes the proof by hand, although `specs/spec.md:1138` asks the tool
  to tolerate interruption between operations. `live` therefore excludes that one
  crash point.
* A tag does not look at HEAD again. When HEAD is amended or reset after a run or a
  repair has frozen its source (`repair.py:126`), the tag it makes then
  (`repair.py:220`) is for a commit HEAD no longer has; if the new lineage has no
  stamp, every later every_commit run refuses it as rewritten history, although
  the docstring of `repair_missing_tags` (`repair.py:101-107`) skips sources off the
  frozen lineage in order not to "move policy ground under the operator". No
  property here excludes it.
* `LateTagsReopenNothing` is about submissions made in the order of their sources
  (`SubmittedInOrder`). When the proof of an older source is cleaned away and the
  source submitted again after a newer one, or HEAD goes back to a commit and
  forward again, or lineages are merged, the latest stamp is not the one with the
  most below it: whoever tags it, a run or a repair, makes newer sources that have
  a stamp pending again under every_commit. Within a batch, where all times are one,
  the object ids decide (`tag_tie`); that tie is left out too.
* A repair tags what no commit holds yet (`repair_early`); `TagsDurable` and
  `TagsBacked` are checked and proved where nobody calls it.
* A client interrupted between `Popen` and `on_spawn` is not registered, and
  `terminate_active_child` cannot reach it: it outlives the command and may still
  submit. `LeavesNoClient` is about registered ones.
* A configuration edited between the reads of one command can give a policy that
  was in force at no single moment, though never one of two scopes.

### Findings

1. `open_tag`. The documentation promises that a run finishes an interrupted
   transaction before starting a new one. A transaction interrupted between the
   proof commit and the tag is finished only by a run with nothing due. When
   something is due, the baseline moves on and the older source keeps no tag
   until `git ots repair`.
2. `tag_tie`. The tags of an every_commit batch share one submission time. The
   tag baseline breaks the tie by object id instead of position in history, so
   the newest stamped commit can be selected again.
3. `two_rules`. Whether a fixed_time occurrence is satisfied is read from the
   newest baseline only; a later max_age stamp hides an earlier fixed_time one.
4. `repair_early`. A tag is said never to exist before the proof commit. After a
   run that did not get to commit, `git ots repair` creates it, and since the
   source then counts as tagged, no later run commits its proof.

`PROJECT.json` quotes the documentation line of each. Met on the way, without a
run of their own:

* `specs/spec.md:1656-1659` says that an upgrade commit names sources an earlier
  proof commit claims. A pair left uncommitted by an interrupted run, or by a time
  with `ots.proofCommit` off, is upgraded all the same, and its `.ots` file is
  committed without its manifest and before any claim (`upgrade.py:498-502`).
* `specs/spec.md:2015` wants every value present in any scope validated; only the
  winning value of each key is, a malformed one in a wider scope goes unnoticed.
* `specs/spec.md:1216-1221` says that before acting on its decision a run commits
  and tags every source in flight. `_in_flight_sources` leaves out the sources of
  the decision, "because the main loop already resumes them"
  (`orchestration.py:436-438`), but when others are in flight the decision is
  deferred and the main loop is not reached. A batch of three is stamped and
  killed before its proof commit; a repair, which goes in the order of object
  ids, tags the middle source and is killed; the next run decides for the newest
  one, finds the oldest in flight, records that and reports success, with the
  newest still on disk only. The run after it takes it up.
* A `timezone` in a scope narrower than the deciding one is discarded or refused
  depending on what else is set there (`RejectsOnlyAmbiguous`, `Hidden`).

## 4. Proofs

The theorems hold for every value of the constants: policies, processes, faults,
crash points, developer actions, scopes, windows, bounds.

| Module | Theorem | States |
|---|---|---|
| `OtsRun_proofs` | `TypeCorrect` | `Spec => []TypeOK` |
| | `MutualExclusion` | `Spec => []Exclusive` |
| | `Truthful` | `Spec => []TagsTruthful` |
| | `Implementation` | `Spec => Ledger`: runs and repairs implement `StampLedger` |
| `OtsRunBacking_proofs` | `ClaimsAreBacked` | `Spec => []ClaimsBacked` |
| | `TagsAreBacked` | `Spec => []TagsBacked`, if nobody calls repair |
| | `NothingReopened` | `Spec => LateTagsReopenNothing`, if object ids are ordered and unique |
| | `OccurrenceTaken` | `Spec => OccurrenceOnce`, if they are ordered, and fixed_time is not combined with max_age |
| `OtsRunRecovery_proofs` | `PaidForFirst` | `Spec => NothingInFlightAtSubmit`, if HEAD is never reset |
| | `PaidOnce` | `Spec => NoResubmission`, if HEAD is never reset, no proof is removed from the repository, and proof files are not cleaned away where proof commits may be off or repairs are run |
| | `NothingStranded` | `Spec => NothingLeftInFlight`, if HEAD is never reset |
| `OtsRunClaims_proofs` | `ClaimedAtMostOnce` | `Spec => []ClaimedOnce`, if HEAD is never reset and nobody merges, and, under every_commit, the whole initial history is stamped and no proof file is removed |
| | `TagsAreDurable` | `Spec => []TagsDurable`, if HEAD is never reset and nobody calls repair |
| `OtsRunConverged_proofs` | `RunsConverge` | `Spec => Converged`, if proofs go into commits, HEAD is never reset, nobody merges or calls repair, and the policy is fixed_time alone, max_age alone with no committed proof removed, or every_commit with the whole initial history stamped and no proof file removed |
| `ProofUpgrade_proofs` | `TypeCorrect` | `Spec => []TypeOK` |
| | `LosesNothing` | `Spec => AttestsNoLess` |
| | `FoldsItsOwn` | `Spec => FoldsOnlyItsOwn` |
| | `StaysForward` | `Spec => FastForwards` |
| | `KeepsTheRecord` | `Spec => RecordsRefreshes` |
| `Invocation_proofs` | `TypeCorrect` | `Spec => []TypeOK` |
| | `UnderLock` | `Spec => []WorksUnderLock` |
| | `NotByItself` | `Spec => LockedOutByOthers` |
| | `NoClientLeft` | `Spec => LeavesNoClient` |
| `TriggerScopes_proofs` | `TypeCorrect` | `Spec => []TypeOK` |
| | `OneScope` | `Spec => []OneScopeDecides` |
| | `NarrowestScopeDecides` | `Spec => []ResolvesGroup` |
| | `RefusesNothingElse` | `Spec => []RejectsOnlyAmbiguous` |

Assumptions: the named ones of the modules (`PolicyAssumption`, `RepoAssumption`,
`RunAssumption`, `CrashAssumption`, `UpgradeAssumption`, `LockAssumption`,
`WindowAssumption`, `InstanceAssumption`, `ScopeAssumption`, `AbsentStamp`). They
say that constants are of the right kind, that `None` is none of the values it
is used beside, that a process has the two lock objects of `run`, and that Git
has five scopes. `TagsAreBacked` also
assumes `~Repairs`; without it the statement is false (`repair_early`).

The other hypotheses are part of their theorems. `IdsOrdered` says that object ids
are compared as numbers; it is about all of `Nat` and so cannot be an ASSUME that
TLC evaluates. The rest are about what happens around git-ots (`DevActions`,
`ProofCommit`, `Repairs`) or which rules are set, and each leaves out what the
statement is not meant for or false under: a reset takes the record of a source
out of the history the run looks at, `git rm` and `git clean` delete the evidence
that recovery works from, a repair tags before the commit (`repair_early`), and
two rules hide each other's stamps (`two_rules`; only max_age next to fixed_time,
since every_commit leaves nothing for another rule to decide). `NothingReopened`, and
`RunsConverge` under max_age, need also that no two commits have one object id
(`IdsUnique`). On merged lineages, one baseline need not cover everything recorded (see Limits). Two parts of `ClaimedAtMostOnce`, and of `RunsConverge` with it, are
only what the proof needs: without every_commit TLC found no counterexample with
merges, and none with every_commit and `ots.initialHistory` = latest. Commits and
amends stay allowed in all of them, merges in the others, and so do kills and failures
anywhere.

The argument:

* `TypeOK` is not inductive: a run submits for `Min(job.todo)`, which is a
  commit only if something is left, and reads `Tree(job.src)`, which exists only
  if the source is in the history. `JobsConsistent` says both. With the fact
  that history only grows (`HistoryGrows`) the conjunction is inductive.
* `Exclusive` follows from `LockHeld`: an invocation is past the lock exactly
  when it holds it. Every end of a run, `Crash` included, releases it.
* `TagsTruthful` needs the origin of every stamp that can become a tag.
  `StoresAttested` says that every manifest in the working tree, the index and
  any commit is an accepted submission; `JobsAttested` says the same of the
  recovered evidence of each run, and of each stamp a run at a given step is
  about to write. The delicate case is `StampStable`: recovering more evidence
  after a source was processed may change the stamp the run gives it, and then
  to one that is itself accepted.
* `Ledger` needs these three: each step maps to `Take`, `Accept`, `Tag`, `Leave`
  or a stutter. That the stamp tagged was accepted comes from the attested jobs,
  that the step is the holder's from `LockHeld`.
* `ClaimsBacked` rests on `Layered`: what HEAD's tree has is in the index, and
  what the index has is on disk. A generated commit claims what it has just
  staged; every other commit is made from a tree that contains the one before
  it or claims nothing new. `LineagesExist` keeps ancestors among the commits.
* `TagsBacked` rests on `ClaimsBacked`, since a missing tag may be completed on
  the word of a claim; on `JobsBacked`, by which a run about to tag has its
  sources in a commit; and on `KeptThroughout`, by which it keeps proofs in
  commits at all.
* `LateTagsReopenNothing` and `OccurrenceOnce` are about the newest stamp of a
  lineage, so they need that there is one: `NewestOfTop`, by an argument about
  finite sets with an order (`SomeTop`). With one tag more (`OneMore`) the baseline
  keeps its source, is a later stamp, or is the new tag at the time of an older
  tag. Since tags and manifests are all accepted submissions (`StoresAttested`),
  the order of the submissions puts the source of the later stamp above that of
  the earlier, and by `Lineal` its lineage holds the other's. For the occurrence,
  `ScheduleOnly` says that every stamp there is was fixed_time's, and
  `OccurrenceOpen` that between the snapshot and the submission nobody else tags
  the lineage, since the run holds the lock.
* `NothingInFlightAtSubmit` and `NoResubmission` rest on `OnlyOwn`: a run that
  submits has seen nothing in flight besides its decision, and the source at its
  turn has no proof on disk. `Accrues` makes this enough, what any commit has
  being in HEAD, in the index and on disk; `Present` says that what is tagged is
  on disk as well.
* `TagsDurable` asks for the very manifest in a commit. `OneManifest` says that
  there is one per source on disk, `JobsFaithful` that a run knows no other stamp
  of it, from recovery to the tag, and by `Stacked` (HEAD's files are in the index,
  the index's on disk) what HEAD holds of the source is this one. Where committed
  files are removed, a missing tag could still be completed from a manifest that
  replaced the one HEAD had; that no run replaces it is part of the next argument.
* `ClaimedOnce` says that the filter on pending commits is complete: a run takes
  up nothing that a proof commit below it claims (`JobsUnclaimed`). The filter is
  a baseline, so this is about its position. What HEAD's lineage claims, and is on
  disk, is a pair in HEAD's tree (`ClaimsOnRecord`, with `Chained`: a lineage is a
  chain), so its manifest is one of those the baseline was chosen from
  (`NewestProof`). The newest submission is the one for the newest source
  (`InOrder`); hence nothing claimed is above the baseline. `InOrder` has two
  reasons. Without every_commit a run decides for the newest commit alone
  (`DecidesForTop`), which nothing can have been submitted above, because commit
  times are in the order of the commits (`TimesOrdered`) and HEAD never goes back
  (`Topped`, `HeadIsNewest`). With it, everything below a submitted source has its
  proof on disk (`Gapless`), so what is still to be submitted is above.
* `Converged` compares two decisions, of the run and of `build_snapshot` right after
  it. With nobody else's commits between, the newest commit of the developer's is
  the same for both (`Topped`). If the run decided for it, it is tagged at the end
  (`JobsCarried`: a decision that is not deferred stays on a list of the run until
  it is tagged), so its pair is in some commit, and then in HEAD's tree
  (`TopRecorded`: nothing any commit recorded above HEAD's newest is lost to HEAD).
  By `TreesPast` that makes HEAD a generated commit, by `InOrder` the newest
  manifest is the newest commit's, and nothing is pending above it. If the run did
  not decide for it, the baseline it read is still a baseline (`JobsDecided`):
  either that already was the newest commit's, or no rule was due. Under
  fixed_time alone a baseline at least as late keeps it so (`ScheduleOnly`); under
  max_age alone one that is no older a source does, and a run that decided for
  nothing tags nothing below its baseline (`JobsSettled`).
* `NothingLeftInFlight` follows from `JobsAccounted`: what was in flight when the
  run or the repair looked, is not deferred, and not in HEAD's tree by now, is
  on its list at every step. A list is about the frozen source, success about
  HEAD: `StoresMeaningful` (proofs are of commits that are not generated) and
  `ProofsKept` (generated commits keep the proofs below them) close the gap.
* `AttestsNoLess` follows from `Gains`: for every source a pass may commit, the
  proof on disk has kept what the scan read, and that what HEAD held. Only a
  pass writes proofs while one is under way, and it only adds; a developer's
  older proof is met by the scan or comes after the pass.
* The other three about upgrades follow from `Approved`: when a pass is about to
  fold, its target still is a commit of the tool's own and not among those seen
  as published, and its message takes up all that HEAD's message names. Commits
  never change once made, so only the step that finds the target has to
  establish it. `Lineages` gives that what a fold takes away is one commit.
* `WorksUnderLock` and `LockedOutByOthers` follow from `Counted` (the registry's
  count is the number of lock objects held), `Owned` (whose count is positive
  holds the file lock) and `HeldByPlace` (what is held follows from the place in
  the command); `LeavesNoClient` from `Registered` (a client is registered
  exactly while its worker waits for it).
* The four of `TriggerScopes` follow from `TypeOK` and `Fresh` (until the
  configuration changes, the entries read are those in it) by reasoning about
  maxima of sets of scopes.

The lemmas follow the phases of `run()`: one per phase and invariant, one for
everything the developer does. TLC checked each part of the inductive invariants
on the instances of the runs, or on one that meets a theorem's hypotheses, before
they were proved.

Only model-checked:

* The theorems about runs outside their hypotheses: `NothingLeftInFlight` under
  reset in `lineages`, `Converged` where proof commits are switched on later in
  `schedule`.
* Liveness (`EventuallyCovered`, `EventuallySettled`, `EventuallyEnds`), which with
  ENABLED is outside TLAPS.
* `ProofTree`: it is recursion over trees of any depth, for which TLAPS has neither
  RECURSIVE operators nor the induction. It is the only module that declares
  any, and no module with a theorem uses it.

## 5. Not modelled, and the plan

Left out for good: byte lengths, header checks and printing, exit codes beyond
success and failure, network probes and reports (`servers.py`, `verify.py`, the
Bitcoin transactions of `anchors.py`), which change no state and depend on no
other party's steps; the parsers of the single configuration values; CI
workflows. Time zones and daylight saving are library code; the schedule is a set
of instants.

What is left, in this order:

1. `ClaimedOnce` with merges where every_commit is off, and with `ots.initialHistory`
   = latest: TLC found no counterexample, the proof of `InOrder` needs both away.
2. More policy lemmas, beside `PolicySelects` (selected commits are pending): an
   empty decision for an empty backlog; a satisfied occurrence is not due.
3. `Recovered` and `Owed` of `ProofUpgrade` stated as abstractions of
   `ProofTree`'s `IsAdditiveUpgrade` and `CollectFrom`, checked by TLC.
