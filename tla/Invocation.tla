----------------------------- MODULE Invocation -----------------------------
(***************************************************************************)
(* The process around a command: the repository lock it takes once or      *)
(* twice, the OpenTimestamps client it starts and gives up on, the Git     *)
(* index it competes for with other programs, Ctrl-C, and its end.  What   *)
(* the commands do to the repository is in OtsRun and ProofUpgrade.        *)
(*                                                                         *)
(* With a time limit the client is run by a worker thread while the main   *)
(* thread waits for it; both have the limit as their deadline.  Without    *)
(* one the main thread takes the worker's steps itself.                    *)
(***************************************************************************)
EXTENDS RepositoryLock

CONSTANTS
    RetryWindow,    \* time a run waits for .git/index.lock, 0 for not at all
    MaxBackoff      \* the longest pause between two attempts

ASSUME WindowAssumption == RetryWindow \in Nat /\ MaxBackoff \in Nat \ {0}

ASSUME InstanceAssumption == Instance = {"command", "transaction"}

VARIABLES
    cmd,            \* the command of each process
    limited,        \* has it a time limit for the client (ots.otsTimeout)?
    pc,             \* where its main thread is
    worker,         \* where its call of the client is
    child,          \* the client it started last
    active,         \* _active_child_pgid: is the client registered?
    index,          \* who holds .git/index.lock
    left,           \* what remains of the retry window
    backoff,        \* the next pause
    ended           \* how the process's last command ended

procVars == <<cmd, limited, pc, worker, child, active, index, left, backoff, ended>>
vars == <<lockVars, procVars>>

Commands == {"run", "upgrade", "repair"}

TypeOK ==
    /\ LockTypeOK
    /\ cmd \in [Proc -> Commands]
    /\ limited \in [Proc -> BOOLEAN]
    /\ pc \in [Proc -> {"off", "command", "transaction", "work", "call", "index",
                        "git", "close", "push", "unwind"}]
    /\ worker \in [Proc -> {"none", "starting", "spawned", "waiting", "answered", "failed"}]
    /\ child \in [Proc -> {"none", "running", "exited", "killed"}]
    /\ active \in [Proc -> BOOLEAN]
    /\ index \in Proc \cup {None, "other", "stale"}
    /\ left \in [Proc -> 0..RetryWindow]
    /\ backoff \in [Proc -> 1..MaxBackoff]
    /\ ended \in [Proc -> {"none", "ok", "failed", "locked", "killed"}]

Init ==
    /\ LockInit
    /\ cmd = [p \in Proc |-> "run"]
    /\ limited = [p \in Proc |-> TRUE]
    /\ pc = [p \in Proc |-> "off"]
    /\ worker = [p \in Proc |-> "none"]
    /\ child = [p \in Proc |-> "none"]
    /\ active = [p \in Proc |-> FALSE]
    /\ index = None
    /\ left = [p \in Proc |-> RetryWindow]
    /\ backoff = [p \in Proc |-> 1]
    /\ ended = [p \in Proc |-> "none"]

At(p, place) == pc[p] = place

Goto(p, place) == pc' = [pc EXCEPT ![p] = place]

Fail(p) ==
    /\ Goto(p, "unwind")
    /\ ended' = [ended EXCEPT ![p] = "failed"]

-----------------------------------------------------------------------------
(* The command and its locks *)

(* A process starts; its limit is read from the configuration.  (A client  *)
(* that an earlier process of this name left behind has ended by now.)     *)
Start(p) ==
    /\ At(p, "off")
    /\ child[p] # "running"
    /\ \E c \in Commands, b \in BOOLEAN :
         /\ cmd' = [cmd EXCEPT ![p] = c]
         /\ limited' = [limited EXCEPT ![p] = b]
    /\ Goto(p, "command")
    /\ left' = [left EXCEPT ![p] = RetryWindow]
    /\ backoff' = [backoff EXCEPT ![p] = 1]
    /\ ended' = [ended EXCEPT ![p] = "ok"]
    /\ UNCHANGED <<lockVars, worker, child, active, index>>

(* The lock around the command; run_orchestration takes it again. *)
EnterLock(p) ==
    /\ \/ /\ At(p, "command")
          /\ AcquireLock(p, "command")
          /\ Goto(p, IF cmd[p] = "run" THEN "transaction" ELSE "work")
       \/ /\ At(p, "transaction")
          /\ AcquireLock(p, "transaction")
          /\ Goto(p, "work")
    /\ UNCHANGED <<cmd, limited, worker, child, active, index, left, backoff, ended>>

LockedOut(p) ==
    /\ pc[p] \in {"command", "transaction"}
    /\ Busy(p)
    /\ Goto(p, "unwind")
    /\ ended' = [ended EXCEPT ![p] = "locked"]
    /\ UNCHANGED <<lockVars, cmd, limited, worker, child, active, index, left, backoff>>

(* Under the lock: nothing to do, a refusal, or a call of the client. *)
Decide(p) ==
    /\ At(p, "work")
    /\ \/ Goto(p, "close") /\ UNCHANGED <<worker, ended>>
       \/ Fail(p) /\ UNCHANGED worker
       \/ /\ cmd[p] # "repair"
          /\ Goto(p, "call")
          /\ worker' = [worker EXCEPT ![p] = "starting"]
          /\ UNCHANGED ended
    /\ UNCHANGED <<lockVars, cmd, limited, child, active, index, left, backoff>>

(* The transaction's block ends; `run` may push before the command's does. *)
Close(p) ==
    /\ At(p, "close")
    /\ IF cmd[p] = "run"
       THEN ReleaseLock(p, "transaction") /\ Goto(p, "push")
       ELSE Goto(p, "unwind") /\ UNCHANGED lockVars
    /\ UNCHANGED <<cmd, limited, worker, child, active, index, left, backoff, ended>>

PushEnds(p) ==
    /\ At(p, "push")
    /\ Goto(p, "unwind")
    /\ \E how \in {"ok", "failed"} : ended' = [ended EXCEPT ![p] = how]
    /\ UNCHANGED <<lockVars, cmd, limited, worker, child, active, index, left, backoff>>

(* The with blocks still open are left, the inner one first. *)
Unwind(p) ==
    /\ At(p, "unwind")
    /\ \/ ReleaseLock(p, "transaction")
       \/ "transaction" \notin holding[p] /\ ReleaseLock(p, "command")
    /\ UNCHANGED procVars

(* The interpreter exits without waiting for the worker, a daemon thread. *)
Exit(p) ==
    /\ At(p, "unwind")
    /\ holding[p] = {}
    /\ LockGone(p)
    /\ Goto(p, "off")
    /\ worker' = [worker EXCEPT ![p] = "none"]
    /\ active' = [active EXCEPT ![p] = FALSE]
    /\ UNCHANGED <<cmd, limited, child, index, left, backoff, ended>>

-----------------------------------------------------------------------------
(* The call of the client: _default_runner, in the worker or inline *)

(* Popen, with start_new_session: no signal of the terminal reaches it. *)
Spawn(p) ==
    /\ worker[p] = "starting"
    /\ worker' = [worker EXCEPT ![p] = "spawned"]
    /\ child' = [child EXCEPT ![p] = "running"]
    /\ UNCHANGED <<lockVars, cmd, limited, pc, active, index, left, backoff, ended>>

(* on_spawn *)
RegisterChild(p) ==
    /\ worker[p] = "spawned"
    /\ worker' = [worker EXCEPT ![p] = "waiting"]
    /\ active' = [active EXCEPT ![p] = TRUE]
    /\ UNCHANGED <<lockVars, cmd, limited, pc, child, index, left, backoff, ended>>

(* communicate returns, on_exit: a client that was killed has failed. *)
Collect(p) ==
    /\ worker[p] = "waiting"
    /\ child[p] # "running"
    /\ \E how \in {"answered", "failed"} :
         /\ child[p] = "killed" => how = "failed"
         /\ worker' = [worker EXCEPT ![p] = how]
    /\ active' = [active EXCEPT ![p] = FALSE]
    /\ UNCHANGED <<lockVars, cmd, limited, pc, child, index, left, backoff, ended>>

Killed(p) == [child EXCEPT ![p] = IF @ = "running" THEN "killed" ELSE @]

(* The worker's own deadline: kill, reap, raise; on_exit. *)
WorkerExpires(p) ==
    /\ limited[p]
    /\ worker[p] = "waiting"
    /\ child' = Killed(p)
    /\ active' = [active EXCEPT ![p] = FALSE]
    /\ worker' = [worker EXCEPT ![p] = "failed"]
    /\ UNCHANGED <<lockVars, cmd, limited, pc, index, left, backoff, ended>>

(* The call is over before the main thread's deadline. *)
CallReturns(p) ==
    /\ At(p, "call")
    /\ worker[p] \in {"answered", "failed"}
    /\ IF worker[p] = "answered" THEN Goto(p, "index") /\ UNCHANGED ended ELSE Fail(p)
    /\ worker' = [worker EXCEPT ![p] = "none"]
    /\ UNCHANGED <<lockVars, cmd, limited, child, active, index, left, backoff>>

(* terminate_active_child: only a registered client can be reached. *)
TerminateActiveChild(p) == child' = IF active[p] THEN Killed(p) ELSE child

(* Faulty: leaves the kill to the worker's own deadline. *)
CallExpiresTrusting(p) ==
    /\ At(p, "call")
    /\ limited[p]
    /\ worker[p] \notin {"answered", "failed"}
    /\ Fail(p)
    /\ UNCHANGED <<lockVars, cmd, limited, worker, child, active, index, left, backoff>>

(* The main thread's deadline: kill, then raise; the worker goes on. *)
CallExpires(p) ==
    /\ At(p, "call")
    /\ limited[p]
    /\ worker[p] \notin {"answered", "failed"}
    /\ TerminateActiveChild(p)
    /\ Fail(p)
    /\ UNCHANGED <<lockVars, cmd, limited, worker, active, index, left, backoff>>

(* Ctrl-C while the main thread waits for the worker. *)
InterruptWait(p) ==
    /\ At(p, "call")
    /\ limited[p]
    /\ TerminateActiveChild(p)
    /\ Fail(p)
    /\ UNCHANGED <<lockVars, cmd, limited, worker, active, index, left, backoff>>

(* Ctrl-C in the inline call: once inside its try block _default_runner    *)
(* kills the client before on_exit makes it unreachable.  Between Popen    *)
(* and the block nothing does.                                             *)
InterruptInline(p) ==
    /\ At(p, "call")
    /\ ~limited[p]
    /\ \/ child' = Killed(p)
       \/ worker[p] = "spawned" /\ child' = child
    /\ active' = [active EXCEPT ![p] = FALSE]
    /\ worker' = [worker EXCEPT ![p] = "none"]
    /\ Fail(p)
    /\ UNCHANGED <<lockVars, cmd, limited, index, left, backoff>>

-----------------------------------------------------------------------------
(* The index: run_with_index_lock_retry around git add and git commit *)

AttemptGit(p) ==
    /\ At(p, "index")
    /\ index = None
    /\ index' = p
    /\ Goto(p, "git")
    /\ UNCHANGED <<lockVars, cmd, limited, worker, child, active, left, backoff, ended>>

Least(a, b) == IF a <= b THEN a ELSE b

(* Faulty: the window is spent only while sleeping, and a last pause of 0  *)
(* is tried for ever.                                                      *)
ContendForever(p) ==
    /\ At(p, "index")
    /\ index # None
    /\ left' = [left EXCEPT ![p] = left[p] - Least(backoff[p], left[p])]
    /\ backoff' = [backoff EXCEPT ![p] = Least(2 * @, MaxBackoff)]
    /\ UNCHANGED <<lockVars, cmd, limited, pc, worker, child, active, index, ended>>

(* Somebody else has the index.  The attempt took some time of its own;    *)
(* when nothing is left of the window, the error is final.                 *)
Contend(p) ==
    /\ At(p, "index")
    /\ index # None
    /\ \E spent \in 0..left[p] :
         LET remaining == left[p] - spent
         IN  IF remaining = 0
             THEN Fail(p) /\ UNCHANGED <<left, backoff>>
             ELSE /\ left' = [left EXCEPT ![p] = remaining - Least(backoff[p], remaining)]
                  /\ backoff' = [backoff EXCEPT ![p] = Least(2 * @, MaxBackoff)]
                  /\ UNCHANGED <<pc, ended>>
    /\ UNCHANGED <<lockVars, cmd, limited, worker, child, active, index>>

(* Git is done, and done with the index; a hook may have failed. *)
GitEnds(p) ==
    /\ At(p, "git")
    /\ index' = None
    /\ \/ Goto(p, "close") /\ UNCHANGED ended
       \/ Fail(p)
    /\ UNCHANGED <<lockVars, cmd, limited, worker, child, active, left, backoff>>

(* ots.gitTimeout or Ctrl-C: its process group is killed, and may leave    *)
(* .git/index.lock behind.                                                 *)
GitKilled(p) ==
    /\ At(p, "git")
    /\ index' \in {None, "stale"}
    /\ Fail(p)
    /\ UNCHANGED <<lockVars, cmd, limited, worker, child, active, left, backoff>>

-----------------------------------------------------------------------------
(* The surroundings *)

(* Ctrl-C anywhere else in the command. *)
InterruptElsewhere(p) ==
    /\ pc[p] \in {"command", "transaction", "work", "index", "close", "push"}
    /\ Fail(p)
    /\ UNCHANGED <<lockVars, cmd, limited, worker, child, active, index, left, backoff>>

(* SIGKILL or power loss of the tool alone: what it started lives on. *)
Kill(p) ==
    /\ ~At(p, "off")
    /\ LockGone(p)
    /\ Goto(p, "off")
    /\ worker' = [worker EXCEPT ![p] = "none"]
    /\ active' = [active EXCEPT ![p] = FALSE]
    /\ index' = IF index = p THEN "other" ELSE index
    /\ ended' = [ended EXCEPT ![p] = "killed"]
    /\ UNCHANGED <<cmd, limited, child, left, backoff>>

(* The client comes to an end of its own. *)
ChildEnds(p) ==
    /\ child[p] = "running"
    /\ child' = [child EXCEPT ![p] = "exited"]
    /\ UNCHANGED <<lockVars, cmd, limited, pc, worker, active, index, left, backoff, ended>>

(* Other programs use the index; an operator removes a stale lock file. *)
OthersUseIndex ==
    /\ \/ index = None /\ index' = "other"
       \/ index \in {"other", "stale"} /\ index' = None
    /\ UNCHANGED <<lockVars, cmd, limited, pc, worker, child, active, left, backoff, ended>>

(* The main thread's own steps. *)
Main(p) ==
    \/ EnterLock(p) \/ LockedOut(p) \/ Decide(p) \/ Close(p) \/ PushEnds(p)
    \/ Unwind(p) \/ Exit(p) \/ CallReturns(p) \/ CallExpires(p)
    \/ AttemptGit(p) \/ Contend(p) \/ GitEnds(p) \/ GitKilled(p)

(* The steps of the client's call. *)
Call(p) == Spawn(p) \/ RegisterChild(p) \/ Collect(p) \/ WorkerExpires(p)

Next ==
    \/ \E p \in Proc :
         \/ Start(p) \/ Main(p) \/ Call(p)
         \/ InterruptWait(p) \/ InterruptInline(p) \/ InterruptElsewhere(p)
         \/ Kill(p) \/ ChildEnds(p)
    \/ OthersUseIndex

Spec == Init /\ [][Next]_vars

(* The operating system keeps running a process's threads; nothing is      *)
(* assumed of the client, of other programs, of the operator's patience.   *)
FairSpec == Spec /\ \A p \in Proc : WF_vars(Main(p)) /\ WF_vars(Call(p))
=============================================================================
