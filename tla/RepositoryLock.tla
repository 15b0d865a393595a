--------------------------- MODULE RepositoryLock ---------------------------
(***************************************************************************)
(* RepositoryLock (git.py): an flock on a file of the common Git directory *)
(* that every mutating command takes, re-entrant inside one process        *)
(* through the registry _LOCK_STATE that its instances share.  `git ots    *)
(* run` takes it twice, in cli.py and again in orchestration.py.           *)
(***************************************************************************)
EXTENDS Integers

CONSTANTS
    Proc,           \* processes that run git ots
    Instance,       \* the RepositoryLock objects of one process
    None            \* no process

ASSUME LockAssumption == None \notin Proc

VARIABLES
    flock,          \* the process whose descriptor holds the file lock, or None
    count,          \* each process's count in _LOCK_STATE, 0 when it has no entry
    holding         \* the instances of each process that hold a descriptor

lockVars == <<flock, count, holding>>

LockTypeOK ==
    /\ flock \in Proc \cup {None}
    /\ count \in [Proc -> Nat]
    /\ holding \in [Proc -> SUBSET Instance]

LockInit ==
    /\ flock = None
    /\ count = [p \in Proc |-> 0]
    /\ holding = [p \in Proc |-> {}]

(* Faulty: every instance asks the operating system, even inside its own   *)
(* process.                                                                *)
BusyUnregistered(p) == flock # None

(* flock(LOCK_EX | LOCK_NB) on a new descriptor would block: exit 7. *)
Busy(p) == count[p] = 0 /\ flock # None

(* RepositoryLock.acquire *)
AcquireLock(p, i) ==
    /\ i \notin holding[p]
    /\ ~Busy(p)
    /\ flock' = p
    /\ count' = [count EXCEPT ![p] = @ + 1]
    /\ holding' = [holding EXCEPT ![p] = @ \cup {i}]

(* Faulty: the inner instance closes the shared descriptor. *)
ReleaseShared(p, i) ==
    /\ i \in holding[p]
    /\ flock' = None
    /\ count' = [count EXCEPT ![p] = @ - 1]
    /\ holding' = [holding EXCEPT ![p] = @ \ {i}]

(* Faulty: the instance forgets that it has left already. *)
ReleaseAgain(p, i) ==
    /\ flock' = IF count[p] > 1 THEN flock ELSE None
    /\ count' = [count EXCEPT ![p] = @ - 1]
    /\ holding' = [holding EXCEPT ![p] = @ \ {i}]

(* RepositoryLock.release: the last instance out unlocks the file. *)
ReleaseLock(p, i) ==
    /\ i \in holding[p]
    /\ flock' = IF count[p] > 1 THEN flock ELSE None
    /\ count' = [count EXCEPT ![p] = @ - 1]
    /\ holding' = [holding EXCEPT ![p] = @ \ {i}]

(* The operating system closes the descriptors of a process that is gone. *)
LockGone(p) ==
    /\ flock' = IF flock = p THEN None ELSE flock
    /\ count' = [count EXCEPT ![p] = 0]
    /\ holding' = [holding EXCEPT ![p] = {}]
=============================================================================
