------------------------ MODULE InvocationProperties ------------------------
(***************************************************************************)
(* What the process around a command must guarantee.                       *)
(***************************************************************************)
EXTENDS Invocation

(* Whatever a command does to the repository, to the index or to a remote, *)
(* it does while the operating system's lock is its own: leaving the inner *)
(* of two nested locks, an interrupt or an error never gives it away early.*)
WorksUnderLock ==
    \A p \in Proc :
        pc[p] \in {"transaction", "work", "call", "index", "git", "close", "push"}
            => flock = p

(* A command is turned away with exit 7 only by another process, never by  *)
(* a lock its own process took before.                                     *)
LockedOutByOthers ==
    [][\A p \in Proc : ended[p] # "locked" /\ ended'[p] = "locked"
          => flock \in Proc \ {p}]_vars

(* However the call of the client ends - an answer, the deadline of either *)
(* thread, Ctrl-C with or without a limit - a client that was registered   *)
(* is not left running behind the command, where it would go on submitting *)
(* without the lock.                                                       *)
LeavesNoClient ==
    [][\A p \in Proc : At(p, "call") /\ active[p] /\ pc'[p] \notin {"call", "off"}
          => child'[p] # "running"]_vars

(* A command with a time limit ends, and lets the next one have the lock,  *)
(* even when the client never answers, when other programs never let go of *)
(* the index, or when a stale index.lock stays for good.                   *)
EventuallyEnds ==
    \A p \in Proc : (~At(p, "off") /\ limited[p]) ~> At(p, "off")

-----------------------------------------------------------------------------
(* Why it does: the parts of the inductive invariant *)

(* The registry counts the instances that hold the descriptor. *)
Counted ==
    \A p \in Proc :
        count[p] = (IF "command" \in holding[p] THEN 1 ELSE 0)
                   + (IF "transaction" \in holding[p] THEN 1 ELSE 0)

(* The process with an entry in its registry is the one with the file lock.*)
Owned == \A p \in Proc : flock = p <=> count[p] > 0

(* What is held follows from the place in the command. *)
HeldByPlace ==
    \A p \in Proc :
        /\ pc[p] \in {"off", "command"} => holding[p] = {}
        /\ pc[p] \in {"transaction", "push"} => holding[p] = {"command"}
        /\ pc[p] = "transaction" => cmd[p] = "run"
        /\ pc[p] \in {"work", "call", "index", "git", "close"} =>
              holding[p] = IF cmd[p] = "run" THEN {"command", "transaction"}
                           ELSE {"command"}

(* A client is registered exactly while the worker waits for it, and there *)
(* is a worker only during the call, or left over when the call was given  *)
(* up and the process is about to exit.                                    *)
Registered ==
    \A p \in Proc :
        /\ active[p] <=> worker[p] = "waiting"
        /\ worker[p] # "none" => pc[p] \in {"call", "unwind"}
=============================================================================
