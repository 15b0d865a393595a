------------------------- MODULE Invocation_proofs -------------------------
(***************************************************************************)
(* Proofs about the process around a command, for any number of processes, *)
(* any retry window and backoff.                                           *)
(***************************************************************************)
EXTENDS InvocationProperties, TLAPS

USE LockAssumption, WindowAssumption, InstanceAssumption

IInv == TypeOK /\ Counted /\ Owned /\ HeldByPlace /\ Registered

-----------------------------------------------------------------------------
(* The lock by itself *)

(* The lock's own state is consistent. *)
LockOK == LockTypeOK /\ Counted /\ Owned

LEMMA LockTaken ==
    ASSUME NEW p \in Proc, NEW i \in Instance, LockOK, AcquireLock(p, i)
    PROVE  LockOK' /\ holding' = [holding EXCEPT ![p] = @ \cup {i}]
<1>1. LockTypeOK'
  BY DEF LockOK, LockTypeOK, AcquireLock
<1>2. Counted'
  BY DEF LockOK, LockTypeOK, AcquireLock, Counted
<1>3. Owned'
  BY DEF LockOK, LockTypeOK, AcquireLock, Busy, Owned
<1>4. QED
  BY <1>1, <1>2, <1>3 DEF LockOK, AcquireLock

LEMMA LockLeft ==
    ASSUME NEW p \in Proc, NEW i \in Instance, LockOK, ReleaseLock(p, i)
    PROVE  LockOK' /\ holding' = [holding EXCEPT ![p] = @ \ {i}]
<1>1. count[p] >= 1
  BY DEF LockOK, LockTypeOK, ReleaseLock, Counted
<1>2. LockTypeOK'
  BY <1>1 DEF LockOK, LockTypeOK, ReleaseLock
<1>3. Counted'
  BY DEF LockOK, LockTypeOK, ReleaseLock, Counted
<1>4. Owned'
  BY <1>1 DEF LockOK, LockTypeOK, ReleaseLock, Owned
<1>5. QED
  BY <1>2, <1>3, <1>4 DEF LockOK, ReleaseLock

LEMMA LockLost ==
    ASSUME NEW p \in Proc, LockOK, LockGone(p)
    PROVE  LockOK' /\ holding' = [holding EXCEPT ![p] = {}]
  BY DEF LockOK, LockTypeOK, LockGone, Counted, Owned

LEMMA LockKept ==
    ASSUME LockOK, UNCHANGED lockVars
    PROVE  LockOK' /\ holding' = holding
  BY DEF LockOK, LockTypeOK, Counted, Owned, lockVars

-----------------------------------------------------------------------------
(* One step *)

LEMMA InitInvariant ==
    ASSUME Init
    PROVE  IInv
  BY DEF Init, LockInit, IInv, TypeOK, LockTypeOK, Commands, Counted, Owned,
         HeldByPlace, Registered

(* What is left to show of a step once its lock is accounted for. *)
LEMMA Assembled ==
    ASSUME LockOK', TypeOK', HeldByPlace', Registered'
    PROVE  IInv'
  BY DEF LockOK, IInv

LEMMA StartKeeps ==
    ASSUME NEW p \in Proc, IInv, Start(p)
    PROVE  IInv'
<1>1. LockOK' /\ holding' = holding
  BY LockKept DEF IInv, LockOK, TypeOK, Start
<1>2. TypeOK'
  BY <1>1 DEF IInv, LockOK, TypeOK, Commands, Start, At, Goto
<1>3. HeldByPlace'
  BY <1>1 DEF IInv, TypeOK, HeldByPlace, Start, At, Goto
<1>4. Registered'
  BY DEF IInv, TypeOK, Registered, Start, At, Goto
<1>5. QED
  BY <1>1, <1>2, <1>3, <1>4, Assembled

LEMMA LockedOutKeeps ==
    ASSUME NEW p \in Proc, IInv, LockedOut(p)
    PROVE  IInv'
<1>1. LockOK' /\ holding' = holding
  BY LockKept DEF IInv, LockOK, TypeOK, LockedOut
<1>2. TypeOK'
  BY <1>1 DEF IInv, LockOK, TypeOK, Commands, LockedOut, At, Goto
<1>3. HeldByPlace'
  BY <1>1 DEF IInv, TypeOK, HeldByPlace, LockedOut, At, Goto
<1>4. Registered'
  BY DEF IInv, TypeOK, Registered, LockedOut, At, Goto
<1>5. QED
  BY <1>1, <1>2, <1>3, <1>4, Assembled

LEMMA DecideKeeps ==
    ASSUME NEW p \in Proc, IInv, Decide(p)
    PROVE  IInv'
<1>1. LockOK' /\ holding' = holding
  BY LockKept DEF IInv, LockOK, TypeOK, Decide
<1>2. TypeOK'
  BY <1>1 DEF IInv, LockOK, TypeOK, Commands, Decide, At, Goto, Fail
<1>3. HeldByPlace'
  BY <1>1 DEF IInv, TypeOK, HeldByPlace, Decide, At, Goto, Fail
<1>4. Registered'
  BY DEF IInv, TypeOK, Registered, Decide, At, Goto, Fail
<1>5. QED
  BY <1>1, <1>2, <1>3, <1>4, Assembled

LEMMA PushEndsKeeps ==
    ASSUME NEW p \in Proc, IInv, PushEnds(p)
    PROVE  IInv'
<1>1. LockOK' /\ holding' = holding
  BY LockKept DEF IInv, LockOK, TypeOK, PushEnds
<1>2. TypeOK'
  BY <1>1 DEF IInv, LockOK, TypeOK, Commands, PushEnds, At, Goto
<1>3. HeldByPlace'
  BY <1>1 DEF IInv, TypeOK, HeldByPlace, PushEnds, At, Goto
<1>4. Registered'
  BY DEF IInv, TypeOK, Registered, PushEnds, At, Goto
<1>5. QED
  BY <1>1, <1>2, <1>3, <1>4, Assembled

LEMMA SpawnKeeps ==
    ASSUME NEW p \in Proc, IInv, Spawn(p)
    PROVE  IInv'
<1>1. LockOK' /\ holding' = holding
  BY LockKept DEF IInv, LockOK, TypeOK, Spawn
<1>2. TypeOK'
  BY <1>1 DEF IInv, LockOK, TypeOK, Commands, Spawn
<1>3. HeldByPlace'
  BY <1>1 DEF IInv, TypeOK, HeldByPlace, Spawn
<1>4. Registered'
  BY DEF IInv, TypeOK, Registered, Spawn
<1>5. QED
  BY <1>1, <1>2, <1>3, <1>4, Assembled

LEMMA RegisterChildKeeps ==
    ASSUME NEW p \in Proc, IInv, RegisterChild(p)
    PROVE  IInv'
<1>1. LockOK' /\ holding' = holding
  BY LockKept DEF IInv, LockOK, TypeOK, RegisterChild
<1>2. TypeOK'
  BY <1>1 DEF IInv, LockOK, TypeOK, Commands, RegisterChild
<1>3. HeldByPlace'
  BY <1>1 DEF IInv, TypeOK, HeldByPlace, RegisterChild
<1>4. Registered'
  BY DEF IInv, TypeOK, Registered, RegisterChild
<1>5. QED
  BY <1>1, <1>2, <1>3, <1>4, Assembled

LEMMA CollectKeeps ==
    ASSUME NEW p \in Proc, IInv, Collect(p)
    PROVE  IInv'
<1>1. LockOK' /\ holding' = holding
  BY LockKept DEF IInv, LockOK, TypeOK, Collect
<1>2. TypeOK'
  BY <1>1 DEF IInv, LockOK, TypeOK, Commands, Collect
<1>3. HeldByPlace'
  BY <1>1 DEF IInv, TypeOK, HeldByPlace, Collect
<1>4. Registered'
  BY DEF IInv, TypeOK, Registered, Collect
<1>5. QED
  BY <1>1, <1>2, <1>3, <1>4, Assembled

LEMMA WorkerExpiresKeeps ==
    ASSUME NEW p \in Proc, IInv, WorkerExpires(p)
    PROVE  IInv'
<1>1. LockOK' /\ holding' = holding
  BY LockKept DEF IInv, LockOK, TypeOK, WorkerExpires
<1>2. TypeOK'
  BY <1>1 DEF IInv, LockOK, TypeOK, Commands, WorkerExpires, Killed
<1>3. HeldByPlace'
  BY <1>1 DEF IInv, TypeOK, HeldByPlace, WorkerExpires, Killed
<1>4. Registered'
  BY DEF IInv, TypeOK, Registered, WorkerExpires, Killed
<1>5. QED
  BY <1>1, <1>2, <1>3, <1>4, Assembled

LEMMA CallReturnsKeeps ==
    ASSUME NEW p \in Proc, IInv, CallReturns(p)
    PROVE  IInv'
<1>1. LockOK' /\ holding' = holding
  BY LockKept DEF IInv, LockOK, TypeOK, CallReturns
<1>2. TypeOK'
  BY <1>1 DEF IInv, LockOK, TypeOK, Commands, CallReturns, At, Goto, Fail
<1>3. HeldByPlace'
  BY <1>1 DEF IInv, TypeOK, HeldByPlace, CallReturns, At, Goto, Fail
<1>4. Registered'
  BY DEF IInv, TypeOK, Registered, CallReturns, At, Goto, Fail
<1>5. QED
  BY <1>1, <1>2, <1>3, <1>4, Assembled

LEMMA CallExpiresKeeps ==
    ASSUME NEW p \in Proc, IInv, CallExpires(p)
    PROVE  IInv'
<1>1. LockOK' /\ holding' = holding
  BY LockKept DEF IInv, LockOK, TypeOK, CallExpires
<1>2. TypeOK'
  BY <1>1 DEF IInv, LockOK, TypeOK, Commands, CallExpires, At, Goto, Fail, TerminateActiveChild, Killed
<1>3. HeldByPlace'
  BY <1>1 DEF IInv, TypeOK, HeldByPlace, CallExpires, At, Goto, Fail, TerminateActiveChild, Killed
<1>4. Registered'
  BY DEF IInv, TypeOK, Registered, CallExpires, At, Goto, Fail, TerminateActiveChild, Killed
<1>5. QED
  BY <1>1, <1>2, <1>3, <1>4, Assembled

LEMMA InterruptWaitKeeps ==
    ASSUME NEW p \in Proc, IInv, InterruptWait(p)
    PROVE  IInv'
<1>1. LockOK' /\ holding' = holding
  BY LockKept DEF IInv, LockOK, TypeOK, InterruptWait
<1>2. TypeOK'
  BY <1>1 DEF IInv, LockOK, TypeOK, Commands, InterruptWait, At, Goto, Fail, TerminateActiveChild, Killed
<1>3. HeldByPlace'
  BY <1>1 DEF IInv, TypeOK, HeldByPlace, InterruptWait, At, Goto, Fail, TerminateActiveChild, Killed
<1>4. Registered'
  BY DEF IInv, TypeOK, Registered, InterruptWait, At, Goto, Fail, TerminateActiveChild, Killed
<1>5. QED
  BY <1>1, <1>2, <1>3, <1>4, Assembled

LEMMA InterruptInlineKeeps ==
    ASSUME NEW p \in Proc, IInv, InterruptInline(p)
    PROVE  IInv'
<1>1. LockOK' /\ holding' = holding
  BY LockKept DEF IInv, LockOK, TypeOK, InterruptInline
<1>2. TypeOK'
  BY <1>1 DEF IInv, LockOK, TypeOK, Commands, InterruptInline, At, Goto, Fail, Killed
<1>3. HeldByPlace'
  BY <1>1 DEF IInv, TypeOK, HeldByPlace, InterruptInline, At, Goto, Fail, Killed
<1>4. Registered'
  BY DEF IInv, TypeOK, Registered, InterruptInline, At, Goto, Fail, Killed
<1>5. QED
  BY <1>1, <1>2, <1>3, <1>4, Assembled

LEMMA AttemptGitKeeps ==
    ASSUME NEW p \in Proc, IInv, AttemptGit(p)
    PROVE  IInv'
<1>1. LockOK' /\ holding' = holding
  BY LockKept DEF IInv, LockOK, TypeOK, AttemptGit
<1>2. TypeOK'
  BY <1>1 DEF IInv, LockOK, TypeOK, Commands, AttemptGit, At, Goto
<1>3. HeldByPlace'
  BY <1>1 DEF IInv, TypeOK, HeldByPlace, AttemptGit, At, Goto
<1>4. Registered'
  BY DEF IInv, TypeOK, Registered, AttemptGit, At, Goto
<1>5. QED
  BY <1>1, <1>2, <1>3, <1>4, Assembled

LEMMA ContendKeeps ==
    ASSUME NEW p \in Proc, IInv, Contend(p)
    PROVE  IInv'
<1>1. LockOK' /\ holding' = holding
  BY LockKept DEF IInv, LockOK, TypeOK, Contend
<1>2. TypeOK'
  BY <1>1 DEF IInv, LockOK, TypeOK, Commands, Contend, At, Goto, Fail, Least
<1>3. HeldByPlace'
  BY <1>1 DEF IInv, TypeOK, HeldByPlace, Contend, At, Goto, Fail, Least
<1>4. Registered'
  BY DEF IInv, TypeOK, Registered, Contend, At, Goto, Fail, Least
<1>5. QED
  BY <1>1, <1>2, <1>3, <1>4, Assembled

LEMMA GitEndsKeeps ==
    ASSUME NEW p \in Proc, IInv, GitEnds(p)
    PROVE  IInv'
<1>1. LockOK' /\ holding' = holding
  BY LockKept DEF IInv, LockOK, TypeOK, GitEnds
<1>2. TypeOK'
  BY <1>1 DEF IInv, LockOK, TypeOK, Commands, GitEnds, At, Goto, Fail
<1>3. HeldByPlace'
  BY <1>1 DEF IInv, TypeOK, HeldByPlace, GitEnds, At, Goto, Fail
<1>4. Registered'
  BY DEF IInv, TypeOK, Registered, GitEnds, At, Goto, Fail
<1>5. QED
  BY <1>1, <1>2, <1>3, <1>4, Assembled

LEMMA GitKilledKeeps ==
    ASSUME NEW p \in Proc, IInv, GitKilled(p)
    PROVE  IInv'
<1>1. LockOK' /\ holding' = holding
  BY LockKept DEF IInv, LockOK, TypeOK, GitKilled
<1>2. TypeOK'
  BY <1>1 DEF IInv, LockOK, TypeOK, Commands, GitKilled, At, Goto, Fail
<1>3. HeldByPlace'
  BY <1>1 DEF IInv, TypeOK, HeldByPlace, GitKilled, At, Goto, Fail
<1>4. Registered'
  BY DEF IInv, TypeOK, Registered, GitKilled, At, Goto, Fail
<1>5. QED
  BY <1>1, <1>2, <1>3, <1>4, Assembled

LEMMA InterruptElsewhereKeeps ==
    ASSUME NEW p \in Proc, IInv, InterruptElsewhere(p)
    PROVE  IInv'
<1>1. LockOK' /\ holding' = holding
  BY LockKept DEF IInv, LockOK, TypeOK, InterruptElsewhere
<1>2. TypeOK'
  BY <1>1 DEF IInv, LockOK, TypeOK, Commands, InterruptElsewhere, Goto, Fail
<1>3. HeldByPlace'
  BY <1>1 DEF IInv, TypeOK, HeldByPlace, InterruptElsewhere, Goto, Fail
<1>4. Registered'
  BY DEF IInv, TypeOK, Registered, InterruptElsewhere, Goto, Fail
<1>5. QED
  BY <1>1, <1>2, <1>3, <1>4, Assembled

LEMMA ChildEndsKeeps ==
    ASSUME NEW p \in Proc, IInv, ChildEnds(p)
    PROVE  IInv'
<1>1. LockOK' /\ holding' = holding
  BY LockKept DEF IInv, LockOK, TypeOK, ChildEnds
<1>2. TypeOK'
  BY <1>1 DEF IInv, LockOK, TypeOK, Commands, ChildEnds
<1>3. HeldByPlace'
  BY <1>1 DEF IInv, TypeOK, HeldByPlace, ChildEnds
<1>4. Registered'
  BY DEF IInv, TypeOK, Registered, ChildEnds
<1>5. QED
  BY <1>1, <1>2, <1>3, <1>4, Assembled

LEMMA EnterLockKeeps ==
    ASSUME NEW p \in Proc, IInv, EnterLock(p)
    PROVE  IInv'
<1>. DEFINE i == pc[p]
<1>1. i \in Instance /\ AcquireLock(p, i)
  BY DEF EnterLock, At
<1>2. LockOK' /\ holding' = [holding EXCEPT ![p] = @ \cup {i}]
  BY <1>1, LockTaken DEF IInv, LockOK, TypeOK
<1>3. TypeOK'
  BY <1>2 DEF IInv, LockOK, TypeOK, Commands, EnterLock, Goto
<1>4. HeldByPlace'
  <2>1. CASE At(p, "command")
    <3>1. holding[p] \cup {i} = {"command"}
      BY <2>1 DEF IInv, HeldByPlace, At
    <3>2. holding' = [holding EXCEPT ![p] = {"command"}]
      BY <1>2, <3>1
    <3>3. /\ cmd' = cmd
          /\ pc' = [pc EXCEPT ![p] = IF cmd[p] = "run" THEN "transaction" ELSE "work"]
      BY <2>1 DEF EnterLock, At, Goto
    <3>. HIDE DEF i
    <3>4. DOMAIN pc = Proc /\ holding \in [Proc -> SUBSET Instance] /\ HeldByPlace
      BY DEF IInv, TypeOK, LockTypeOK
    <3>5. ASSUME NEW q \in Proc
          PROVE  /\ q = p => /\ pc'[q] = IF cmd[q] = "run" THEN "transaction" ELSE "work"
                             /\ holding'[q] = {"command"}
                 /\ q # p => pc'[q] = pc[q] /\ holding'[q] = holding[q]
      BY <3>2, <3>3, <3>4
    <3>6. QED
      BY <3>3, <3>4, <3>5 DEF HeldByPlace
  <2>2. CASE At(p, "transaction")
    <3>1. holding[p] \cup {i} = {"command", "transaction"}
      BY <2>2 DEF IInv, HeldByPlace, At
    <3>2. holding' = [holding EXCEPT ![p] = {"command", "transaction"}]
      BY <1>2, <3>1
    <3>. HIDE DEF i
    <3>3. /\ cmd' = cmd
          /\ cmd[p] = "run"
          /\ pc' = [pc EXCEPT ![p] = "work"]
      BY <2>2 DEF IInv, HeldByPlace, EnterLock, At, Goto
    <3>4. DOMAIN pc = Proc /\ holding \in [Proc -> SUBSET Instance]
      BY DEF IInv, TypeOK, LockTypeOK
    <3>5. ASSUME NEW q \in Proc
          PROVE  /\ q = p => pc'[q] = "work" /\ holding'[q] = {"command", "transaction"}
                 /\ q # p => pc'[q] = pc[q] /\ holding'[q] = holding[q]
      BY <3>2, <3>3, <3>4
    <3>6. HeldByPlace
      BY DEF IInv
    <3>7. QED
      BY <3>3, <3>5, <3>6 DEF HeldByPlace
  <2>3. QED
    BY <2>1, <2>2 DEF EnterLock
<1>5. Registered'
  BY DEF IInv, TypeOK, Registered, EnterLock, At, Goto
<1>6. QED
  BY <1>2, <1>3, <1>4, <1>5, Assembled

LEMMA CloseKeeps ==
    ASSUME NEW p \in Proc, IInv, Close(p)
    PROVE  IInv'
<1>1. CASE cmd[p] = "run"
  <2>1. ReleaseLock(p, "transaction")
    BY <1>1 DEF Close
  <2>2. LockOK' /\ holding' = [holding EXCEPT ![p] = @ \ {"transaction"}]
    BY <2>1, LockLeft DEF IInv, LockOK, TypeOK
  <2>3. TypeOK'
    BY <1>1, <2>2 DEF IInv, LockOK, TypeOK, Close, Goto
  <2>4. HeldByPlace'
    <3>1. pc' = [pc EXCEPT ![p] = "push"] /\ pc[p] = "close" /\ cmd' = cmd
      BY <1>1 DEF Close, At, Goto
    <3>2. DOMAIN pc = Proc /\ holding \in [Proc -> SUBSET Instance] /\ HeldByPlace
      BY DEF IInv, TypeOK, LockTypeOK
    <3>3. holding[p] = {"command", "transaction"}
      BY <1>1, <3>1, <3>2 DEF HeldByPlace
    <3>4. ASSUME NEW q \in Proc
          PROVE  /\ q = p => pc'[q] = "push" /\ holding'[q] = {"command"}
                 /\ q # p => pc'[q] = pc[q] /\ holding'[q] = holding[q]
      BY <2>2, <3>1, <3>2, <3>3
    <3>5. QED
      BY <3>1, <3>2, <3>4 DEF HeldByPlace
  <2>5. Registered'
    BY <1>1 DEF IInv, TypeOK, Registered, Close, At, Goto
  <2>6. QED
    BY <2>2, <2>3, <2>4, <2>5, Assembled
<1>2. CASE cmd[p] # "run"
  <2>1. LockOK' /\ holding' = holding
    BY <1>2, LockKept DEF IInv, LockOK, TypeOK, Close
  <2>2. TypeOK'
    BY <1>2, <2>1 DEF IInv, LockOK, TypeOK, Close, Goto
  <2>3. HeldByPlace'
    BY <1>2, <2>1 DEF IInv, TypeOK, HeldByPlace, Close, Goto
  <2>4. Registered'
    BY <1>2 DEF IInv, TypeOK, Registered, Close, At, Goto
  <2>5. QED
    BY <2>1, <2>2, <2>3, <2>4, Assembled
<1>3. QED
  BY <1>1, <1>2

LEMMA UnwindKeeps ==
    ASSUME NEW p \in Proc, IInv, Unwind(p)
    PROVE  IInv'
<1>1. PICK i \in Instance : ReleaseLock(p, i)
  BY DEF Unwind
<1>2. LockOK' /\ holding' = [holding EXCEPT ![p] = @ \ {i}]
  BY <1>1, LockLeft DEF IInv, LockOK, TypeOK
<1>3. TypeOK'
  BY <1>2 DEF IInv, LockOK, TypeOK, Unwind, procVars
<1>4. HeldByPlace'
  BY <1>2 DEF IInv, TypeOK, LockTypeOK, HeldByPlace, Unwind, At, procVars
<1>5. Registered'
  BY DEF IInv, Registered, Unwind, procVars
<1>6. QED
  BY <1>2, <1>3, <1>4, <1>5, Assembled

(* Exit and Kill: nothing of a process that is gone is left. *)
LEMMA GoneKeeps ==
    ASSUME NEW p \in Proc, IInv, Exit(p) \/ Kill(p)
    PROVE  IInv'
<1>1. LockOK' /\ holding' = [holding EXCEPT ![p] = {}]
  BY LockLost DEF IInv, LockOK, TypeOK, Exit, Kill
<1>2. TypeOK'
  BY <1>1 DEF IInv, LockOK, TypeOK, Exit, Kill, Goto
<1>3. HeldByPlace'
  <2>1. pc' = [pc EXCEPT ![p] = "off"] /\ cmd' = cmd
    BY DEF Exit, Kill, Goto
  <2>2. DOMAIN pc = Proc /\ holding \in [Proc -> SUBSET Instance]
    BY DEF IInv, TypeOK, LockTypeOK
  <2>3. HeldByPlace
    BY DEF IInv
  <2>4. ASSUME NEW q \in Proc
        PROVE  /\ q = p => pc'[q] = "off" /\ holding'[q] = {}
               /\ q # p => pc'[q] = pc[q] /\ holding'[q] = holding[q]
    BY <1>1, <2>1, <2>2
  <2>5. QED
    BY <2>1, <2>3, <2>4 DEF HeldByPlace
<1>4. Registered'
  BY DEF IInv, TypeOK, Registered, Exit, Kill, Goto
<1>5. QED
  BY <1>1, <1>2, <1>3, <1>4, Assembled

(* Other programs, and steps that change nothing. *)
LEMMA OthersKeep ==
    ASSUME IInv, OthersUseIndex \/ UNCHANGED vars
    PROVE  IInv'
<1>1. LockOK' /\ holding' = holding
  BY LockKept DEF IInv, LockOK, TypeOK, OthersUseIndex, vars
<1>2. TypeOK'
  BY <1>1 DEF IInv, LockOK, TypeOK, OthersUseIndex, vars, procVars
<1>3. HeldByPlace' /\ Registered'
  BY <1>1 DEF IInv, HeldByPlace, Registered, OthersUseIndex, vars, procVars
<1>4. QED
  BY <1>1, <1>2, <1>3, Assembled

LEMMA StepInvariant ==
    ASSUME IInv, [Next]_vars
    PROVE  IInv'
<1>1. ASSUME NEW p \in Proc, Main(p)
      PROVE  IInv'
  BY <1>1, EnterLockKeeps, LockedOutKeeps, DecideKeeps, CloseKeeps, PushEndsKeeps,
     UnwindKeeps, GoneKeeps, CallReturnsKeeps, CallExpiresKeeps,
     AttemptGitKeeps, ContendKeeps, GitEndsKeeps, GitKilledKeeps
     DEF Main
<1>2. ASSUME NEW p \in Proc, Call(p)
      PROVE  IInv'
  BY <1>2, SpawnKeeps, RegisterChildKeeps, CollectKeeps, WorkerExpiresKeeps DEF Call
<1>3. ASSUME NEW p \in Proc,
             \/ Start(p) \/ InterruptWait(p) \/ InterruptInline(p)
             \/ InterruptElsewhere(p) \/ Kill(p) \/ ChildEnds(p)
      PROVE  IInv'
  BY <1>3, StartKeeps, InterruptWaitKeeps, InterruptInlineKeeps,
     InterruptElsewhereKeeps, GoneKeeps, ChildEndsKeeps
<1>4. QED
  BY <1>1, <1>2, <1>3, OthersKeep DEF Next

LEMMA Invariant == Spec => []IInv
<1>1. Init => IInv
  BY InitInvariant
<1>2. IInv /\ [Next]_vars => IInv'
  BY StepInvariant
<1>3. QED
  BY <1>1, <1>2, PTL DEF Spec

-----------------------------------------------------------------------------
(* Every reachable state is well typed. *)
THEOREM TypeCorrect == Spec => []TypeOK
<1>1. IInv => TypeOK
  BY DEF IInv
<1>2. QED
  BY <1>1, Invariant, PTL

(* Whatever a command does, it does while the file lock is its own, however *)
(* locks are nested and however it is interrupted.                          *)
THEOREM UnderLock == Spec => []WorksUnderLock
<1>1. IInv => WorksUnderLock
  <2>. SUFFICES ASSUME IInv, NEW p \in Proc,
                       pc[p] \in {"transaction", "work", "call", "index", "git",
                                  "close", "push"}
                PROVE  flock = p
    BY DEF WorksUnderLock
  <2>1. "command" \in holding[p]
    BY DEF IInv, HeldByPlace
  <2>2. count[p] > 0
    BY <2>1 DEF IInv, Counted
  <2>3. QED
    BY <2>2 DEF IInv, Owned
<1>2. QED
  BY <1>1, Invariant, PTL

(* A process is turned away by another one, never by itself. *)
THEOREM NotByItself == Spec => LockedOutByOthers
<1>. DEFINE Turned(p) == ended[p] # "locked" /\ ended'[p] = "locked"
            A == \A p \in Proc : Turned(p) => flock \in Proc \ {p}
<1>1. ASSUME IInv, [Next]_vars
      PROVE  A
  <2>. SUFFICES ASSUME NEW p \in Proc, Turned(p)
                PROVE  flock \in Proc \ {p}
    OBVIOUS
  <2>1. PICK q \in Proc : LockedOut(q)
    BY <1>1 DEF IInv, TypeOK, Next, Main, Call, Start, EnterLock, Decide, Close, PushEnds,
       Unwind, Exit, CallReturns, CallExpires, AttemptGit, Contend, GitEnds, GitKilled,
       Spawn, RegisterChild, Collect, WorkerExpires, InterruptWait, InterruptInline,
       InterruptElsewhere, Kill, ChildEnds, OthersUseIndex, Fail, vars, procVars
  <2>2. q = p /\ Busy(p)
    BY <1>1, <2>1 DEF IInv, TypeOK, LockedOut
  <2>3. QED
    BY <1>1, <2>2 DEF IInv, TypeOK, LockTypeOK, Owned, Busy
<1>2. QED
  BY <1>1, Invariant, PTL DEF Spec, LockedOutByOthers

(* No way out of the call of the client leaves a registered one running. *)
THEOREM NoClientLeft == Spec => LeavesNoClient
<1>. DEFINE A == \A p \in Proc :
              At(p, "call") /\ active[p] /\ pc'[p] \notin {"call", "off"}
                  => child'[p] # "running"
<1>1. ASSUME IInv, [Next]_vars
      PROVE  A
  <2>. SUFFICES ASSUME NEW p \in Proc,
                       At(p, "call"), active[p], pc'[p] \notin {"call", "off"}
                PROVE  child'[p] # "running"
    OBVIOUS
  <2>1. worker[p] = "waiting"
    BY <1>1 DEF IInv, Registered
  <2>2. CallExpires(p) \/ InterruptWait(p) \/ InterruptInline(p)
    BY <1>1, <2>1 DEF IInv, TypeOK, Next, Main, Call, Start, EnterLock, LockedOut, Decide,
       Close, PushEnds, Unwind, Exit, CallReturns, CallExpires, AttemptGit, Contend,
       GitEnds, GitKilled, Spawn, RegisterChild, Collect, WorkerExpires, InterruptWait,
       InterruptInline, InterruptElsewhere, Kill, ChildEnds, OthersUseIndex, At, Goto, Fail,
       vars, procVars
  <2>3. QED
    BY <1>1, <2>1, <2>2 DEF IInv, TypeOK, CallExpires, InterruptWait, InterruptInline,
       TerminateActiveChild, Killed
<1>2. QED
  BY <1>1, Invariant, PTL DEF Spec, LeavesNoClient
=============================================================================
