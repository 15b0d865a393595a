--------------------------- MODULE TriggerPolicy ---------------------------
(***************************************************************************)
(* The pure policy engine of policy.py: which pending commits an           *)
(* invocation should timestamp, and for which triggers.  A PendingCommit   *)
(* is a record [id, time]; ids are numbered in repository order, so the    *)
(* position of a commit in the tuple the code receives is its id.          *)
(*                                                                         *)
(* Time is a natural number.  The daily fixed_time schedule is the set of  *)
(* multiples of FixedPeriod; time zones and daylight saving only move      *)
(* those instants and are not modelled.                                    *)
(***************************************************************************)
EXTENDS Integers, FiniteSetsExt

CONSTANTS
    None,           \* an absent value: Python's None
    EveryCommit,    \* ots.everyCommit, a Boolean
    InitialAll,     \* ots.initialHistory = "all" (FALSE: "latest")
    MaxAge,         \* ots.maxAge, or None when the rule is unset
    FixedPeriod     \* length of a schedule day, or None when ots.fixedTime is unset

ASSUME PolicyAssumption ==
    /\ EveryCommit \in BOOLEAN
    /\ InitialAll \in BOOLEAN
    /\ MaxAge \in Nat \cup {None}
    /\ FixedPeriod \in (Nat \ {0}) \cup {None}
    /\ None \notin Nat

Triggers == {"every_commit", "max_age", "fixed_time"}

PendingCommit == [id : Nat, time : Nat]

Decision == [commits : SUBSET Nat, trig : SUBSET Triggers]

NoDecision == [commits |-> {}, trig |-> {}]

(* The newest scheduled instant at or before t. *)
MostRecentOccurrence(t) == (t \div FixedPeriod) * FixedPeriod

(* Faulty: the oldest pending commit instead. *)
OldestPending(pending) ==
    {p \in pending : \A q \in pending :
        \/ p.time < q.time
        \/ p.time = q.time /\ p.id <= q.id}

(* _latest_pending: the newest pending commit, ties broken by position. *)
LatestPending(pending) ==
    {p \in pending : \A q \in pending :
        \/ p.time > q.time
        \/ p.time = q.time /\ p.id >= q.id}

MaxAgeDue(pending, t) ==
    /\ MaxAge # None
    /\ \E p \in pending : t >= p.time + MaxAge

(* Faulty: an occurrence stamped at its very instant is due again. *)
FixedTimeDueAgain(lastFixed, t) ==
    /\ FixedPeriod # None
    /\ \/ lastFixed = None
       \/ MostRecentOccurrence(t) >= lastFixed

FixedTimeDue(lastFixed, t) ==
    /\ FixedPeriod # None
    /\ \/ lastFixed = None
       \/ MostRecentOccurrence(t) > lastFixed

(* The rewritten-history refusal, raised before anything else is looked at. *)
ReplayRefused(hasAbandonedTags) == EveryCommit /\ hasAbandonedTags

AggregateTriggers(pending, lastFixed, t) ==
    {x \in {"max_age"} : MaxAgeDue(pending, t)}
      \cup {x \in {"fixed_time"} : FixedTimeDue(lastFixed, t)}

(* Faulty: the first stamp of a repository gets a trigger of its own, which *)
(* the closed set of the manifest format does not have.                     *)
EvaluateWithInitialTrigger(pending, hasBaseline, lastFixed, t) ==
    IF pending = {} THEN NoDecision
    ELSE [commits |-> {p.id : p \in pending},
          trig    |-> IF hasBaseline THEN {"every_commit"} ELSE {"initial_history"}]

EvaluatePolicy(pending, hasBaseline, lastFixed, t) ==
    LET idsOf(ps) == {p.id : p \in ps}
        latest  == idsOf(LatestPending(pending))
        due     == AggregateTriggers(pending, lastFixed, t)
    IN  IF pending = {}
        THEN NoDecision
        ELSE IF EveryCommit
        THEN [commits |-> IF hasBaseline \/ InitialAll
                          THEN idsOf(pending) ELSE latest,
              trig    |-> {"every_commit"}]
        ELSE IF due = {} THEN NoDecision
        ELSE [commits |-> latest, trig |-> due]
=============================================================================
