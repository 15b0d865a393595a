---------------------------- MODULE StampLedger ----------------------------
(***************************************************************************)
(* What git-ots promises of timestamps, whatever happens to files, commits *)
(* and processes: only the holder of the repository lock submits and tags; *)
(* a submission, once accepted, is never taken back; a tag records one     *)
(* accepted submission; tags are never moved or deleted, and one source    *)
(* has one tag per submission time.  OtsRun implements it (Ledger in       *)
(* OtsRunProperties).                                                      *)
(***************************************************************************)

CONSTANTS
    Client,         \* who may hold the lock
    Nobody,         \* the holder of a free lock
    Stamps          \* every possible submission: source, time and triggers

VARIABLES
    holder,         \* who holds the repository lock
    accepted,       \* the submissions the calendars accepted
    tagged          \* the timestamp tags

ledgerVars == <<holder, accepted, tagged>>

Init ==
    /\ holder = Nobody
    /\ accepted = {}
    /\ tagged = {}

(* Does a tag with another content have s's name? *)
NameTaken(s) == \E t \in tagged : t.src = s.src /\ t.at = s.at /\ t # s

Take(p) ==
    /\ holder = Nobody
    /\ holder' = p
    /\ UNCHANGED <<accepted, tagged>>

(* One more submission.  The client may be told of it or fail and give up. *)
Accept(p) ==
    /\ holder = p
    /\ holder' \in {p, Nobody}
    /\ \E s \in accepted' : s \in Stamps /\ accepted' = accepted \cup {s}
    /\ UNCHANGED tagged

Tag(p) ==
    /\ holder = p
    /\ \E s \in accepted : ~NameTaken(s) /\ tagged' = tagged \cup {s}
    /\ UNCHANGED <<holder, accepted>>

(* The work is done, given up or cut short. *)
Leave(p) ==
    /\ holder = p
    /\ holder' = Nobody
    /\ UNCHANGED <<accepted, tagged>>

Next == \E p \in Client : Take(p) \/ Accept(p) \/ Tag(p) \/ Leave(p)

Spec == Init /\ [][Next]_ledgerVars
=============================================================================
