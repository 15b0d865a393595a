--------------------------- MODULE TriggerScopes ---------------------------
(***************************************************************************)
(* Resolution of the trigger keys (gitconfig.py).  The ots.* keys live in  *)
(* Git's scopes; a command reads them with one `git config` for all values *)
(* and one more per boolean key, so an edit may fall in between, and then  *)
(* decides which single scope determines the policy.                       *)
(***************************************************************************)
EXTENDS Naturals, FiniteSetsExt

CONSTANTS
    Scope,          \* Git's scopes by tier (_SCOPE_TIER), the narrowest highest
    MaxEdits        \* bound: edits of the configuration

(* system, global, local, worktree, command *)
ASSUME ScopeAssumption == Scope \subseteq 1..5 /\ MaxEdits \in Nat

VARIABLES
    store,          \* the configuration: scope -> key -> value
    reading,        \* between the first and the last read?
    entries,        \* the value keys as the first read found them
    result,         \* the last outcome
    torn,           \* history: has store changed since that reading began?
    edits

vars == <<store, reading, entries, result, torn, edits>>

ValueKeys == {"maxage", "fixedtime", "timezone"}
Keys == ValueKeys \cup {"everycommit"}

Setting == {"unset", "true", "false", "good", "bad"}

(* What a key may be set to; "bad" does not parse, or has no value at all. *)
Values(k) == IF k = "everycommit" THEN {"true", "false", "bad"} ELSE {"good", "bad"}

Nowhere == 0
Tier == Scope \cup {Nowhere}
Nothing == [k \in Keys |-> Nowhere]

NoEntries == [k \in ValueKeys |-> [scope |-> Nowhere, value |-> "unset"]]

(* Where each trigger of a policy comes from: what `git ots config` shows. *)
Result(kind, from) == [kind |-> kind, from |-> from]

TypeOK ==
    /\ store \in [Scope -> [Keys -> Setting]]
    /\ \A s \in Scope, k \in Keys : store[s][k] \in Values(k) \cup {"unset"}
    /\ reading \in BOOLEAN
    /\ entries \in [ValueKeys -> [scope : Tier, value : Setting]]
    /\ result \in [kind : {"none", "policy", "default", "error"}, from : [Keys -> Tier]]
    /\ result.kind # "policy" => result.from = Nothing
    /\ torn \in BOOLEAN
    /\ edits \in 0..MaxEdits

Init ==
    /\ store = [s \in Scope |-> [k \in Keys |-> "unset"]]
    /\ reading = FALSE
    /\ entries = NoEntries
    /\ result = Result("none", Nothing)
    /\ torn = FALSE
    /\ edits = 0

-----------------------------------------------------------------------------
(* Reading: _read_raw_entries, _read_boolean *)

Narrowest(scopes) == IF scopes = {} THEN Nowhere ELSE Max(scopes)

SetAt(k) == {s \in Scope : store[s][k] # "unset"}

(* Git lists wider scopes first, and the last entry of a key wins. *)
LastEntry(k) ==
    LET s == Narrowest(SetAt(k))
    IN  [scope |-> s, value |-> IF s = Nowhere THEN "unset" ELSE store[s][k]]

(* Faulty: asks Git for the winning value alone. *)
EnablingIfLast ==
    LET s == Narrowest(SetAt("everycommit"))
    IN  IF s # Nowhere /\ store[s]["everycommit"] = "true" THEN s ELSE Nowhere

(* enabling_scope: false is inert, so the narrowest true counts. *)
EnablingScope == Narrowest({s \in Scope : store[s]["everycommit"] = "true"})

-----------------------------------------------------------------------------
(* Resolution: _resolve_triggers, for entries e and enabling scope s *)

Rejected(e) == \E k \in ValueKeys : e[k].value = "bad"

WinningTier(e, s) == Max({s, e["maxage"].scope, e["fixedtime"].scope})

(* Faulty: every key keeps the value of its own scope. *)
EachItsOwn(e, s) == [k \in Keys |-> IF k = "everycommit" THEN s ELSE e[k].scope]

(* The keys of the winning tier; all others are discarded. *)
OfTier(e, s) ==
    [k \in Keys |-> LET own == IF k = "everycommit" THEN s ELSE e[k].scope
                    IN  IF own = WinningTier(e, s) THEN own ELSE Nowhere]

(* Faulty: looks at the keys as read instead of those that count. *)
UnpairedAnywhere(e, s) ==
    (e["fixedtime"].scope = Nowhere) # (e["timezone"].scope = Nowhere)

(* fixedTime without timezone, or timezone without fixedTime *)
Unpaired(e, s) ==
    (OfTier(e, s)["fixedtime"] = Nowhere) # (OfTier(e, s)["timezone"] = Nowhere)

(* Faulty: the built-in maximum age comes on top of what was read. *)
DefaultAdded(e, s) == Result("default", EachItsOwn(e, s))

(* The built-in maximum age: no key counts, not even a timezone. *)
DefaultPolicy(e, s) == Result("default", Nothing)

ResolveTriggers(e, s) ==
    IF Rejected(e) THEN Result("error", Nothing)
    ELSE IF WinningTier(e, s) = Nowhere THEN DefaultPolicy(e, s)
    ELSE IF Unpaired(e, s) THEN Result("error", Nothing)
    ELSE Result("policy", OfTier(e, s))

-----------------------------------------------------------------------------
(* Actions *)

(* The operator's git config *)
Edit ==
    /\ edits < MaxEdits
    /\ \E s \in Scope, k \in Keys : \E v \in Values(k) \cup {"unset"} :
         /\ v # store[s][k]
         /\ store' = [store EXCEPT ![s][k] = v]
    /\ edits' = edits + 1
    /\ torn' = TRUE
    /\ UNCHANGED <<reading, entries, result>>

(* `git config --get-regexp`, the first of the reads *)
ReadValues ==
    /\ ~reading
    /\ reading' = TRUE
    /\ entries' = [k \in ValueKeys |-> LastEntry(k)]
    /\ torn' = FALSE
    /\ result' = Result("none", Nothing)
    /\ UNCHANGED <<store, edits>>

(* `git config --type=bool --get-all`, which fails on any value that is no *)
(* boolean, and the assembly of what was read. *)
ReadBooleans ==
    /\ reading
    /\ reading' = FALSE
    /\ result' = IF \E s \in Scope : store[s]["everycommit"] = "bad"
                 THEN Result("error", Nothing)
                 ELSE ResolveTriggers(entries, EnablingScope)
    /\ entries' = NoEntries
    /\ UNCHANGED <<store, torn, edits>>

Next == Edit \/ ReadValues \/ ReadBooleans

Spec == Init /\ [][Next]_vars

-----------------------------------------------------------------------------
(* Properties.  Read in one go (~torn), the outcome is about store as is.  *)

Enabling(s) ==
    \/ store[s]["everycommit"] = "true"
    \/ \E k \in {"maxage", "fixedtime"} : store[s][k] # "unset"

Deciding == Narrowest({s \in Scope : Enabling(s)})

Named(s, k) == IF k = "everycommit" THEN store[s][k] = "true" ELSE store[s][k] # "unset"

(* No trigger is enabled in a narrower scope, but a timezone may be set.   *)
Hidden(k) == k = "timezone" /\ \E s \in Scope : s > Deciding /\ Named(s, k)

(* A policy is what the narrowest scope that enables any trigger says and  *)
(* nothing else: a false everyCommit neither hides a wider true nor lends  *)
(* its scope, and the default stands only where nothing enables.           *)
ResolvesGroup ==
    ~torn =>
        /\ result.kind = "default" => Deciding = Nowhere
        /\ result.kind = "policy" =>
              /\ Deciding # Nowhere
              /\ \A k \in Keys :
                    result.from[k] = IF Named(Deciding, k) /\ ~Hidden(k)
                                     THEN Deciding ELSE Nowhere

(* A configuration is refused only for a value that does not parse, for a  *)
(* fixedTime and a timezone parted in the deciding scope, or for a         *)
(* timezone in a still narrower one; never for what a wider scope leaves   *)
(* unpaired.                                                               *)
RejectsOnlyAmbiguous ==
    ~torn /\ result.kind = "error" =>
        \/ \E s \in Scope, k \in Keys : store[s][k] = "bad"
        \/ Deciding # Nowhere /\ Named(Deciding, "fixedtime") # Named(Deciding, "timezone")
        \/ Deciding # Nowhere /\ Hidden("timezone")

(* Even when the configuration changes between the reads, no run starts    *)
(* with a mixture of two scopes, nor with a policy that can never fire.    *)
OneScopeDecides ==
    result.kind = "policy" =>
        \E s \in Scope :
            /\ \A k \in Keys : result.from[k] \in {s, Nowhere}
            /\ \E k \in Keys \ {"timezone"} : result.from[k] = s
=============================================================================
