------------------------ MODULE TriggerScopes_proofs ------------------------
(***************************************************************************)
(* Proofs about the resolution of the trigger keys, for any of Git's scopes*)
(* and any number of edits.                                                *)
(***************************************************************************)
EXTENDS TriggerScopes, TLAPS

-----------------------------------------------------------------------------
(* Maxima of tiers *)

LEMMA MaxOfTiers ==
    ASSUME NEW S, S \subseteq 0..5, S # {}
    PROVE  Max(S) \in S /\ \A x \in S : x <= Max(S)
<1>1. \E m \in S : \A x \in S : m >= x
  <2>1. CASE 5 \in S
    BY <2>1
  <2>2. CASE 5 \notin S /\ 4 \in S
    BY <2>2
  <2>3. CASE 5 \notin S /\ 4 \notin S /\ 3 \in S
    BY <2>3
  <2>4. CASE 5 \notin S /\ 4 \notin S /\ 3 \notin S /\ 2 \in S
    BY <2>4
  <2>5. CASE 5 \notin S /\ 4 \notin S /\ 3 \notin S /\ 2 \notin S /\ 1 \in S
    BY <2>5
  <2>6. CASE 5 \notin S /\ 4 \notin S /\ 3 \notin S /\ 2 \notin S /\ 1 \notin S
    <3>1. ASSUME NEW x \in S
          PROVE  x = 0
      <4>1. x \in 0..5
        OBVIOUS
      <4>2. x = 0 \/ x = 1 \/ x = 2 \/ x = 3 \/ x = 4 \/ x = 5
        BY <4>1
      <4>3. QED
        BY <2>6, <4>2
    <3>2. 0 \in S
      BY <3>1
    <3>3. QED
      BY <3>1, <3>2
  <2>7. QED
    BY <2>1, <2>2, <2>3, <2>4, <2>5, <2>6
<1>2. Max(S) \in S /\ \A x \in S : Max(S) >= x
  BY <1>1 DEF Max
<1>3. QED
  BY <1>2

LEMMA NarrowestIs ==
    ASSUME NEW S \in SUBSET Scope
    PROVE  /\ Narrowest(S) \in Tier /\ Narrowest(S) \in 0..5
           /\ S = {} <=> Narrowest(S) = Nowhere
           /\ S # {} => Narrowest(S) \in S
           /\ \A x \in S : x <= Narrowest(S)
<1>1. CASE S = {}
  BY <1>1 DEF Narrowest, Tier, Nowhere
<1>2. CASE S # {}
  <2>1. S \subseteq 0..5 /\ Nowhere \notin S
    BY ScopeAssumption DEF Nowhere
  <2>2. Max(S) \in S /\ \A x \in S : x <= Max(S)
    BY <1>2, <2>1, MaxOfTiers
  <2>3. Narrowest(S) = Max(S)
    BY <1>2 DEF Narrowest
  <2>4. QED
    BY <1>2, <2>1, <2>2, <2>3 DEF Tier
<1>3. QED
  BY <1>1, <1>2

-----------------------------------------------------------------------------
(* Types *)

Entry == [scope : Tier, value : Setting]

LEMMA WideTier == Tier \subseteq 0..5 /\ Nowhere \in Tier
BY ScopeAssumption DEF Tier, Nowhere

LEMMA LastEntryIs ==
    ASSUME TypeOK, NEW k \in ValueKeys
    PROVE  /\ LastEntry(k) \in Entry
           /\ LastEntry(k).scope = Narrowest(SetAt(k))
           /\ LastEntry(k).scope # Nowhere => LastEntry(k).value = store[LastEntry(k).scope][k]
<1> DEFINE s == Narrowest(SetAt(k))
<1>1. SetAt(k) \in SUBSET Scope
  BY DEF SetAt
<1>2. s \in Tier
  BY <1>1, NarrowestIs
<1>3. k \in Keys /\ "unset" \in Setting
  BY DEF Keys, Setting
<1>4. CASE s = Nowhere
  <2>1. LastEntry(k) = [scope |-> s, value |-> "unset"]
    BY <1>4 DEF LastEntry
  <2>2. QED
    BY <1>2, <1>3, <1>4, <2>1 DEF Entry
<1>5. CASE s # Nowhere
  <2>1. LastEntry(k) = [scope |-> s, value |-> store[s][k]]
    BY <1>5 DEF LastEntry
  <2>2. s \in Scope
    BY <1>2, <1>5 DEF Tier
  <2>3. store[s][k] \in Setting
    BY <1>3, <2>2 DEF TypeOK
  <2>4. QED
    BY <1>2, <2>1, <2>3 DEF Entry
<1>6. QED
  BY <1>4, <1>5

LEMMA EnablingScopeIs == EnablingScope \in Tier
<1>1. {s \in Scope : store[s]["everycommit"] = "true"} \in SUBSET Scope
  OBVIOUS
<1>2. QED
  BY <1>1, NarrowestIs DEF EnablingScope

LEMMA WinningTierIs ==
    ASSUME NEW e \in [ValueKeys -> Entry], NEW s \in Tier
    PROVE  /\ WinningTier(e, s) \in {s, e["maxage"].scope, e["fixedtime"].scope}
           /\ WinningTier(e, s) \in Tier
           /\ s <= WinningTier(e, s)
           /\ e["maxage"].scope <= WinningTier(e, s)
           /\ e["fixedtime"].scope <= WinningTier(e, s)
<1> DEFINE S == {s, e["maxage"].scope, e["fixedtime"].scope}
<1>1. e["maxage"].scope \in Tier /\ e["fixedtime"].scope \in Tier
  BY DEF ValueKeys, Entry
<1>2. S \subseteq Tier /\ S \subseteq 0..5 /\ S # {}
  BY <1>1, WideTier
<1>3. Max(S) \in S /\ \A x \in S : x <= Max(S)
  BY <1>2, MaxOfTiers
<1>4. WinningTier(e, s) = Max(S)
  BY DEF WinningTier
<1>5. QED
  BY <1>2, <1>3, <1>4

LEMMA OfTierIs ==
    ASSUME NEW e \in [ValueKeys -> Entry], NEW s \in Tier
    PROVE  OfTier(e, s) \in [Keys -> Tier]
<1>1. WinningTier(e, s) \in Tier
  BY WinningTierIs
<1>2. QED
  BY <1>1, WideTier DEF OfTier

Kind == {"none", "policy", "default", "error"}
Outcome == [kind : Kind, from : [Keys -> Tier]]

LEMMA NothingIs == Nothing \in [Keys -> Tier]
BY WideTier DEF Nothing

LEMMA ResolvedIs ==
    ASSUME NEW e \in [ValueKeys -> Entry], NEW s \in Tier
    PROVE  /\ ResolveTriggers(e, s) \in Outcome
           /\ ResolveTriggers(e, s).kind # "policy" => ResolveTriggers(e, s).from = Nothing
           /\ ResolveTriggers(e, s).kind = "policy" =>
                 /\ ResolveTriggers(e, s).from = OfTier(e, s)
                 /\ WinningTier(e, s) # Nowhere
                 /\ ~Rejected(e)
                 /\ ~Unpaired(e, s)
           /\ ResolveTriggers(e, s).kind = "default" => WinningTier(e, s) = Nowhere
           /\ ResolveTriggers(e, s).kind = "error" =>
                 Rejected(e) \/ (WinningTier(e, s) # Nowhere /\ Unpaired(e, s))
<1> DEFINE r == ResolveTriggers(e, s)
<1>0. OfTier(e, s) \in [Keys -> Tier] /\ Nothing \in [Keys -> Tier]
  BY OfTierIs, NothingIs
<1>1. CASE Rejected(e)
  <2>1. r = [kind |-> "error", from |-> Nothing]
    BY <1>1 DEF ResolveTriggers, Result
  <2>2. QED
    BY <1>0, <1>1, <2>1 DEF Outcome, Kind
<1>2. CASE ~Rejected(e) /\ WinningTier(e, s) = Nowhere
  <2>1. r = [kind |-> "default", from |-> Nothing]
    BY <1>2 DEF ResolveTriggers, DefaultPolicy, Result
  <2>2. QED
    BY <1>0, <1>2, <2>1 DEF Outcome, Kind
<1>3. CASE ~Rejected(e) /\ WinningTier(e, s) # Nowhere /\ Unpaired(e, s)
  <2>1. r = [kind |-> "error", from |-> Nothing]
    BY <1>3 DEF ResolveTriggers, Result
  <2>2. QED
    BY <1>0, <1>3, <2>1 DEF Outcome, Kind
<1>4. CASE ~Rejected(e) /\ WinningTier(e, s) # Nowhere /\ ~Unpaired(e, s)
  <2>1. r = [kind |-> "policy", from |-> OfTier(e, s)]
    BY <1>4 DEF ResolveTriggers, Result
  <2>2. QED
    BY <1>0, <1>4, <2>1 DEF Outcome, Kind
<1>5. QED
  BY <1>1, <1>2, <1>3, <1>4

LEMMA InitTyped == Init => TypeOK
<1> SUFFICES ASSUME Init PROVE TypeOK
  OBVIOUS
<1>1. store \in [Scope -> [Keys -> Setting]]
  BY DEF Init, Setting
<1>2. \A s \in Scope, k \in Keys : store[s][k] \in Values(k) \cup {"unset"}
  BY DEF Init
<1>3. entries \in [ValueKeys -> Entry]
  BY WideTier DEF Init, NoEntries, Entry, Setting
<1>4. result \in Outcome /\ result.from = Nothing
  BY NothingIs DEF Init, Result, Outcome, Kind
<1>5. reading \in BOOLEAN /\ torn \in BOOLEAN
  BY DEF Init
<1>6. edits \in 0..MaxEdits
  BY ScopeAssumption DEF Init
<1>7. QED
  BY <1>1, <1>2, <1>3, <1>4, <1>5, <1>6 DEF TypeOK, Entry, Outcome, Kind

LEMMA EditTyped == TypeOK /\ Edit => TypeOK'
<1> SUFFICES ASSUME TypeOK, Edit PROVE TypeOK'
  OBVIOUS
<1>0. PICK s \in Scope, k \in Keys :
          \E v \in Values(k) \cup {"unset"} : store' = [store EXCEPT ![s][k] = v]
  BY DEF Edit
<1>1. PICK v \in Values(k) \cup {"unset"} : store' = [store EXCEPT ![s][k] = v]
  BY <1>0
<1>2. Values(k) \cup {"unset"} \subseteq Setting
  BY DEF Values, Setting
<1>3. store[s] \in [Keys -> Setting] /\ store \in [Scope -> [Keys -> Setting]]
  BY DEF TypeOK
<1>4. [store[s] EXCEPT ![k] = v] \in [Keys -> Setting]
  BY <1>2, <1>3
<1>5. store' = [store EXCEPT ![s] = [store[s] EXCEPT ![k] = v]]
  BY <1>1
<1>6. store' \in [Scope -> [Keys -> Setting]]
  BY <1>3, <1>4, <1>5
<1>7. ASSUME NEW t \in Scope, NEW j \in Keys
      PROVE  store'[t][j] \in Values(j) \cup {"unset"}
  <2>1. store[t][j] \in Values(j) \cup {"unset"}
    BY DEF TypeOK
  <2>2. CASE t = s /\ j = k
    <3>1. store'[t][j] = v
      BY <1>3, <1>5, <2>2
    <3>2. QED
      BY <2>2, <3>1
  <2>3. CASE ~(t = s /\ j = k)
    <3>1. store'[t][j] = store[t][j]
      BY <1>3, <1>5, <2>3
    <3>2. QED
      BY <2>1, <3>1
  <2>4. QED
    BY <2>2, <2>3
<1>8. edits' \in 0..MaxEdits
  BY ScopeAssumption DEF Edit, TypeOK
<1>9. torn' \in BOOLEAN /\ UNCHANGED <<reading, entries, result>>
  BY DEF Edit
<1>10. Nothing' = Nothing
  OBVIOUS
<1>11. QED
  BY <1>6, <1>7, <1>8, <1>9, <1>10 DEF TypeOK

LEMMA ReadValuesTyped == TypeOK /\ ReadValues => TypeOK'
<1> SUFFICES ASSUME TypeOK, ReadValues PROVE TypeOK'
  OBVIOUS
<1>1. entries' = [k \in ValueKeys |-> LastEntry(k)]
  BY DEF ReadValues
<1>2. \A k \in ValueKeys : LastEntry(k) \in Entry
  BY LastEntryIs
<1>3. entries' \in [ValueKeys -> Entry]
  BY <1>1, <1>2
<1>4. result' \in Outcome /\ result'.from = Nothing
  BY NothingIs DEF ReadValues, Result, Outcome, Kind
<1>5. reading' \in BOOLEAN /\ torn' \in BOOLEAN /\ UNCHANGED <<store, edits>>
  BY DEF ReadValues
<1>6. QED
  BY <1>3, <1>4, <1>5 DEF TypeOK, Entry, Outcome, Kind

(* What a read may come to, whatever it found. *)
LEMMA ReadOutcome ==
    ASSUME TypeOK, ReadBooleans
    PROVE  /\ entries \in [ValueKeys -> Entry]
           /\ EnablingScope \in Tier
           /\ \/ result' = ResolveTriggers(entries, EnablingScope)
              \/ /\ \E s \in Scope : store[s]["everycommit"] = "bad"
                 /\ result' = [kind |-> "error", from |-> Nothing]
BY EnablingScopeIs DEF TypeOK, Entry, ReadBooleans, Result

LEMMA ReadBooleansTyped == TypeOK /\ ReadBooleans => TypeOK'
<1> SUFFICES ASSUME TypeOK, ReadBooleans PROVE TypeOK'
  OBVIOUS
<1>1. result' \in Outcome /\ (result'.kind # "policy" => result'.from = Nothing)
  <2>1. CASE result' = ResolveTriggers(entries, EnablingScope)
    BY <2>1, ReadOutcome, ResolvedIs
  <2>2. CASE result' = [kind |-> "error", from |-> Nothing]
    BY <2>2, NothingIs DEF Outcome, Kind
  <2>3. QED
    BY <2>1, <2>2, ReadOutcome
<1>2. entries' \in [ValueKeys -> Entry]
  BY WideTier DEF ReadBooleans, NoEntries, Entry, Setting
<1>3. reading' \in BOOLEAN /\ UNCHANGED <<store, torn, edits>>
  BY DEF ReadBooleans
<1>4. QED
  BY <1>1, <1>2, <1>3 DEF TypeOK, Entry, Outcome, Kind

LEMMA NextTyped == TypeOK /\ [Next]_vars => TypeOK'
<1>1. TypeOK /\ UNCHANGED vars => TypeOK'
  BY DEF TypeOK, vars
<1>2. QED
  BY <1>1, EditTyped, ReadValuesTyped, ReadBooleansTyped DEF Next

(* Every reachable state is well typed, and only a policy takes a key from *)
(* anywhere, for any scopes and any number of edits.                       *)
THEOREM TypeCorrect == Spec => []TypeOK
BY InitTyped, NextTyped, PTL DEF Spec

-----------------------------------------------------------------------------
(* One scope decides, also between two different configurations *)

LEMMA OneScopeOfPolicy ==
    ASSUME NEW e \in [ValueKeys -> Entry], NEW s \in Tier,
           WinningTier(e, s) # Nowhere
    PROVE  \E t \in Scope :
              /\ \A k \in Keys : OfTier(e, s)[k] \in {t, Nowhere}
              /\ \E k \in Keys \ {"timezone"} : OfTier(e, s)[k] = t
<1> DEFINE w == WinningTier(e, s)
<1>1. w \in Scope /\ w \in {s, e["maxage"].scope, e["fixedtime"].scope}
  BY WinningTierIs DEF Tier
<1>2. \A k \in Keys : OfTier(e, s)[k] \in {w, Nowhere}
  BY DEF OfTier
<1>3. \E k \in Keys \ {"timezone"} : OfTier(e, s)[k] = w
  <2>1. CASE w = s
    <3>1. OfTier(e, s)["everycommit"] = w
      BY <2>1 DEF OfTier, Keys
    <3>2. QED
      BY <3>1 DEF Keys
  <2>2. CASE w = e["maxage"].scope
    <3>1. OfTier(e, s)["maxage"] = w
      BY <2>2 DEF OfTier, Keys, ValueKeys
    <3>2. QED
      BY <3>1 DEF Keys, ValueKeys
  <2>3. CASE w = e["fixedtime"].scope
    <3>1. OfTier(e, s)["fixedtime"] = w
      BY <2>3 DEF OfTier, Keys, ValueKeys
    <3>2. QED
      BY <3>1 DEF Keys, ValueKeys
  <2>4. QED
    BY <1>1, <2>1, <2>2, <2>3
<1>4. QED
  BY <1>1, <1>2, <1>3

LEMMA OneScopeStep == TypeOK /\ OneScopeDecides /\ [Next]_vars => OneScopeDecides'
<1> SUFFICES ASSUME TypeOK, OneScopeDecides, [Next]_vars, result'.kind = "policy"
             PROVE  \E s \in Scope :
                       /\ \A k \in Keys : result'.from[k] \in {s, Nowhere}
                       /\ \E k \in Keys \ {"timezone"} : result'.from[k] = s
  BY DEF OneScopeDecides
<1>1. CASE UNCHANGED result
  BY <1>1 DEF OneScopeDecides
<1>2. CASE ReadValues
  BY <1>2 DEF ReadValues, Result
<1>3. CASE ReadBooleans
  <2>1. result' = ResolveTriggers(entries, EnablingScope)
    BY <1>3, ReadOutcome
  <2>2. /\ result'.from = OfTier(entries, EnablingScope)
        /\ WinningTier(entries, EnablingScope) # Nowhere
    BY <1>3, <2>1, ReadOutcome, ResolvedIs
  <2>3. QED
    BY <1>3, <2>2, ReadOutcome, OneScopeOfPolicy
<1>4. QED
  BY <1>1, <1>2, <1>3 DEF Next, Edit, vars

(* However the configuration changes between the reads of _read_raw_entries *)
(* and _read_boolean, a policy has the keys of a single scope and at least  *)
(* one trigger.                                                             *)
THEOREM OneScope == Spec => []OneScopeDecides
<1>1. Init => OneScopeDecides
  BY DEF Init, OneScopeDecides, Result
<1>2. QED
  BY <1>1, TypeCorrect, OneScopeStep, PTL DEF Spec

-----------------------------------------------------------------------------
(* The narrowest enabling scope decides.  The invariant behind it: until    *)
(* the configuration changes, the entries read are those in it.             *)

Fresh == reading /\ ~torn => entries = [k \in ValueKeys |-> LastEntry(k)]

NamedIn(k) == {s \in Scope : Named(s, k)}

LEMMA NarrowestEquals ==
    ASSUME NEW S \in SUBSET Scope, NEW d \in Scope
    PROVE  Narrowest(S) = d <=> d \in S /\ ~ \E x \in S : x > d
<1>1. d # Nowhere /\ d \in 0..5 /\ \A x \in S : x \in 0..5
  BY ScopeAssumption DEF Nowhere
<1>2. ASSUME Narrowest(S) = d
      PROVE  d \in S /\ ~ \E x \in S : x > d
  BY <1>1, <1>2, NarrowestIs
<1>3. ASSUME d \in S, ~ \E x \in S : x > d
      PROVE  Narrowest(S) = d
  <2>1. Narrowest(S) \in S /\ d <= Narrowest(S) /\ Narrowest(S) \in 0..5
    BY <1>3, NarrowestIs
  <2>2. ~(Narrowest(S) > d)
    BY <1>3, <2>1
  <2>3. QED
    BY <1>1, <2>1, <2>2
<1>4. QED
  BY <1>2, <1>3

LEMMA OwnScope ==
    ASSUME TypeOK, NEW k \in Keys,
           NEW e, e = [j \in ValueKeys |-> LastEntry(j)]
    PROVE  /\ NamedIn(k) \in SUBSET Scope
           /\ (IF k = "everycommit" THEN EnablingScope ELSE e[k].scope) = Narrowest(NamedIn(k))
<1>1. NamedIn(k) \in SUBSET Scope
  BY DEF NamedIn
<1>2. CASE k = "everycommit"
  <2>1. NamedIn(k) = {s \in Scope : store[s]["everycommit"] = "true"}
    BY <1>2 DEF NamedIn, Named
  <2>2. QED
    BY <1>1, <1>2, <2>1 DEF EnablingScope
<1>3. CASE k # "everycommit"
  <2>1. k \in ValueKeys
    BY <1>3 DEF Keys
  <2>2. NamedIn(k) = SetAt(k)
    BY <1>3 DEF NamedIn, Named, SetAt
  <2>3. e[k] = LastEntry(k)
    BY <2>1
  <2>4. e[k].scope = Narrowest(SetAt(k))
    BY <2>1, <2>3, LastEntryIs
  <2>5. QED
    BY <1>1, <1>3, <2>2, <2>4
<1>4. QED
  BY <1>2, <1>3

LEMMA EnablingIsNamed ==
    ASSUME NEW s \in Scope
    PROVE  Enabling(s) <=> \/ Named(s, "everycommit")
                          \/ Named(s, "maxage")
                          \/ Named(s, "fixedtime")
BY DEF Enabling, Named

LEMMA TierDecides ==
    ASSUME TypeOK, NEW e, e = [j \in ValueKeys |-> LastEntry(j)]
    PROVE  WinningTier(e, EnablingScope) = Deciding
<1> DEFINE En == {s \in Scope : Enabling(s)}
           w  == WinningTier(e, EnablingScope)
<1>1. e \in [ValueKeys -> Entry] /\ EnablingScope \in Tier
  BY LastEntryIs, EnablingScopeIs
<1>2. En \in SUBSET Scope /\ Deciding = Narrowest(En)
  BY DEF Deciding
<1>3. /\ EnablingScope = Narrowest(NamedIn("everycommit"))
      /\ e["maxage"].scope = Narrowest(NamedIn("maxage"))
      /\ e["fixedtime"].scope = Narrowest(NamedIn("fixedtime"))
  BY OwnScope DEF Keys, ValueKeys
<1>4. /\ NamedIn("everycommit") \subseteq En
      /\ NamedIn("maxage") \subseteq En
      /\ NamedIn("fixedtime") \subseteq En
      /\ \A s \in En : \/ s \in NamedIn("everycommit")
                      \/ s \in NamedIn("maxage")
                      \/ s \in NamedIn("fixedtime")
  BY EnablingIsNamed DEF NamedIn
<1>5. /\ w \in {EnablingScope, e["maxage"].scope, e["fixedtime"].scope}
      /\ w \in 0..5
      /\ EnablingScope <= w /\ e["maxage"].scope <= w /\ e["fixedtime"].scope <= w
  BY <1>1, WinningTierIs, WideTier
<1>6. ASSUME NEW k \in {"everycommit", "maxage", "fixedtime"}
      PROVE  /\ Narrowest(NamedIn(k)) \in 0..5
             /\ Narrowest(NamedIn(k)) <= Narrowest(En)
             /\ \A s \in NamedIn(k) : s <= Narrowest(NamedIn(k))
  <2>1. NamedIn(k) \in SUBSET Scope /\ NamedIn(k) \subseteq En
    BY <1>4 DEF NamedIn
  <2>2. CASE NamedIn(k) = {}
    <3>1. Narrowest(NamedIn(k)) = 0
      BY <2>1, <2>2, NarrowestIs DEF Nowhere
    <3>2. Narrowest(En) \in 0..5
      BY <1>2, NarrowestIs
    <3>3. QED
      BY <2>2, <3>1, <3>2
  <2>3. CASE NamedIn(k) # {}
    <3>1. Narrowest(NamedIn(k)) \in En
      BY <2>1, <2>3, NarrowestIs
    <3>2. QED
      BY <1>2, <2>1, <3>1, NarrowestIs
  <2>4. QED
    BY <2>2, <2>3
<1>7. w <= Narrowest(En)
  BY <1>3, <1>5, <1>6
<1>8. Narrowest(En) \in 0..5
  BY <1>2, NarrowestIs
<1>9. Narrowest(En) <= w
  <2>1. CASE En = {}
    <3>1. Narrowest(En) = 0
      BY <1>2, <2>1, NarrowestIs DEF Nowhere
    <3>2. QED
      BY <1>5, <3>1
  <2>2. CASE En # {}
    <3>1. Narrowest(En) \in En
      BY <1>2, <2>2, NarrowestIs
    <3>2. PICK k \in {"everycommit", "maxage", "fixedtime"} : Narrowest(En) \in NamedIn(k)
      BY <1>4, <3>1
    <3>3. Narrowest(En) <= Narrowest(NamedIn(k)) /\ Narrowest(NamedIn(k)) \in 0..5
      BY <1>6, <3>2
    <3>4. Narrowest(NamedIn(k)) <= w
      BY <1>3, <1>5
    <3>5. QED
      BY <1>5, <1>8, <3>3, <3>4
  <2>3. QED
    BY <2>1, <2>2
<1>10. QED
  BY <1>2, <1>5, <1>7, <1>8, <1>9

(* What counts is what the deciding scope names, but for a hidden timezone. *)
LEMMA FromDeciding ==
    ASSUME TypeOK, NEW e, e = [j \in ValueKeys |-> LastEntry(j)],
           Deciding # Nowhere, NEW k \in Keys
    PROVE  /\ Named(Deciding, k) /\ ~Hidden(k) => OfTier(e, EnablingScope)[k] = Deciding
           /\ ~(Named(Deciding, k) /\ ~Hidden(k)) => OfTier(e, EnablingScope)[k] = Nowhere
<1> DEFINE En == {s \in Scope : Enabling(s)}
           own == IF k = "everycommit" THEN EnablingScope ELSE e[k].scope
<1>1. Deciding \in Scope /\ \A s \in En : ~(s > Deciding)
  <2>1. En \in SUBSET Scope /\ Deciding = Narrowest(En)
    BY DEF Deciding
  <2>2. Deciding \in Scope
    BY <2>1, NarrowestIs DEF Tier
  <2>3. QED
    BY <2>1, <2>2, NarrowestEquals
<1>2. NamedIn(k) \in SUBSET Scope /\ own = Narrowest(NamedIn(k))
  BY OwnScope
<1>3. own = Deciding <=> Deciding \in NamedIn(k) /\ ~ \E x \in NamedIn(k) : x > Deciding
  BY <1>1, <1>2, NarrowestEquals
<1>4. (\E x \in NamedIn(k) : x > Deciding) <=> Hidden(k)
  <2>1. CASE k = "timezone"
    BY <2>1 DEF Hidden, NamedIn
  <2>2. CASE k # "timezone"
    <3>1. NamedIn(k) \subseteq En
      BY <2>2, EnablingIsNamed DEF NamedIn, Keys, ValueKeys
    <3>2. QED
      BY <1>1, <2>2, <3>1 DEF Hidden
  <2>3. QED
    BY <2>1, <2>2
<1>5. own = Deciding <=> Named(Deciding, k) /\ ~Hidden(k)
  BY <1>1, <1>3, <1>4 DEF NamedIn
<1>6. WinningTier(e, EnablingScope) = Deciding
  BY TierDecides
<1>7. OfTier(e, EnablingScope)[k] = IF own = Deciding THEN own ELSE Nowhere
  BY <1>6 DEF OfTier
<1>8. QED
  BY <1>5, <1>7

LEMMA FreshStep == TypeOK /\ Fresh /\ [Next]_vars => Fresh'
<1> SUFFICES ASSUME TypeOK, Fresh, [Next]_vars, reading', ~torn'
             PROVE  entries' = [k \in ValueKeys |-> LastEntry(k)']
  BY DEF Fresh
<1>1. CASE Edit
  BY <1>1 DEF Edit
<1>2. CASE ReadBooleans
  BY <1>2 DEF ReadBooleans
<1>3. CASE ReadValues
  <2>1. entries' = [k \in ValueKeys |-> LastEntry(k)] /\ store' = store
    BY <1>3 DEF ReadValues
  <2>2. ASSUME NEW k \in ValueKeys
        PROVE  LastEntry(k)' = LastEntry(k)
    BY <2>1 DEF LastEntry, Narrowest, SetAt
  <2>3. QED
    BY <2>1, <2>2
<1>4. CASE UNCHANGED vars
  <2>1. entries' = entries /\ store' = store /\ reading /\ ~torn
    BY <1>4 DEF vars
  <2>2. ASSUME NEW k \in ValueKeys
        PROVE  LastEntry(k)' = LastEntry(k)
    BY <2>1 DEF LastEntry, Narrowest, SetAt
  <2>3. QED
    BY <2>1, <2>2 DEF Fresh
<1>5. QED
  BY <1>1, <1>2, <1>3, <1>4 DEF Next

(* ReadBooleans leaves the configuration alone, and what it is read for.   *)
LEMMA SameConfiguration ==
    ASSUME store' = store
    PROVE  /\ Deciding' = Deciding
           /\ \A s \in Scope, k \in Keys : Named(s, k)' = Named(s, k)
           /\ \A k \in Keys : Named(Deciding, k)' = Named(Deciding, k)
           /\ \A k \in Keys : Hidden(k)' = Hidden(k)
<1>1. Deciding' = Deciding
  BY DEF Deciding, Narrowest, Enabling
<1>2. \A s \in Scope, k \in Keys : Named(s, k)' = Named(s, k)
  BY DEF Named
<1>3. \A k \in Keys : Named(Deciding, k)' = Named(Deciding, k)
  BY <1>1 DEF Named
<1>4. \A k \in Keys : Hidden(k)' = Hidden(k)
  BY <1>1 DEF Hidden, Named
<1>5. QED
  BY <1>1, <1>2, <1>3, <1>4

LEMMA ResolvesStep ==
    TypeOK /\ Fresh /\ ResolvesGroup /\ [Next]_vars => ResolvesGroup'
<1> SUFFICES ASSUME TypeOK, Fresh, ResolvesGroup, [Next]_vars, ~torn'
             PROVE  /\ result'.kind = "default" => Deciding' = Nowhere
                    /\ result'.kind = "policy" =>
                          /\ Deciding' # Nowhere
                          /\ \A k \in Keys :
                                result'.from[k] = IF Named(Deciding, k)' /\ ~Hidden(k)'
                                                  THEN Deciding' ELSE Nowhere
  BY DEF ResolvesGroup
<1>1. CASE Edit
  BY <1>1 DEF Edit
<1>2. CASE ReadValues
  BY <1>2 DEF ReadValues, Result
<1>3. CASE ReadBooleans
  <2> DEFINE e == entries
  <2>1. store' = store /\ e = [k \in ValueKeys |-> LastEntry(k)]
    BY <1>3 DEF ReadBooleans, Fresh
  <2>2. WinningTier(e, EnablingScope) = Deciding
    BY <2>1, TierDecides
  <2>3. result'.kind \in {"default", "policy"} => result' = ResolveTriggers(e, EnablingScope)
    BY <1>3, ReadOutcome
  <2>4. result'.kind = "default" => Deciding = Nowhere
    BY <1>3, <2>2, <2>3, ReadOutcome, ResolvedIs
  <2>5. result'.kind = "policy" => Deciding # Nowhere /\ result'.from = OfTier(e, EnablingScope)
    BY <1>3, <2>2, <2>3, ReadOutcome, ResolvedIs
  <2>6. ASSUME result'.kind = "policy", NEW k \in Keys
        PROVE  result'.from[k] = IF Named(Deciding, k) /\ ~Hidden(k)
                                 THEN Deciding ELSE Nowhere
    BY <2>1, <2>5, <2>6, FromDeciding
  <2>7. QED
    BY <2>1, <2>4, <2>5, <2>6, SameConfiguration
<1>4. CASE UNCHANGED vars
  <2>1. store' = store /\ result' = result /\ ~torn
    BY <1>4 DEF vars
  <2>2. QED
    BY <2>1, SameConfiguration DEF ResolvesGroup
<1>5. QED
  BY <1>1, <1>2, <1>3, <1>4 DEF Next

LEMMA RejectsStep ==
    TypeOK /\ Fresh /\ RejectsOnlyAmbiguous /\ [Next]_vars => RejectsOnlyAmbiguous'
<1> DEFINE Unparsed  == \E s \in Scope, k \in Keys : store[s][k] = "bad"
           Parted    == /\ Deciding # Nowhere
                        /\ Named(Deciding, "fixedtime") # Named(Deciding, "timezone")
           Beneath   == Deciding # Nowhere /\ Hidden("timezone")
           Ambiguous == Unparsed \/ Parted \/ Beneath
<1> SUFFICES ASSUME TypeOK, Fresh, RejectsOnlyAmbiguous, [Next]_vars,
                    ~torn', result'.kind = "error"
             PROVE  Ambiguous'
  BY DEF RejectsOnlyAmbiguous
<1>0. store' = store /\ Ambiguous => Ambiguous'
  <2>1. store' = store /\ Unparsed => Unparsed'
    OBVIOUS
  <2>2. store' = store /\ Parted => Parted'
    BY SameConfiguration DEF Keys, ValueKeys
  <2>3. store' = store /\ Beneath => Beneath'
    BY SameConfiguration DEF Keys, ValueKeys
  <2>4. QED
    BY <2>1, <2>2, <2>3
<1>1. CASE Edit
  BY <1>1 DEF Edit
<1>2. CASE ReadValues
  BY <1>2 DEF ReadValues, Result
<1>3. CASE ReadBooleans
  <2> DEFINE e == entries
             o == OfTier(e, EnablingScope)
  <2>1. store' = store /\ e = [k \in ValueKeys |-> LastEntry(k)]
    BY <1>3 DEF ReadBooleans, Fresh
  <2>2. \/ \E s \in Scope : store[s]["everycommit"] = "bad"
        \/ Rejected(e)
        \/ WinningTier(e, EnablingScope) # Nowhere /\ Unpaired(e, EnablingScope)
    BY <1>3, ReadOutcome, ResolvedIs
  <2>3. CASE \E s \in Scope : store[s]["everycommit"] = "bad"
    BY <1>0, <2>1, <2>3 DEF Keys
  <2>4. CASE Rejected(e)
    <3>1. PICK k \in ValueKeys : e[k].value = "bad"
      BY <2>4 DEF Rejected
    <3>2. LastEntry(k).value = "bad"
      BY <2>1, <3>1
    <3>3. LastEntry(k).scope # Nowhere
      BY <3>2 DEF LastEntry
    <3>4. LastEntry(k).scope \in Scope
      BY <3>3, LastEntryIs DEF Entry, Tier
    <3>5. store[LastEntry(k).scope][k] = "bad" /\ k \in Keys
      BY <3>2, <3>3, LastEntryIs DEF Keys
    <3>6. QED
      BY <1>0, <2>1, <3>4, <3>5
  <2>5. CASE WinningTier(e, EnablingScope) # Nowhere /\ Unpaired(e, EnablingScope)
    <3>1. Deciding # Nowhere
      BY <2>1, <2>5, TierDecides
    <3>2. "fixedtime" \in Keys /\ "timezone" \in Keys /\ ~Hidden("fixedtime")
      BY DEF Keys, ValueKeys, Hidden
    <3>3. Named(Deciding, "fixedtime") <=> o["fixedtime"] # Nowhere
      BY <2>1, <3>1, <3>2, FromDeciding
    <3>4. Named(Deciding, "timezone") /\ ~Hidden("timezone") <=> o["timezone"] # Nowhere
      BY <2>1, <3>1, <3>2, FromDeciding
    <3>5. (o["fixedtime"] = Nowhere) # (o["timezone"] = Nowhere)
      BY <2>5 DEF Unpaired
    <3>6. QED
      BY <1>0, <2>1, <3>1, <3>3, <3>4, <3>5
  <2>6. QED
    BY <2>2, <2>3, <2>4, <2>5
<1>4. CASE UNCHANGED vars
  <2>1. store' = store /\ result' = result /\ ~torn
    BY <1>4 DEF vars
  <2>2. Ambiguous
    BY <2>1 DEF RejectsOnlyAmbiguous
  <2>3. QED
    BY <1>0, <2>1, <2>2
<1>5. QED
  BY <1>1, <1>2, <1>3, <1>4 DEF Next

LEMMA InitFresh == Init => Fresh /\ ResolvesGroup /\ RejectsOnlyAmbiguous
BY DEF Init, Fresh, ResolvesGroup, RejectsOnlyAmbiguous, Result

(* Read without an edit in between, a policy is exactly what the narrowest *)
(* scope that enables any trigger says (_resolve_triggers): the maximum    *)
(* over the scopes of the winning entries is the maximum over all scopes.  *)
THEOREM NarrowestScopeDecides == Spec => []ResolvesGroup
BY InitFresh, TypeCorrect, FreshStep, ResolvesStep, PTL DEF Spec

(* Read without an edit in between, only what is ambiguous is refused.     *)
THEOREM RefusesNothingElse == Spec => []RejectsOnlyAmbiguous
BY InitFresh, TypeCorrect, FreshStep, RejectsStep, PTL DEF Spec
=============================================================================
