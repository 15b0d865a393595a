----------------------------- MODULE ProofTree -----------------------------
(***************************************************************************)
(* One stored proof as the tree it is (proof_tree.py), and what upgrade    *)
(* passes do to it: the client replaces promises by what calendars filed   *)
(* (external), the pass asks every calendar that still owes something and  *)
(* splices its answer in (upgrade.py, anchors.py), and the file is written *)
(* back.  ProofUpgrade takes the result, a set of attestations, for        *)
(* granted and is about commits and failures; here are the trees.          *)
(*                                                                         *)
(* A node is the sequence of its items: attestations, and operations with  *)
(* the node below them.  What an operation computes is left out: the path  *)
(* of operations from the root stands for the message it leads to.         *)
(***************************************************************************)
EXTENDS Naturals, SequencesExt

CONSTANTS
    None,           \* neither an operation nor an answer
    Calendar,       \* the calendars the proof was submitted to
    Answer,         \* what a calendar may say about a commitment of its own
    MaxFilings,     \* bound: how often calendars change what they say
    MaxCommits      \* bound: how often the proof is committed

VARIABLES
    file,           \* the bytes of the stored proof, as tokens
    committed,      \* the bytes HEAD holds
    filed,          \* each calendar's present answer, or None
    filings,        \* changes of the answers so far
    commits         \* commits so far

vars == <<file, committed, filed, filings, commits>>

-----------------------------------------------------------------------------
(* Trees: Attestation, Branch, Node *)

Attestation(tag, payload) == [op |-> None, tag |-> tag, payload |-> payload, child |-> <<>>]

Pending(url) == Attestation("pending", url)

Branch(op, child) == [op |-> op, tag |-> None, payload |-> None, child |-> child]

IsAttestation(item) == item.op = None

Attestations(node) == SelectSeq(node, IsAttestation)

(* Where the item with operation op is, the last one if it were repeated. *)
BranchAt(node, op) == SelectLastInSeq(node, LAMBDA item : item.op = op)

(* all_attestations, each with its path; `completed` without the promises. *)
RECURSIVE AllAttestations(_, _)
AllAttestations(node, path) ==
    UNION {IF IsAttestation(node[i])
           THEN {[path |-> path, tag |-> node[i].tag, payload |-> node[i].payload]}
           ELSE AllAttestations(node[i].child, Append(path, node[i].op)) : i \in DOMAIN node}

Completed(node) == {a \in AllAttestations(node, <<>>) : a.tag # "pending"}

(* _subtree_has_bitcoin_attestation; classify_detached_proof at the root *)
HasBitcoin(node) == \E a \in AllAttestations(node, <<>>) : a.tag = "bitcoin"

-----------------------------------------------------------------------------
(* Bytes: serialize, parse_timestamp *)

(* Every item but the last is announced by a fork marker. *)
Fork == [op |-> None, tag |-> "fork", payload |-> None]

Token(item) == [op |-> item.op, tag |-> item.tag, payload |-> item.payload]

RECURSIVE Serialize(_)

SerializeItem(item) ==
    <<Token(item)>> \o (IF IsAttestation(item) THEN <<>> ELSE Serialize(item.child))

(* Faulty: announces every item but the first. *)
SerializeForkingLate(node) ==
    FoldLeft(LAMBDA bytes, item : bytes \o <<Fork>> \o SerializeItem(item),
             SerializeItem(Head(node)), Tail(node))

Serialize(node) ==
    FoldLeft(LAMBDA bytes, item : bytes \o <<Fork>> \o SerializeItem(item),
             <<>>, Front(node)) \o SerializeItem(Last(node))

RECURSIVE ParseTimestamp(_)

(* The item at the front of the bytes, and the bytes after it. *)
ParseItem(bytes) ==
    LET token == Head(bytes)
        below == ParseTimestamp(Tail(bytes))
    IN  IF token.op = None
        THEN [item |-> Attestation(token.tag, token.payload), rest |-> Tail(bytes)]
        ELSE [item |-> Branch(token.op, below.node), rest |-> below.rest]

ParseTimestamp(bytes) ==
    IF Head(bytes) = Fork
    THEN LET first == ParseItem(Tail(bytes))
             others == ParseTimestamp(first.rest)
         IN  [node |-> <<first.item>> \o others.node, rest |-> others.rest]
    ELSE LET last == ParseItem(bytes)
         IN  [node |-> <<last.item>>, rest |-> last.rest]

(* parse_proof *)
ParseProof(bytes) == ParseTimestamp(bytes).node

-----------------------------------------------------------------------------
(* Merging: merge_node *)

RECURSIVE MergeNode(_, _)

(* Faulty: what the calendar says of an operation replaces what is there. *)
MergeItemReplacing(target, item) ==
    IF IsAttestation(item)
    THEN IF item \in ToSet(target) THEN target
         ELSE InsertAt(target, Len(Attestations(target)) + 1, item)
    ELSE LET i == BranchAt(target, item.op)
         IN  IF i = 0 THEN Append(target, item) ELSE [target EXCEPT ![i] = item]

(* Faulty: puts every new item at the end. *)
MergeItemAtEnd(target, item) ==
    LET i == BranchAt(target, item.op)
    IN  IF IsAttestation(item)
        THEN IF item \in ToSet(target) THEN target ELSE Append(target, item)
        ELSE IF i = 0 THEN Append(target, item)
        ELSE [target EXCEPT ![i].child = MergeNode(@, item.child)]

(* Faulty: does not look for what is there already. *)
MergeItemAgain(target, item) ==
    IF IsAttestation(item)
    THEN InsertAt(target, Len(Attestations(target)) + 1, item)
    ELSE LET i == BranchAt(target, item.op)
         IN  IF i = 0 THEN Append(target, item)
             ELSE [target EXCEPT ![i].child = MergeNode(@, item.child)]

(* A new attestation goes behind the attestations, a new operation to the  *)
(* end; an operation that is there already is merged below.                *)
MergeItem(target, item) ==
    IF IsAttestation(item)
    THEN IF item \in ToSet(target) THEN target
         ELSE InsertAt(target, Len(Attestations(target)) + 1, item)
    ELSE LET i == BranchAt(target, item.op)
         IN  IF i = 0 THEN Append(target, item)
             ELSE [target EXCEPT ![i].child = MergeNode(@, item.child)]

MergeNode(target, source) == FoldLeft(MergeItem, target, source)

(* Merging into the node that path leads to; the code keeps a reference to *)
(* the node, in CollectibleCalendar.                                       *)
RECURSIVE MergeAt(_, _, _)
MergeAt(node, path, source) ==
    IF path = <<>> THEN MergeNode(node, source)
    ELSE [node EXCEPT ![BranchAt(node, Head(path))].child = MergeAt(@, Tail(path), source)]

-----------------------------------------------------------------------------
(* Collecting: collectible_calendars, _collect_from_calendars *)

(* The promises that no Bitcoin attestation below them fulfils. *)
RECURSIVE CollectibleBelow(_, _)
CollectibleBelow(node, path) ==
    FoldLeft(LAMBDA found, item :
                 IF ~IsAttestation(item)
                 THEN found \o CollectibleBelow(item.child, Append(path, item.op))
                 ELSE IF item.tag = "pending" /\ ~HasBitcoin(node)
                 THEN Append(found, [path |-> path, url |-> item.payload])
                 ELSE found,
             <<>>, node)

CollectibleCalendars(proof) == CollectibleBelow(proof, <<>>)

(* Whom the proof can be completed by: promises with an answer to them,    *)
(* which a calendar files once and not for each commitment.                *)
Answered(proof) == {t \in ToSet(CollectibleCalendars(proof)) : filed[t.url] # None}

(* One calendar after the other; those outside `up` cannot be reached, or  *)
(* say nothing usable.                                                     *)
CollectFrom(proof, up) ==
    FoldLeft(LAMBDA merged, t :
                 IF t \in up THEN MergeAt(merged, t.path, filed[t.url]) ELSE merged,
             proof, CollectibleCalendars(proof))

(* The last look before the merged proof may replace the stored one: tags  *)
(* and payloads, wherever they are.                                        *)
Attested(proof) == {[tag |-> a.tag, payload |-> a.payload] : a \in AllAttestations(proof, <<>>)}

(* The OpenTimestamps client, which OpenTimestampsCli.upgrade calls,       *)
(* replaces a promise by the answer to it.                                 *)
RECURSIVE Drop(_, _, _)
Drop(node, path, url) ==
    IF path = <<>> THEN SelectSeq(node, LAMBDA item : item # Pending(url))
    ELSE [node EXCEPT ![BranchAt(node, Head(path))].child = Drop(@, Tail(path), url)]

ClientUpgrade(proof, up) ==
    FoldLeft(LAMBDA merged, t :
                 IF t \in up THEN Drop(MergeAt(merged, t.path, filed[t.url]), t.path, t.url)
                 ELSE merged,
             proof, CollectibleCalendars(proof))

-----------------------------------------------------------------------------
(* Reporting and recognising *)

(* describe_anchors: the Bitcoin attestations, each with the calendars     *)
(* whose promises came before it on its way from the root.                 *)
RECURSIVE Anchors(_, _, _)
Anchors(node, path, calendars) ==
    LET inScope(i) == calendars \cup
            {node[j].payload : j \in {j \in 1..(i - 1) : node[j].tag = "pending"}}
    IN  UNION {IF ~IsAttestation(node[i])
               THEN Anchors(node[i].child, Append(path, node[i].op), inScope(i))
               ELSE IF node[i].tag = "bitcoin"
               THEN {[path |-> path, block |-> node[i].payload, calendars |-> inScope(i)]}
               ELSE {} : i \in DOMAIN node}

DescribeAnchors(proof) == Anchors(proof, <<>>, {})

(* Faulty: wants every attestation back, promises too. *)
KeepsEverything(old, new) ==
    AllAttestations(ParseProof(old), <<>>) \subseteq AllAttestations(ParseProof(new), <<>>)

(* _is_additive_upgrade: are these bytes those, upgraded? *)
IsAdditiveUpgrade(old, new) ==
    Completed(ParseProof(old)) \subseteq Completed(ParseProof(new))

-----------------------------------------------------------------------------
(* Behaviour *)

(* The submission was merged from one branch per calendar, which ends in   *)
(* the calendar's promise.                                                 *)
Submission == LET order == SetToSeq(Calendar)
              IN  [i \in DOMAIN order |-> Branch(order[i], <<Pending(order[i])>>)]

Init ==
    /\ file = Serialize(Submission)
    /\ committed = file
    /\ filed = [k \in Calendar |-> None]
    /\ filings = 0
    /\ commits = 0

(* A calendar has something to say, or something else than before. *)
CalendarFiles(k) ==
    /\ filings < MaxFilings
    /\ filings' = filings + 1
    /\ \E a \in Answer \ {filed[k]} : filed' = [filed EXCEPT ![k] = a]
    /\ UNCHANGED <<file, committed, commits>>

(* One candidate of a pass, unless the scan passes it over.  The client is *)
(* called only for a proof without any Bitcoin attestation; the file is    *)
(* replaced if anything changed.                                           *)
Upgrade ==
    LET stored == ParseProof(file)
    IN  /\ IsAdditiveUpgrade(committed, file)
        /\ \E byClient \in SUBSET Answered(stored) :
              LET current == ClientUpgrade(stored, byClient)
              IN  /\ HasBitcoin(stored) => byClient = {}
                  /\ \E up \in SUBSET Answered(current) :
                        LET merged == CollectFrom(current, up)
                        IN  /\ Attested(current) \subseteq Attested(merged)
                            /\ file' = Serialize(merged)
        /\ UNCHANGED <<committed, filed, filings, commits>>

(* The pass, or a later one that recovers the upgrade, gets to commit it.  *)
Commit ==
    /\ commits < MaxCommits
    /\ committed # file
    /\ IsAdditiveUpgrade(committed, file)
    /\ committed' = file
    /\ commits' = commits + 1
    /\ UNCHANGED <<file, filed, filings>>

Next == (\E k \in Calendar : CalendarFiles(k)) \/ Upgrade \/ Commit

Spec == Init /\ [][Next]_vars

-----------------------------------------------------------------------------
(* Properties *)

Stored == ParseProof(file)

(* A stored proof is a tree without empty nodes, in which attestations     *)
(* come before operations and no operation is repeated.                    *)
RECURSIVE WellFormed(_)
WellFormed(node) ==
    /\ node # <<>>
    /\ \A i, j \in DOMAIN node : i < j =>
          /\ IsAttestation(node[j]) => IsAttestation(node[i])
          /\ node[i] # node[j] /\ (node[i].op # node[j].op \/ IsAttestation(node[i]))
    /\ \A i \in DOMAIN node : IsAttestation(node[i]) \/ WellFormed(node[i].child)

TypeOK ==
    /\ WellFormed(Stored)
    /\ ParseTimestamp(file).rest = <<>>
    /\ filed \in [Calendar -> Answer \cup {None}]

(* What is written is read back, byte for byte and node for node, also     *)
(* whatever a pass would write next.                                       *)
ReadsBack ==
    /\ Serialize(Stored) = file
    /\ \A up \in SUBSET Answered(Stored) :
          LET merged == CollectFrom(Stored, up)
          IN  ParseTimestamp(Serialize(merged)) = [node |-> merged, rest |-> <<>>]

(* What an answer attests to, seen from the root. *)
Contribution(t) == AllAttestations(filed[t.url], t.path)

(* Collecting adds exactly what the calendars answered, each answer below  *)
(* its own promise, and loses nothing: no completed attestation, no        *)
(* promise, not even where an answer repeats or revises what is there.     *)
CollectsExactly ==
    \A up \in SUBSET Answered(Stored) :
        AllAttestations(CollectFrom(Stored, up), <<>>) =
            AllAttestations(Stored, <<>>) \cup UNION {Contribution(t) : t \in up}

(* The same answer, merged again, changes no byte: scheduled passes do not *)
(* rewrite, and commit, a proof for ever.                                  *)
MergesOnce ==
    \A t \in Answered(Stored) :
        LET once == MergeAt(Stored, t.path, filed[t.url])
        IN  MergeAt(once, t.path, filed[t.url]) = once

(* Whatever a chain of interrupted passes left on disk is recognised as an *)
(* upgrade of what HEAD holds, although the client drops promises: it is   *)
(* recovered and committed, never skipped as somebody else's proof.        *)
AlwaysRecognised == IsAdditiveUpgrade(committed, file)

(* Each Bitcoin attestation below a calendar's promise is credited to that *)
(* calendar by the report, in whatever order the answers came in.          *)
Credited ==
    \A a \in AllAttestations(Stored, <<>>), b \in DescribeAnchors(Stored) :
        a.tag = "pending" /\ IsStrictPrefix(a.path, b.path) => a.payload \in b.calendars
=============================================================================
