---------------------------- MODULE ClusterCompare ----------------------------
(***************************************************************************)
(* How the duplication ratchet (tools/slopo_harness/ratchet.py) compares   *)
(* the clusters of the current sources with the clusters the registry      *)
(* accepts: _match_clusters pairs them, _compare turns the pairs into      *)
(* findings, and _proposal_review_projection decides which accepted        *)
(* classifications a new baseline proposal may keep.                       *)
(*                                                                         *)
(* A member is known by its fingerprint, the digest of its path, symbol,   *)
(* ordinal and body; of these only the body is looked at again.  Documents *)
(* list their clusters in the order of digests, which says nothing about   *)
(* the clusters, so the loop over them may take them in any order.         *)
(***************************************************************************)
EXTENDS Integers, FiniteSets, SequencesExt

CONSTANTS
    Members,   \* the fingerprints of the occurrences
    Bodies,    \* body hashes
    BodyOf,    \* the body of each member
    Tiers,     \* "exact", and the "main" and "loose" semantic profiles
    Profiles,  \* profile fingerprints
    Documents  \* the cluster sets of the manifests and registries compared

BodiesOf(members) == {BodyOf[m] : m \in members}

\* _normalize_cluster: what it takes for a cluster to be accepted at all.
WellFormed(c) ==
    /\ \E m, n \in c.members : m # n
    /\ \/ c.tier = "exact" /\ \A m, n \in c.members : BodyOf[m] = BodyOf[n]
       \/ c.tier # "exact" /\ \E m, n \in c.members : BodyOf[m] # BodyOf[n]

Cluster == {c \in [tier : Tiers, members : SUBSET Members] : WellFormed(c)}

\* The kind follows from the tier, and the fingerprint is the digest of the
\* kind, the tier and the bodies.
KeyOf(c) == [tier |-> c.tier, bodies |-> BodiesOf(c.members)]
KindOf(c) == IF c.tier = "exact" THEN "exact" ELSE "semantic"

\* _normalize_document: no two clusters of a document have one fingerprint.
IsDocument(clusters) ==
    /\ clusters \subseteq Cluster
    /\ \A c, d \in clusters : KeyOf(c) = KeyOf(d) => c = d

\* Fingerprints are digests of a fixed length: there are finitely many.
ASSUME CompareAssumption ==
    /\ IsFiniteSet(Members)
    /\ Tiers \subseteq {"exact", "main", "loose"}
    /\ BodyOf \in [Members -> Bodies]
    /\ \A clusters \in Documents : IsDocument(clusters)

VARIABLES
    current,          \* the clusters of the manifest
    accepted,         \* the clusters of the registry
    currentProfile,
    acceptedProfile,
    pc,               \* "start", "overlaps", "done"
    pending,          \* unmatched_current, the part not looked at yet
    claimed,          \* claimed_accepted
    matched,          \* pairs of a current and an accepted cluster
    ambiguous,        \* pairs of a current cluster and the accepted overlaps
    currentOnly

inputs == <<current, accepted, currentProfile, acceptedProfile>>
vars == <<inputs, pc, pending, claimed, matched, ambiguous, currentOnly>>

-----------------------------------------------------------------------------
(* _match_clusters.                                                        *)

\* Accepted clusters that no current cluster has the key of.
UnmatchedAccepted == {a \in accepted : \A c \in current : KeyOf(c) # KeyOf(a)}

Overlap(c, a) ==
    /\ c.tier = a.tier
    /\ \/ c.members \cap a.members # {}
       \/ BodiesOf(c.members) \cap BodiesOf(a.members) # {}

\* Mutated form: an accepted cluster can be claimed again.
OverlapsOfAny(c) == {a \in UnmatchedAccepted : Overlap(c, a)}

OverlapsOf(c) == {a \in UnmatchedAccepted \ claimed : Overlap(c, a)}

\* Mutated form: one overlap is reported like several.
AmbiguousFromOne(overlaps) == overlaps # {}

IsAmbiguous(overlaps) == \E a, b \in overlaps : a # b

Init ==
    /\ current \in Documents
    /\ accepted \in Documents
    /\ currentProfile \in Profiles
    /\ acceptedProfile \in Profiles
    /\ pc = "start"
    /\ pending = {} /\ claimed = {}
    /\ matched = {} /\ ambiguous = {} /\ currentOnly = {}

\* Clusters of another profile are not compared; a proposal treats the current
\* ones as new.
OtherProfile ==
    /\ pc = "start"
    /\ currentProfile # acceptedProfile
    /\ currentOnly' = current
    /\ pc' = "done"
    /\ UNCHANGED <<inputs, pending, claimed, matched, ambiguous>>

\* The first loop: clusters of the same kind, tier and fingerprint.
MatchSameKey ==
    /\ pc = "start"
    /\ currentProfile = acceptedProfile
    /\ matched' = {pair \in current \X accepted : KeyOf(pair[1]) = KeyOf(pair[2])}
    /\ pending' = {c \in current : \A a \in accepted : KeyOf(c) # KeyOf(a)}
    /\ pc' = "overlaps"
    /\ UNCHANGED <<inputs, claimed, ambiguous, currentOnly>>

\* The second loop: what is left is paired by a shared member or body.
NoOverlap(c) ==
    /\ OverlapsOf(c) = {}
    /\ currentOnly' = currentOnly \cup {c}
    /\ UNCHANGED <<claimed, matched, ambiguous>>

SeveralOverlaps(c) ==
    /\ IsAmbiguous(OverlapsOf(c))
    /\ ambiguous' = ambiguous \cup {<<c, OverlapsOf(c)>>}
    /\ claimed' = claimed \cup OverlapsOf(c)
    /\ UNCHANGED <<matched, currentOnly>>

OneOverlap(c) ==
    /\ ~ IsAmbiguous(OverlapsOf(c))
    /\ \E a \in OverlapsOf(c) :
        /\ matched' = matched \cup {<<c, a>>}
        /\ claimed' = claimed \cup {a}
    /\ UNCHANGED <<ambiguous, currentOnly>>

MatchOverlap ==
    /\ pc = "overlaps"
    /\ \E c \in pending :
        /\ pending' = pending \ {c}
        /\ NoOverlap(c) \/ SeveralOverlaps(c) \/ OneOverlap(c)
    /\ UNCHANGED <<inputs, pc>>

Finish ==
    /\ pc = "overlaps"
    /\ pending = {}
    /\ pc' = "done"
    /\ UNCHANGED <<inputs, pending, claimed, matched, ambiguous, currentOnly>>

Next == OtherProfile \/ MatchSameKey \/ MatchOverlap \/ Finish

Spec == Init /\ [][Next]_vars

AcceptedOnly ==
    IF currentProfile = acceptedProfile THEN UnmatchedAccepted \ claimed ELSE accepted

-----------------------------------------------------------------------------
(* _compare.                                                               *)

\* The clusters a finding is about: at most one of now, and what it was.
Finding(code, now, was) == [code |-> code, now |-> now, was |-> was]

\* Mutated form: members that are gone are not looked at.
AddedOnly(c, a) ==
    IF c.members \subseteq a.members THEN {} ELSE {Finding("new_occurrence", {c}, {a})}

PairFindings(c, a) ==
    IF c.members = a.members THEN {}
    ELSE IF KeyOf(c) # KeyOf(a) THEN {Finding("new_occurrence", {c}, {a})}
    ELSE {Finding("new_occurrence", {c}, {a}) : m \in c.members \ a.members}
         \cup {Finding("stale_baseline", {c}, {a}) : m \in a.members \ c.members}

Findings ==
    IF currentProfile # acceptedProfile THEN {Finding("stale_profile", {}, {})}
    ELSE (UNION {PairFindings(pair[1], pair[2]) : pair \in matched})
         \cup {Finding("ambiguous_cluster_change", {x[1]}, x[2]) : x \in ambiguous}
         \cup {Finding("new_cluster", {c}, {}) : c \in currentOnly}
         \cup {Finding("stale_baseline", {}, {a}) : a \in AcceptedOnly}

-----------------------------------------------------------------------------
(* _member_lineage: how the members of two paired clusters correspond.     *)

\* Mutated form: members are paired whatever their bodies are.
WithAnyBody(members, b) == members

WithBody(members, b) == {m \in members : BodyOf[m] = b}

\* Members of one body, gone from one place and new in another, have moved:
\* they are zipped in a fixed order, and the rest was added or removed.
Moves(now, was, b) ==
    LET new == SetToSeq(WithBody(now \ was, b))
        old == SetToSeq(WithBody(was \ now, b))
    IN  {<<old[i], new[i]>> : i \in 1 .. Len(old) \cap 1 .. Len(new)}

MemberLineage(now, was) ==
    LET moved == UNION {Moves(now, was, b) : b \in BodiesOf(now \cup was)}
    IN  [unchanged |-> now \cap was,
         moved |-> moved,
         added |-> (now \ was) \ {move[2] : move \in moved},
         removed |-> (was \ now) \ {move[1] : move \in moved}]

-----------------------------------------------------------------------------
(* _review_candidates_from_findings: the findings by what is to be reviewed. *)

\* One review covers the clusters of one kind and member set, main and loose.
CandidateOf(c) == [kind |-> KindOf(c), members |-> c.members]

\* _cluster_lineage, of no or one cluster of now and of then.  The review keys
\* follow from the candidates.
ClusterLineage(now, was) ==
    [candidate |-> {CandidateOf(c) : c \in IF now # {} THEN now ELSE was},
     previous |-> {CandidateOf(a) : a \in was},
     members |-> MemberLineage(UNION {c.members : c \in now}, UNION {a.members : a \in was}),
     now |-> now, was |-> was]

LineagesOf(finding) ==
    IF finding.was = {} THEN {ClusterLineage(finding.now, {})}
    ELSE {ClusterLineage(finding.now, {a}) : a \in finding.was}

\* Mutated form: of lineages that agree the first is taken.
FirstLineages(lineages) ==
    LET IdentityOf(l) == <<l.candidate, l.previous, l.members>>
    IN  {CHOOSE l \in lineages : IdentityOf(l) = identity : identity \in {IdentityOf(l) : l \in lineages}}

\* _merge_lineages: lineages that differ in nothing but the tiers.
MergeLineages(lineages) ==
    LET Like(l) == {m \in lineages : /\ m.candidate = l.candidate /\ m.previous = l.previous
                                     /\ m.members = l.members}
    IN  {[l EXCEPT !.now = UNION {m.now : m \in Like(l)},
                   !.was = UNION {m.was : m \in Like(l)}] : l \in lineages}

ReviewCandidates ==
    LET lineages == UNION {LineagesOf(f) : f \in {g \in Findings : g.code # "stale_profile"}}
    IN  {[candidate |-> k, lineages |-> MergeLineages({l \in lineages : l.candidate = k})] :
            k \in {l.candidate : l \in lineages}}

-----------------------------------------------------------------------------
(* _proposal_review_projection.                                            *)

Group(c) == {d \in current : CandidateOf(d) = CandidateOf(c)}

\* Mutated form: whatever was paired counts as unchanged.
IsMatched(c) == \E pair \in matched : pair[1] = c

IsUnchanged(c) ==
    \E pair \in matched :
        pair[1] = c /\ KeyOf(c) = KeyOf(pair[2]) /\ c.members = pair[2].members

RequiresReview(c) == \E d \in Group(c) : ~ IsUnchanged(d)

-----------------------------------------------------------------------------
(* Properties.                                                             *)

\* What the variables range over: an ambiguous cluster has several overlaps.
TypeOK ==
    /\ IsDocument(current) /\ IsDocument(accepted)
    /\ currentProfile \in Profiles /\ acceptedProfile \in Profiles
    /\ pc \in {"start", "overlaps", "done"}
    /\ pending \subseteq current /\ currentOnly \subseteq current
    /\ claimed \subseteq accepted
    /\ matched \subseteq current \X accepted
    /\ \A x \in ambiguous :
        /\ x = <<x[1], x[2]>>
        /\ x[1] \in current /\ x[2] \subseteq accepted
        /\ \E a, b \in x[2] : a # b

Paired(c) == {a \in accepted : <<c, a>> \in matched}
PairedTo(a) == {c \in current : <<c, a>> \in matched}
               \cup {x[1] : x \in {y \in ambiguous : a \in y[2]}}

\* _match_clusters loses nothing and pairs nothing twice: at the end every
\* current cluster is in one of the three lists, paired with at most one accepted
\* cluster, and every accepted cluster is in a pair, in one list of overlaps, or
\* left over.
EachClusterOnce ==
    pc = "done" =>
        /\ \A c \in current :
            LET lists == {Paired(c), {x \in ambiguous : x[1] = c}, {c} \cap currentOnly}
            IN  /\ \E list \in lists : list # {}
                /\ \A p, q \in UNION lists : p = q
        /\ \A a \in accepted :
            /\ a \in AcceptedOnly <=> PairedTo(a) = {}
            /\ \A c, d \in PairedTo(a) : c = d

\* The gate is green exactly when the registry accepts the clusters the sources
\* have: no addition, removal, merge, split or move inside a cluster goes through,
\* in whatever order the loop meets the clusters.
GreenIffAccepted ==
    pc = "done" =>
        (Findings = {} <=> currentProfile = acceptedProfile /\ current = accepted)

\* The lineage of a changed pair accounts for every member once, calls a move only what
\* kept its body, and leaves no body both added and removed.
MembersBalance ==
    \A pair \in matched :
        LET now == pair[1].members  was == pair[2].members
            lineage == MemberLineage(now, was)
            to == {move[2] : move \in lineage.moved}
            from == {move[1] : move \in lineage.moved}
        IN  /\ now = lineage.unchanged \cup to \cup lineage.added
            /\ was = lineage.unchanged \cup from \cup lineage.removed
            /\ Cardinality(to) = Cardinality(lineage.moved)
            /\ Cardinality(from) = Cardinality(lineage.moved)
            /\ \A move \in lineage.moved : BodyOf[move[1]] = BodyOf[move[2]]
            /\ BodiesOf(lineage.added) \cap BodiesOf(lineage.removed) = {}

\* The review candidates of a verdict split its findings: every cluster that some
\* finding names is under exactly one candidate, and no other cluster is under any.
EachFindingReviewed ==
    /\ \A c \in current :
        LET found == {r \in ReviewCandidates : \E l \in r.lineages : c \in l.now}
        IN  Cardinality(found) = IF \E f \in Findings : c \in f.now THEN 1 ELSE 0
    /\ \A a \in accepted :
        LET found == {r \in ReviewCandidates : \E l \in r.lineages : a \in l.was}
        IN  Cardinality(found) = IF \E f \in Findings : a \in f.was THEN 1 ELSE 0

\* The evidence of a comparison balances: nothing that changed is left out of what a
\* person is asked to review, and nothing is there twice.
LineageBalances == pc = "done" => MembersBalance /\ EachFindingReviewed

\* A proposal keeps a classification without asking again only if every cluster it
\* covers, in each profile, is in the registry member for member.
KeptOnlyIfAccepted ==
    pc = "done" => \A c \in current :
        ~ RequiresReview(c) <=> currentProfile = acceptedProfile /\ Group(c) \subseteq accepted
=============================================================================
