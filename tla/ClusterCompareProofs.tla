------------------------- MODULE ClusterCompareProofs -------------------------
(***************************************************************************)
(* What the comparison of clusters promises, for documents of any size and *)
(* whatever order the loop of _match_clusters takes.                       *)
(***************************************************************************)
EXTENDS ClusterCompare, FiniteSetTheorems, TLAPS

SameProfile == currentProfile = acceptedProfile

Unmatched(c) == \A a \in accepted : KeyOf(c) # KeyOf(a)

\* A pair has one key, or was made by the second loop from what had none.
PairInv ==
    /\ \A c \in current, a \in accepted : KeyOf(c) = KeyOf(a) => <<c, a>> \in matched
    /\ \A c, a : <<c, a>> \in matched =>
        /\ c.tier = a.tier
        /\ \/ KeyOf(c) = KeyOf(a)
           \/ Unmatched(c) /\ a \in UnmatchedAccepted /\ a \in claimed

\* Every current cluster without a pair of its key is in one place.
CurrentInv ==
    /\ \A c \in pending \cup currentOnly : Unmatched(c)
    /\ \A x \in ambiguous : Unmatched(x[1])
    /\ \A c \in current : Unmatched(c) =>
        \/ c \in pending
        \/ c \in currentOnly
        \/ \E a \in accepted : <<c, a>> \in matched
        \/ \E x \in ambiguous : x[1] = c
    /\ \A c \in pending : c \notin currentOnly
    /\ \A c, a : <<c, a>> \in matched => c \notin pending /\ c \notin currentOnly
    /\ \A x \in ambiguous : x[1] \notin pending /\ x[1] \notin currentOnly
    /\ \A x \in ambiguous : \A a : <<x[1], a>> \notin matched
    /\ \A c, a, b : <<c, a>> \in matched /\ <<c, b>> \in matched => a = b
    /\ \A x, y \in ambiguous : x[1] = y[1] => x = y

\* Every accepted cluster is claimed at most once.
ClaimInv ==
    /\ claimed \subseteq UnmatchedAccepted
    /\ \A a \in claimed :
        \/ \E c \in current : <<c, a>> \in matched
        \/ \E x \in ambiguous : a \in x[2]
    /\ \A x \in ambiguous : x[2] \subseteq claimed
    /\ \A c, a, d : <<c, a>> \in matched /\ <<d, a>> \in matched => c = d
    /\ \A x \in ambiguous : \A c, a : a \in x[2] => <<c, a>> \notin matched
    /\ \A x, y \in ambiguous : \A a : a \in x[2] /\ a \in y[2] => x = y

PhaseInv ==
    /\ pc = "start" => matched = {} /\ ambiguous = {} /\ claimed = {}
                       /\ pending = {} /\ currentOnly = {}
    /\ pc = "overlaps" => SameProfile
    /\ pc = "done" => pending = {}
    /\ pc = "done" /\ ~ SameProfile =>
        matched = {} /\ ambiguous = {} /\ claimed = {} /\ currentOnly = current

IInv ==
    /\ TypeOK
    /\ PhaseInv
    /\ pc # "start" /\ SameProfile => PairInv /\ CurrentInv /\ ClaimInv

-----------------------------------------------------------------------------
\* The tier is part of the key.
LEMMA KeyHasTier == ASSUME NEW c, NEW a, KeyOf(c) = KeyOf(a) PROVE c.tier = a.tier
BY DEF KeyOf

\* A cluster is its tier and its members.
LEMMA ClusterExtensional ==
    ASSUME NEW c \in Cluster, NEW a \in Cluster, c.tier = a.tier, c.members = a.members
    PROVE  c = a
BY DEF Cluster

LEMMA Initial == Init => IInv
BY CompareAssumption DEF Init, IInv, TypeOK, PhaseInv

\* The first loop finds the pairs of one key, and no cluster is in two of them.
LEMMA SameKeyStep == IInv /\ MatchSameKey => IInv'
<1> SUFFICES ASSUME IInv, MatchSameKey PROVE IInv'
    OBVIOUS
<1> USE DEF MatchSameKey, inputs
<1>1. TypeOK'
    BY DEF IInv, TypeOK, PhaseInv
<1>2. PhaseInv'
    BY DEF IInv, PhaseInv, SameProfile
<1>3. \A c, a : <<c, a>> \in matched' <=> c \in current /\ a \in accepted /\ KeyOf(c) = KeyOf(a)
    OBVIOUS
<1>4. PairInv'
    BY <1>3, KeyHasTier DEF PairInv
<1>5. CurrentInv'
    <2>1. ambiguous' = {} /\ currentOnly' = {}
        BY DEF IInv, PhaseInv
    <2>2. \A c, a, b : <<c, a>> \in matched' /\ <<c, b>> \in matched' => a = b
        BY <1>3 DEF IInv, TypeOK, IsDocument
    <2>3. \A c \in pending' : Unmatched(c)' /\ \A a : <<c, a>> \notin matched'
        BY <1>3 DEF Unmatched
    <2>4. \A c \in current' : Unmatched(c)' => c \in pending'
        BY DEF Unmatched
    <2> QED BY <2>1, <2>2, <2>3, <2>4 DEF CurrentInv
<1>6. ClaimInv'
    <2>1. ambiguous' = {} /\ claimed' = {}
        BY DEF IInv, PhaseInv
    <2>2. \A c, a, d : <<c, a>> \in matched' /\ <<d, a>> \in matched' => c = d
        BY <1>3 DEF IInv, TypeOK, IsDocument
    <2> QED BY <2>1, <2>2 DEF ClaimInv
<1> QED BY <1>1, <1>2, <1>4, <1>5, <1>6 DEF IInv

\* A step of the second loop moves one cluster from pending to its place.
LEMMA OverlapStep == IInv /\ MatchOverlap => IInv'
<1> SUFFICES ASSUME IInv, MatchOverlap PROVE IInv'
    OBVIOUS
<1>1. PICK c \in pending :
        pending' = pending \ {c} /\ (NoOverlap(c) \/ SeveralOverlaps(c) \/ OneOverlap(c))
    BY DEF MatchOverlap
<1>2. pc = "overlaps" /\ UNCHANGED <<inputs, pc>>
    BY DEF MatchOverlap
<1>3. TypeOK /\ SameProfile /\ PairInv /\ CurrentInv /\ ClaimInv
    BY <1>2 DEF IInv, PhaseInv
<1>4. c \in current /\ Unmatched(c) /\ c \notin currentOnly
      /\ (\A a : <<c, a>> \notin matched) /\ (\A x \in ambiguous : x[1] # c)
    BY <1>1, <1>3 DEF CurrentInv, TypeOK
<1>5. OverlapsOf(c) \subseteq UnmatchedAccepted \ claimed /\ UnmatchedAccepted \subseteq accepted
    BY DEF OverlapsOf, UnmatchedAccepted
<1>6. PhaseInv'
    BY <1>2, <1>3 DEF PhaseInv, SameProfile, inputs
<1>7. /\ UnmatchedAccepted' = UnmatchedAccepted
      /\ current' = current /\ accepted' = accepted
      /\ \A d : Unmatched(d)' <=> Unmatched(d)
    BY <1>2 DEF UnmatchedAccepted, Unmatched, inputs
<1>8. CASE NoOverlap(c)
    <2> USE <1>8 DEF NoOverlap
    <2>1. TypeOK'
        BY <1>1, <1>2, <1>3, <1>4 DEF TypeOK, inputs
    <2>2. PairInv'
        BY <1>3, <1>7 DEF PairInv
    <2>3. CurrentInv'
        BY <1>1, <1>3, <1>4, <1>7 DEF CurrentInv
    <2>4. ClaimInv'
        BY <1>3, <1>7 DEF ClaimInv
    <2> QED BY <1>6, <2>1, <2>2, <2>3, <2>4 DEF IInv
<1>9. CASE SeveralOverlaps(c)
    <2> DEFINE e == <<c, OverlapsOf(c)>>
    <2>0. ambiguous' = ambiguous \cup {e} /\ claimed' = claimed \cup OverlapsOf(c)
          /\ matched' = matched /\ currentOnly' = currentOnly
          /\ e[1] = c /\ e[2] = OverlapsOf(c) /\ \E a, b \in OverlapsOf(c) : a # b
        BY <1>9 DEF SeveralOverlaps, IsAmbiguous
    <2>1. TypeOK'
        <3>1. \A x \in ambiguous' : x = <<x[1], x[2]>> /\ x[1] \in current /\ x[2] \subseteq accepted
                                    /\ \E a, b \in x[2] : a # b
            BY <1>3, <1>4, <1>5, <2>0 DEF TypeOK
        <3> QED BY <1>1, <1>2, <1>3, <1>5, <2>0, <3>1 DEF TypeOK, inputs
    <2>2. PairInv'
        BY <1>3, <1>7, <2>0 DEF PairInv
    <2> HIDE DEF e
    <2>3. CurrentInv'
        BY <1>1, <1>3, <1>4, <1>7, <2>0 DEF CurrentInv
    <2>4. ClaimInv'
        <3>1. \A a \in OverlapsOf(c) : a \notin claimed /\ a \in UnmatchedAccepted
            BY <1>5
        <3>2. \A x \in ambiguous : x[2] \cap OverlapsOf(c) = {}
            BY <1>3, <3>1 DEF ClaimInv
        <3>3. \A d, a : <<d, a>> \in matched => a \notin OverlapsOf(c)
            <4>1. SUFFICES ASSUME NEW d, NEW a, <<d, a>> \in matched, a \in OverlapsOf(c) PROVE FALSE
                OBVIOUS
            <4>2. d \in current /\ a \in accepted
                BY <1>3, <4>1 DEF TypeOK
            <4> QED BY <1>3, <3>1, <4>1, <4>2 DEF PairInv, UnmatchedAccepted
        <3> QED BY <1>3, <1>7, <2>0, <3>1, <3>2, <3>3 DEF ClaimInv
    <2> QED BY <1>6, <2>1, <2>2, <2>3, <2>4 DEF IInv
<1>10. CASE OneOverlap(c)
    <2>0. PICK a \in OverlapsOf(c) : matched' = matched \cup {<<c, a>>} /\ claimed' = claimed \cup {a}
        BY <1>10 DEF OneOverlap
    <2>a. ambiguous' = ambiguous /\ currentOnly' = currentOnly
        BY <1>10 DEF OneOverlap
    <2>b. a \in accepted /\ a \in UnmatchedAccepted /\ a \notin claimed /\ c.tier = a.tier
        BY <1>5, <2>0 DEF OverlapsOf, Overlap
    <2>c. \A d, b : <<d, b>> \in matched' <=> <<d, b>> \in matched \/ (d = c /\ b = a)
        BY <2>0
    <2>d. \A d : <<d, a>> \notin matched
        <3>1. SUFFICES ASSUME NEW d, <<d, a>> \in matched PROVE FALSE
            OBVIOUS
        <3>2. d \in current
            BY <1>3, <3>1 DEF TypeOK
        <3> QED BY <1>3, <2>b, <3>1, <3>2 DEF PairInv, UnmatchedAccepted
    <2>1. TypeOK'
        BY <1>1, <1>2, <1>3, <1>4, <2>0, <2>a, <2>b DEF TypeOK, inputs
    <2>2. PairInv'
        BY <1>3, <1>4, <1>7, <2>0, <2>b, <2>c DEF PairInv
    <2>3. CurrentInv'
        BY <1>1, <1>3, <1>4, <1>7, <2>a, <2>b, <2>c DEF CurrentInv
    <2>4. ClaimInv'
        BY <1>3, <1>4, <1>7, <2>0, <2>a, <2>b, <2>c, <2>d DEF ClaimInv
    <2> QED BY <1>6, <2>1, <2>2, <2>3, <2>4 DEF IInv
<1> QED BY <1>1, <1>8, <1>9, <1>10

LEMMA Inductive == IInv /\ [Next]_vars => IInv'
<1> SUFFICES ASSUME IInv, [Next]_vars PROVE IInv'
    OBVIOUS
<1>1. CASE OtherProfile
    BY <1>1 DEF OtherProfile, inputs, IInv, TypeOK, PhaseInv, SameProfile
<1>2. CASE MatchSameKey
    BY <1>2, SameKeyStep
<1>3. CASE MatchOverlap
    BY <1>3, OverlapStep
<1>4. CASE Finish
    BY <1>4 DEF Finish, inputs, IInv, TypeOK, PhaseInv, SameProfile, PairInv, CurrentInv,
        ClaimInv, Unmatched, UnmatchedAccepted
<1>5. CASE UNCHANGED vars
    BY <1>5 DEF vars, inputs, IInv, TypeOK, PhaseInv, SameProfile, PairInv, CurrentInv,
        ClaimInv, Unmatched, UnmatchedAccepted
<1> QED BY <1>1, <1>2, <1>3, <1>4, <1>5 DEF Next

THEOREM Invariance == Spec => []IInv
BY Initial, Inductive, PTL DEF Spec

-----------------------------------------------------------------------------
(* The theorems.                                                           *)

\* Every variable keeps its type: an ambiguous cluster has several overlaps.
THEOREM TypeCorrect == Spec => []TypeOK
BY Invariance, PTL DEF IInv

\* At the end nothing is pending, so the places of CurrentInv and ClaimInv are the
\* three lists.
LEMMA SharesOut == IInv => EachClusterOnce
<1> SUFFICES ASSUME IInv, pc = "done" PROVE EachClusterOnce
    BY DEF EachClusterOnce
<1> DEFINE Lists(c) == {Paired(c), {x \in ambiguous : x[1] = c}, {c} \cap currentOnly}
<1>1. CASE ~ SameProfile
    <2>1. matched = {} /\ ambiguous = {} /\ currentOnly = current /\ AcceptedOnly = accepted
        BY <1>1 DEF IInv, PhaseInv, SameProfile, AcceptedOnly
    <2>2. \A a \in accepted : PairedTo(a) = {}
        BY <2>1 DEF PairedTo
    <2>3. \A c \in current : Lists(c) = {{}, {c}}
        BY <2>1 DEF Paired
    <2> QED BY <2>1, <2>2, <2>3 DEF EachClusterOnce
<1>2. CASE SameProfile
    <2>1. TypeOK /\ PairInv /\ CurrentInv /\ ClaimInv /\ pending = {}
        BY <1>2 DEF IInv, PhaseInv
    <2>2. AcceptedOnly = UnmatchedAccepted \ claimed
        BY <1>2 DEF AcceptedOnly, SameProfile
    <2>3. ASSUME NEW c \in current
          PROVE  (\E list \in Lists(c) : list # {}) /\ \A p, q \in UNION Lists(c) : p = q
        <3>1. (\E a \in accepted : <<c, a>> \in matched) \/ (\E x \in ambiguous : x[1] = c)
              \/ c \in currentOnly
            BY <2>1, <2>3 DEF PairInv, CurrentInv, Unmatched
        <3>2. Paired(c) # {} \/ {x \in ambiguous : x[1] = c} # {} \/ {c} \cap currentOnly # {}
            BY <3>1 DEF Paired
        <3>3. \A a, b \in Paired(c) : a = b
            BY <2>1 DEF Paired, CurrentInv
        <3>4. Paired(c) # {} => c \notin currentOnly /\ {x \in ambiguous : x[1] = c} = {}
            BY <2>1 DEF Paired, CurrentInv
        <3>5. {x \in ambiguous : x[1] = c} # {} => c \notin currentOnly
            BY <2>1 DEF CurrentInv
        <3>6. \A x, y \in {z \in ambiguous : z[1] = c} : x = y
            BY <2>1 DEF CurrentInv
        <3>7. \E list \in Lists(c) : list # {}
            BY <3>2
        <3>8. \A p, q \in UNION Lists(c) : p = q
            BY <3>3, <3>4, <3>5, <3>6
        <3> QED BY <3>7, <3>8
    <2>4. ASSUME NEW a \in accepted
          PROVE  (a \in AcceptedOnly <=> PairedTo(a) = {}) /\ \A c, d \in PairedTo(a) : c = d
        <3>1. ASSUME a \in claimed PROVE PairedTo(a) # {}
            <4>1. CASE \E c \in current : <<c, a>> \in matched
                BY <4>1 DEF PairedTo
            <4>2. CASE \E x \in ambiguous : a \in x[2]
                <5>1. PICK x \in ambiguous : a \in x[2]
                    BY <4>2
                <5>2. x[1] \in PairedTo(a)
                    BY <5>1 DEF PairedTo
                <5> QED BY <5>2
            <4> QED BY <2>1, <3>1, <4>1, <4>2 DEF ClaimInv
        <3>2. a \notin UnmatchedAccepted => PairedTo(a) # {}
            BY <2>1, <2>4 DEF UnmatchedAccepted, PairedTo, PairInv
        <3>3. a \in UnmatchedAccepted \ claimed => PairedTo(a) = {}
            <4>1. SUFFICES ASSUME a \in UnmatchedAccepted \ claimed, NEW c \in PairedTo(a) PROVE FALSE
                OBVIOUS
            <4>2. CASE c \in current /\ <<c, a>> \in matched
                BY <2>1, <4>1, <4>2 DEF PairInv, UnmatchedAccepted
            <4>3. CASE \E y \in ambiguous : a \in y[2]
                BY <2>1, <4>1, <4>3 DEF ClaimInv
            <4> QED BY <4>1, <4>2, <4>3 DEF PairedTo
        <3>4. \A c, d \in PairedTo(a) : c = d
            BY <2>1 DEF PairedTo, ClaimInv
        <3> QED BY <2>2, <3>1, <3>2, <3>3, <3>4
    <2> QED BY <2>3, <2>4 DEF EachClusterOnce
<1> QED BY <1>1, <1>2

\* The three lists of _match_clusters share the clusters out, for documents of any
\* size: none is lost and none is used twice.
THEOREM MatchedOnce == Spec => []EachClusterOnce
BY SharesOut, Invariance, PTL

\* The verdict of the ratchet for any documents: green exactly when the registry of
\* the same profile accepts the clusters of the sources, member for member.
THEOREM GreenMeansAccepted == Spec => []GreenIffAccepted
<1>1. IInv => GreenIffAccepted
    <2> SUFFICES ASSUME IInv, pc = "done"
                 PROVE  Findings = {} <=> SameProfile /\ current = accepted
        BY DEF GreenIffAccepted, SameProfile
    <2>1. CASE ~ SameProfile
        BY <2>1 DEF Findings, SameProfile
    <2>2. CASE SameProfile
        <3>1. TypeOK /\ PairInv /\ CurrentInv /\ ClaimInv /\ pending = {}
            BY <2>2 DEF IInv, PhaseInv
        <3>2. AcceptedOnly = UnmatchedAccepted \ claimed
            BY <2>2 DEF AcceptedOnly, SameProfile
        <3>3. Findings = {} <=>
                /\ \A pair \in matched : PairFindings(pair[1], pair[2]) = {}
                /\ ambiguous = {} /\ currentOnly = {} /\ AcceptedOnly = {}
            <4> DEFINE Pairs == UNION {PairFindings(pair[1], pair[2]) : pair \in matched}
                       Merges == {Finding("ambiguous_cluster_change", {x[1]}, x[2])
                                    : x \in ambiguous}
                       New == {Finding("new_cluster", {c}, {}) : c \in currentOnly}
                       Gone == {Finding("stale_baseline", {}, {a})
                                    : a \in AcceptedOnly}
            <4>1. Findings = Pairs \cup Merges \cup New \cup Gone
                BY <2>2 DEF Findings, SameProfile
            <4>2. Pairs = {} <=> \A pair \in matched : PairFindings(pair[1], pair[2]) = {}
                OBVIOUS
            <4>3. (Merges = {} <=> ambiguous = {}) /\ (New = {} <=> currentOnly = {})
                  /\ (Gone = {} <=> AcceptedOnly = {})
                OBVIOUS
            <4> HIDE DEF Pairs, Merges, New, Gone
            <4> QED BY <4>1, <4>2, <4>3
        <3>4. current \subseteq Cluster /\ accepted \subseteq Cluster
            BY <3>1 DEF TypeOK, IsDocument
        <3>5. ASSUME current = accepted PROVE Findings = {}
            <4>1. UnmatchedAccepted = {} /\ \A c \in current : ~ Unmatched(c)
                BY <3>5 DEF UnmatchedAccepted, Unmatched
            <4>2. ambiguous = {} /\ currentOnly = {} /\ AcceptedOnly = {}
                BY <3>1, <3>2, <4>1 DEF TypeOK, CurrentInv
            <4>3. ASSUME NEW pair \in matched PROVE pair[1].members = pair[2].members
                <5>1. pair[1] \in current /\ pair[2] \in current /\ <<pair[1], pair[2]>> \in matched
                    BY <3>1, <3>5 DEF TypeOK
                <5>2. KeyOf(pair[1]) = KeyOf(pair[2])
                    BY <3>1, <4>1, <5>1 DEF PairInv
                <5> QED BY <3>1, <5>1, <5>2 DEF TypeOK, IsDocument
            <4>4. \A pair \in matched : PairFindings(pair[1], pair[2]) = {}
                BY <4>3 DEF PairFindings
            <4> QED BY <3>3, <4>2, <4>4
        <3>6. ASSUME Findings = {} PROVE current = accepted
            <4>1. ASSUME NEW c \in current, NEW a \in accepted, <<c, a>> \in matched PROVE c = a
                <5>1. PairFindings(c, a) = {}
                    BY <3>3, <3>6, <4>1
                <5>2. c.members = a.members
                    <6>1. c.members \subseteq Members /\ a.members \subseteq Members
                        BY <3>4 DEF Cluster
                    <6> QED BY <5>1, <6>1 DEF PairFindings
                <5>3. c.tier = a.tier
                    BY <3>1, <4>1 DEF PairInv
                <5> QED BY <3>4, <5>2, <5>3, ClusterExtensional
            <4>2. ambiguous = {} /\ currentOnly = {} /\ AcceptedOnly = {}
                BY <3>3, <3>6
            <4>3. \A c \in current : \E a \in accepted : <<c, a>> \in matched
                BY <3>1, <4>2 DEF CurrentInv, PairInv, Unmatched
            <4>4. \A a \in accepted : \E c \in current : <<c, a>> \in matched
                BY <3>1, <3>2, <4>2 DEF ClaimInv, PairInv, UnmatchedAccepted
            <4>5. current \subseteq accepted
                BY <4>1, <4>3
            <4>6. accepted \subseteq current
                BY <4>1, <4>4
            <4> QED BY <4>5, <4>6
        <3> QED BY <2>2, <3>5, <3>6
    <2> QED BY <2>1, <2>2
<1> QED BY <1>1, Invariance, PTL

\* A classification is carried over without review only if every cluster it covers
\* is accepted unchanged, in the same profile.
THEOREM KeptMeansAccepted == Spec => []KeptOnlyIfAccepted
<1>1. IInv => KeptOnlyIfAccepted
    <2> SUFFICES ASSUME IInv, pc = "done", NEW c \in current
                 PROVE  ~ RequiresReview(c) <=> SameProfile /\ Group(c) \subseteq accepted
        BY DEF KeptOnlyIfAccepted, SameProfile
    <2>1. c \in Group(c) /\ Group(c) \subseteq current
        BY DEF Group
    <2>2. CASE ~ SameProfile
        BY <2>1, <2>2 DEF IInv, PhaseInv, RequiresReview, IsUnchanged
    <2>3. CASE SameProfile
        <3>1. TypeOK /\ PairInv
            BY <2>3 DEF IInv, PhaseInv
        <3>2. current \subseteq Cluster /\ accepted \subseteq Cluster
            BY <3>1 DEF TypeOK, IsDocument
        <3>3. ASSUME NEW d \in current PROVE IsUnchanged(d) <=> d \in accepted
            <4>1. ASSUME d \in accepted PROVE IsUnchanged(d)
                <5>1. <<d, d>> \in matched
                    BY <3>1, <3>3, <4>1 DEF PairInv
                <5> QED BY <5>1 DEF IsUnchanged
            <4>2. ASSUME IsUnchanged(d) PROVE d \in accepted
                <5>1. PICK pair \in matched :
                        pair[1] = d /\ KeyOf(d) = KeyOf(pair[2]) /\ d.members = pair[2].members
                    BY <4>2 DEF IsUnchanged
                <5>2. pair[2] \in accepted /\ d.tier = pair[2].tier
                    BY <3>1, <5>1, KeyHasTier DEF TypeOK
                <5> QED BY <3>2, <3>3, <5>1, <5>2, ClusterExtensional
            <4> QED BY <4>1, <4>2
        <3> QED BY <2>1, <2>3, <3>3 DEF RequiresReview
    <2> QED BY <2>2, <2>3
<1> QED BY <1>1, Invariance, PTL

-----------------------------------------------------------------------------
(* The lineage of the members of a pair.                                   *)

\* SetToSeq lists a finite set, every element at one place.
LEMMA SetToSeqLists ==
    ASSUME NEW S, IsFiniteSet(S)
    PROVE  /\ Cardinality(S) \in Nat
           /\ SetToSeq(S) \in [1 .. Cardinality(S) -> S]
           /\ Len(SetToSeq(S)) = Cardinality(S)
           /\ \A i, j \in 1 .. Cardinality(S) : SetToSeq(S)[i] = SetToSeq(S)[j] => i = j
           /\ \A x \in S : \E i \in 1 .. Cardinality(S) : SetToSeq(S)[i] = x
<1> DEFINE n == Cardinality(S)
<1>1. n \in Nat /\ ExistsBijection(1 .. n, S)
    BY FS_CardinalityType
<1> HIDE DEF n
<1>2. \E f \in [1 .. n -> S] : IsInjective(f)
    BY <1>1 DEF ExistsBijection, Bijection, Injection
<1>3. SetToSeq(S) \in [1 .. n -> S] /\ IsInjective(SetToSeq(S))
    BY <1>2 DEF SetToSeq, n
<1>4. Len(SetToSeq(S)) = n
    BY <1>1, <1>3
<1>5. IsFiniteSet(1 .. n) /\ Cardinality(1 .. n) = n
    BY <1>1, FS_Interval
<1>6. SetToSeq(S) \in Injection(1 .. n, S)
    BY <1>3 DEF Injection
<1>7. SetToSeq(S) \in Surjection(1 .. n, S)
    BY <1>5, <1>6, FS_Injection DEF n
<1> QED BY <1>1, <1>3, <1>4, <1>7 DEF n, IsInjective, Surjection

\* The zip of the two lists pairs every element at most once, and uses up the
\* shorter list.
LEMMA ZipPairs ==
    ASSUME NEW S, NEW T, IsFiniteSet(S), IsFiniteSet(T)
    PROVE  LET new == SetToSeq(S)
               old == SetToSeq(T)
               zip == {<<old[i], new[i]>> : i \in 1 .. Len(old) \cap 1 .. Len(new)}
           IN  /\ zip \subseteq T \X S
               /\ \A p, q \in zip : p[1] = q[1] \/ p[2] = q[2] => p = q
               /\ \/ \A x \in S : \E p \in zip : p[2] = x
                  \/ \A x \in T : \E p \in zip : p[1] = x
<1> DEFINE new == SetToSeq(S)
           old == SetToSeq(T)
           n == Cardinality(S)
           k == Cardinality(T)
           zip == {<<old[i], new[i]>> : i \in 1 .. k \cap 1 .. n}
<1>1. /\ n \in Nat /\ new \in [1 .. n -> S] /\ Len(new) = n
      /\ \A i, j \in 1 .. n : new[i] = new[j] => i = j
      /\ \A x \in S : \E i \in 1 .. n : new[i] = x
    BY SetToSeqLists
<1>2. /\ k \in Nat /\ old \in [1 .. k -> T] /\ Len(old) = k
      /\ \A i, j \in 1 .. k : old[i] = old[j] => i = j
      /\ \A x \in T : \E i \in 1 .. k : old[i] = x
    BY SetToSeqLists
<1> HIDE DEF new, old, n, k
<1>3. zip \subseteq T \X S
    BY <1>1, <1>2
<1>4. ASSUME NEW p \in zip, NEW q \in zip, p[1] = q[1] \/ p[2] = q[2]
      PROVE  p = q
    <2>1. PICK i \in 1 .. k \cap 1 .. n : p = <<old[i], new[i]>>
        OBVIOUS
    <2>2. PICK j \in 1 .. k \cap 1 .. n : q = <<old[j], new[j]>>
        OBVIOUS
    <2>3. i = j
        BY <1>1, <1>2, <1>4, <2>1, <2>2
    <2> QED BY <2>1, <2>2, <2>3
<1>5. CASE n <= k
    <2>1. ASSUME NEW x \in S PROVE \E p \in zip : p[2] = x
        <3>1. PICK i \in 1 .. n : new[i] = x
            BY <1>1
        <3>2. i \in 1 .. k \cap 1 .. n
            BY <1>1, <1>2, <1>5
        <3>3. <<old[i], new[i]>> \in zip /\ <<old[i], new[i]>>[2] = x
            BY <3>1, <3>2
        <3> QED BY <3>3
    <2> QED BY <1>1, <1>2, <1>3, <1>4, <2>1 DEF new, old
<1>6. CASE k <= n
    <2>1. ASSUME NEW x \in T PROVE \E p \in zip : p[1] = x
        <3>1. PICK i \in 1 .. k : old[i] = x
            BY <1>2
        <3>2. i \in 1 .. k \cap 1 .. n
            BY <1>1, <1>2, <1>6
        <3>3. <<old[i], new[i]>> \in zip /\ <<old[i], new[i]>>[1] = x
            BY <3>1, <3>2
        <3> QED BY <3>3
    <2> QED BY <1>1, <1>2, <1>3, <1>4, <2>1 DEF new, old
<1> QED BY <1>1, <1>2, <1>5, <1>6

\* A set of pairs has as many members as it has first, or second, components when
\* no two of its pairs share one.
LEMMA CountFirst ==
    ASSUME NEW pairs, IsFiniteSet({p[1] : p \in pairs}),
           \A p, q \in pairs : p[1] = q[1] => p = q
    PROVE  Cardinality({p[1] : p \in pairs}) = Cardinality(pairs)
<1> DEFINE firsts == {p[1] : p \in pairs}
           f == [x \in firsts |-> CHOOSE p \in pairs : p[1] = x]
<1>1. \A x \in firsts : f[x] \in pairs /\ f[x][1] = x
    OBVIOUS
<1>2. f \in [firsts -> pairs] /\ IsInjective(f)
    BY <1>1 DEF IsInjective
<1>3. \A p \in pairs : \E x \in firsts : f[x] = p
    <2>1. ASSUME NEW p \in pairs PROVE p[1] \in firsts /\ f[p[1]] = p
        <3>1. p[1] \in firsts
            OBVIOUS
        <3>2. f[p[1]] \in pairs /\ f[p[1]][1] = p[1]
            BY <1>1, <3>1
        <3> QED BY <3>1, <3>2
    <2> QED BY <2>1
<1> HIDE DEF f
<1>4. f \in Bijection(firsts, pairs)
    BY <1>2, <1>3 DEF Bijection, Injection, Surjection
<1> QED BY <1>4, FS_Bijection DEF ExistsBijection

LEMMA CountSecond ==
    ASSUME NEW pairs, IsFiniteSet({p[2] : p \in pairs}),
           \A p, q \in pairs : p[2] = q[2] => p = q
    PROVE  Cardinality({p[2] : p \in pairs}) = Cardinality(pairs)
<1> DEFINE seconds == {p[2] : p \in pairs}
           f == [x \in seconds |-> CHOOSE p \in pairs : p[2] = x]
<1>1. \A x \in seconds : f[x] \in pairs /\ f[x][2] = x
    OBVIOUS
<1>2. f \in [seconds -> pairs] /\ IsInjective(f)
    BY <1>1 DEF IsInjective
<1>3. \A p \in pairs : \E x \in seconds : f[x] = p
    <2>1. ASSUME NEW p \in pairs PROVE p[2] \in seconds /\ f[p[2]] = p
        <3>1. p[2] \in seconds
            OBVIOUS
        <3>2. f[p[2]] \in pairs /\ f[p[2]][2] = p[2]
            BY <1>1, <3>1
        <3> QED BY <3>1, <3>2
    <2> QED BY <2>1
<1> HIDE DEF f
<1>4. f \in Bijection(seconds, pairs)
    BY <1>2, <1>3 DEF Bijection, Injection, Surjection
<1> QED BY <1>4, FS_Bijection DEF ExistsBijection

\* The moves of one body are between places of that body, pair each place once, and
\* leave it out of what was added or out of what was removed.
LEMMA MovesOfBody ==
    ASSUME NEW now \in SUBSET Members, NEW was \in SUBSET Members, NEW b
    PROVE  /\ \A p \in Moves(now, was, b) :
                /\ p = <<p[1], p[2]>>
                /\ p[1] \in was \ now /\ p[2] \in now \ was
                /\ BodyOf[p[1]] = b /\ BodyOf[p[2]] = b
           /\ \A p, q \in Moves(now, was, b) : p[1] = q[1] \/ p[2] = q[2] => p = q
           /\ \/ \A x \in now \ was : BodyOf[x] = b => \E p \in Moves(now, was, b) : p[2] = x
              \/ \A x \in was \ now : BodyOf[x] = b => \E p \in Moves(now, was, b) : p[1] = x
<1> DEFINE S == WithBody(now \ was, b)
           T == WithBody(was \ now, b)
           new == SetToSeq(S)
           old == SetToSeq(T)
<1>1. IsFiniteSet(S) /\ IsFiniteSet(T)
    BY CompareAssumption, FS_Subset DEF WithBody
<1>2. Moves(now, was, b) = {<<old[i], new[i]>> : i \in 1 .. Len(old) \cap 1 .. Len(new)}
    BY DEF Moves
<1>3. /\ \A x \in S : x \in now \ was /\ BodyOf[x] = b
      /\ \A x \in T : x \in was \ now /\ BodyOf[x] = b
      /\ \A x \in now \ was : BodyOf[x] = b => x \in S
      /\ \A x \in was \ now : BodyOf[x] = b => x \in T
    BY DEF WithBody
<1> HIDE DEF S, T
<1>4. /\ Moves(now, was, b) \subseteq T \X S
      /\ \A p, q \in Moves(now, was, b) : p[1] = q[1] \/ p[2] = q[2] => p = q
      /\ \/ \A x \in S : \E p \in Moves(now, was, b) : p[2] = x
         \/ \A x \in T : \E p \in Moves(now, was, b) : p[1] = x
    <2> DEFINE zip == {<<old[i], new[i]>> : i \in 1 .. Len(old) \cap 1 .. Len(new)}
    <2>1. /\ zip \subseteq T \X S
          /\ \A p, q \in zip : p[1] = q[1] \/ p[2] = q[2] => p = q
          /\ \/ \A x \in S : \E p \in zip : p[2] = x
             \/ \A x \in T : \E p \in zip : p[1] = x
        BY <1>1, ZipPairs
    <2>2. Moves(now, was, b) = zip
        BY <1>2
    <2> HIDE DEF zip
    <2> QED BY <2>1, <2>2
<1>5. \A p \in Moves(now, was, b) : p = <<p[1], p[2]>> /\ p[1] \in T /\ p[2] \in S
    BY <1>4
<1> QED BY <1>3, <1>4, <1>5

\* The promise of _member_lineage for any two sets of members.
LEMMA LineageBalance ==
    ASSUME NEW now \in SUBSET Members, NEW was \in SUBSET Members
    PROVE  LET lineage == MemberLineage(now, was)
               to == {move[2] : move \in lineage.moved}
               from == {move[1] : move \in lineage.moved}
           IN  /\ now = lineage.unchanged \cup to \cup lineage.added
               /\ was = lineage.unchanged \cup from \cup lineage.removed
               /\ Cardinality(to) = Cardinality(lineage.moved)
               /\ Cardinality(from) = Cardinality(lineage.moved)
               /\ \A move \in lineage.moved : BodyOf[move[1]] = BodyOf[move[2]]
               /\ BodiesOf(lineage.added) \cap BodiesOf(lineage.removed) = {}
<1> DEFINE bodies == BodiesOf(now \cup was)
           moved == UNION {Moves(now, was, b) : b \in bodies}
           to == {move[2] : move \in moved}
           from == {move[1] : move \in moved}
           added == (now \ was) \ to
           removed == (was \ now) \ from
<1>1. /\ MemberLineage(now, was).unchanged = now \cap was
      /\ MemberLineage(now, was).moved = moved
      /\ MemberLineage(now, was).added = added
      /\ MemberLineage(now, was).removed = removed
    BY DEF MemberLineage
<1>2. \A p \in moved : \E b \in bodies : p \in Moves(now, was, b)
    OBVIOUS
<1>3. \A b \in bodies : \A p \in Moves(now, was, b) : p \in moved
    OBVIOUS
<1>4. \A x \in now \cup was : BodyOf[x] \in bodies
    BY DEF BodiesOf
<1> HIDE DEF moved, bodies
<1>5. ASSUME NEW p \in moved
      PROVE  p[1] \in was \ now /\ p[2] \in now \ was /\ BodyOf[p[1]] = BodyOf[p[2]]
    <2>1. PICK b \in bodies : p \in Moves(now, was, b)
        BY <1>2
    <2> QED BY <2>1, MovesOfBody
<1>6. ASSUME NEW p \in moved, NEW q \in moved, p[1] = q[1] \/ p[2] = q[2]
      PROVE  p = q
    <2>1. PICK b \in bodies : p \in Moves(now, was, b)
        BY <1>2
    <2>2. PICK d \in bodies : q \in Moves(now, was, d)
        BY <1>2
    <2>3. BodyOf[p[1]] = b /\ BodyOf[p[2]] = b
        BY <2>1, MovesOfBody
    <2>4. BodyOf[q[1]] = d /\ BodyOf[q[2]] = d
        BY <2>2, MovesOfBody
    <2>5. b = d
        BY <1>6, <2>3, <2>4
    <2> QED BY <1>6, <2>1, <2>2, <2>5, MovesOfBody
<1>7. to \subseteq now \ was /\ from \subseteq was \ now
    BY <1>5
<1>8. IsFiniteSet(to) /\ IsFiniteSet(from)
    BY <1>7, CompareAssumption, FS_Subset
<1>9. Cardinality(to) = Cardinality(moved)
    BY <1>6, <1>8, CountSecond
<1>10. Cardinality(from) = Cardinality(moved)
    BY <1>6, <1>8, CountFirst
<1>11. BodiesOf(added) \cap BodiesOf(removed) = {}
    <2>1. SUFFICES ASSUME NEW x \in added, NEW y \in removed, BodyOf[x] = BodyOf[y]
                   PROVE  FALSE
        BY DEF BodiesOf
    <2>2. BodyOf[x] \in bodies
        BY <1>4
    <2>3. CASE \E p \in Moves(now, was, BodyOf[x]) : p[2] = x
        BY <1>3, <2>2, <2>3
    <2>4. CASE \E p \in Moves(now, was, BodyOf[x]) : p[1] = y
        BY <1>3, <2>2, <2>4
    <2> QED BY <2>1, <2>3, <2>4, MovesOfBody
<1>12. now = (now \cap was) \cup to \cup added /\ was = (now \cap was) \cup from \cup removed
    BY <1>7
<1> HIDE DEF to, from, added, removed
<1> QED BY <1>1, <1>5, <1>9, <1>10, <1>11, <1>12 DEF to, from

LEMMA PairsBalance == IInv => MembersBalance
<1>1. SUFFICES ASSUME IInv, NEW pair \in matched
               PROVE  pair[1].members \in SUBSET Members /\ pair[2].members \in SUBSET Members
    BY LineageBalance DEF MembersBalance
<1>2. pair[1] \in Cluster /\ pair[2] \in Cluster
    BY <1>1 DEF IInv, TypeOK, IsDocument
<1> QED BY <1>2 DEF Cluster

-----------------------------------------------------------------------------
(* The review of the findings.                                             *)

\* A finding is about a pair, a cluster with its overlaps, or a cluster on its own.
LEMMA FindingShape ==
    ASSUME TypeOK, NEW f \in Findings
    PROVE  \/ f.code = "stale_profile" /\ f.now = {} /\ f.was = {}
           \/ /\ f.code # "stale_profile"
              /\ \/ \E c \in current, a \in accepted :
                        <<c, a>> \in matched /\ f.now = {c} /\ f.was = {a}
                 \/ \E x \in ambiguous : f.now = {x[1]} /\ f.was = x[2]
                 \/ \E c \in currentOnly : f.now = {c} /\ f.was = {}
                 \/ \E a \in AcceptedOnly : f.now = {} /\ f.was = {a}
<1> USE DEF Finding
<1>1. CASE currentProfile # acceptedProfile
    BY <1>1 DEF Findings
<1>2. CASE currentProfile = acceptedProfile
    <2>1. CASE \E pair \in matched : f \in PairFindings(pair[1], pair[2])
        <3>1. PICK pair \in matched : f \in PairFindings(pair[1], pair[2])
            BY <2>1
        <3>2. pair[1] \in current /\ pair[2] \in accepted /\ <<pair[1], pair[2]>> \in matched
            BY DEF TypeOK
        <3>3. f.now = {pair[1]} /\ f.was = {pair[2]} /\ f.code # "stale_profile"
            BY <3>1 DEF PairFindings
        <3> QED BY <3>2, <3>3
    <2>2. CASE \E x \in ambiguous : f = Finding("ambiguous_cluster_change", {x[1]}, x[2])
        BY <2>2
    <2>3. CASE \E c \in currentOnly : f = Finding("new_cluster", {c}, {})
        BY <2>3
    <2>4. CASE \E a \in AcceptedOnly : f = Finding("stale_baseline", {}, {a})
        BY <2>4
    <2> QED BY <1>2, <2>1, <2>2, <2>3, <2>4 DEF Findings
<1> QED BY <1>1, <1>2

\* All findings about an accepted cluster are about one and the same cluster of now,
\* or about none.
LEMMA FindingIsAbout ==
    ASSUME IInv, pc = "done", NEW f \in Findings, NEW a \in f.was
    PROVE  f.now = PairedTo(a)
<1>1. TypeOK /\ EachClusterOnce
    BY SharesOut DEF IInv
<1>2. CASE \E c \in current, b \in accepted :
              <<c, b>> \in matched /\ f.now = {c} /\ f.was = {b}
    <2>1. PICK c \in current : <<c, a>> \in matched /\ f.now = {c} /\ a \in accepted
        BY <1>2
    <2>2. c \in PairedTo(a)
        BY <2>1 DEF PairedTo
    <2> QED BY <1>1, <2>1, <2>2 DEF EachClusterOnce
<1>3. CASE \E x \in ambiguous : f.now = {x[1]} /\ f.was = x[2]
    <2>1. PICK x \in ambiguous : f.now = {x[1]} /\ f.was = x[2]
        BY <1>3
    <2>2. x[1] \in PairedTo(a) /\ a \in accepted
        BY <1>1, <2>1 DEF PairedTo, TypeOK
    <2> QED BY <1>1, <2>1, <2>2 DEF EachClusterOnce
<1>4. CASE \E b \in AcceptedOnly : f.now = {} /\ f.was = {b}
    <2>1. a \in AcceptedOnly /\ f.now = {}
        BY <1>4
    <2>2. a \in accepted
        BY <2>1 DEF AcceptedOnly, UnmatchedAccepted
    <2> QED BY <1>1, <2>1, <2>2 DEF EachClusterOnce
<1> QED BY <1>1, <1>2, <1>3, <1>4, FindingShape

IsLineage(l) == l = [candidate |-> l.candidate, previous |-> l.previous,
                     members |-> l.members, now |-> l.now, was |-> l.was]

LEMMA LineageFields ==
    ASSUME NEW now, NEW was
    PROVE  LET l == ClusterLineage(now, was)
           IN  /\ IsLineage(l)
               /\ l.now = now /\ l.was = was
               /\ l.candidate = {CandidateOf(c) : c \in IF now # {} THEN now ELSE was}
BY DEF ClusterLineage, IsLineage

\* The lineages of a finding name the clusters the finding names.
LEMMA LineagesName ==
    ASSUME NEW f
    PROVE  /\ \A l \in LineagesOf(f) :
                /\ IsLineage(l)
                /\ l.now = f.now /\ l.was \subseteq f.was
                /\ l.candidate = {CandidateOf(c) : c \in IF l.now # {} THEN l.now ELSE l.was}
                /\ \A x \in l.was : l.was = {x}
           /\ \A x \in f.now : \E l \in LineagesOf(f) : x \in l.now
           /\ \A x \in f.was : \E l \in LineagesOf(f) : x \in l.was
<1>1. CASE f.was = {}
    <2>1. LineagesOf(f) = {ClusterLineage(f.now, {})}
        BY <1>1 DEF LineagesOf
    <2> QED BY <1>1, <2>1, LineageFields
<1>2. CASE f.was # {}
    <2>1. LineagesOf(f) = {ClusterLineage(f.now, {a}) : a \in f.was}
        BY <1>2 DEF LineagesOf
    <2>2. ASSUME NEW l \in LineagesOf(f)
          PROVE  /\ IsLineage(l)
                 /\ l.now = f.now /\ l.was \subseteq f.was
                 /\ l.candidate = {CandidateOf(c) : c \in IF l.now # {} THEN l.now ELSE l.was}
                 /\ \A x \in l.was : l.was = {x}
        <3>1. PICK a \in f.was : l = ClusterLineage(f.now, {a})
            BY <2>1
        <3>2. l.now = f.now /\ l.was = {a} /\ IsLineage(l)
            BY <3>1, LineageFields
        <3>3. l.candidate = {CandidateOf(c) : c \in IF f.now # {} THEN f.now ELSE {a}}
            BY <3>1, LineageFields
        <3> QED BY <3>1, <3>2, <3>3
    <2>3. ASSUME NEW x \in f.was PROVE \E l \in LineagesOf(f) : x \in l.was /\ l.now = f.now
        <3>1. ClusterLineage(f.now, {x}) \in LineagesOf(f)
            BY <2>1
        <3>2. ClusterLineage(f.now, {x}).was = {x} /\ ClusterLineage(f.now, {x}).now = f.now
            BY LineageFields
        <3> QED BY <3>1, <3>2
    <2>4. \E l \in LineagesOf(f) : l.now = f.now
        BY <1>2, <2>3
    <2> QED BY <2>2, <2>3, <2>4
<1> QED BY <1>1, <1>2

\* Merging keeps the clusters of now and of then.
LEMMA MergeKeeps ==
    ASSUME NEW lineages, \A l \in lineages : IsLineage(l), NEW x
    PROVE  /\ (\E l \in MergeLineages(lineages) : x \in l.now)
                <=> (\E l \in lineages : x \in l.now)
           /\ (\E l \in MergeLineages(lineages) : x \in l.was)
                <=> (\E l \in lineages : x \in l.was)
<1> DEFINE Like(l) == {m \in lineages : /\ m.candidate = l.candidate /\ m.previous = l.previous
                                        /\ m.members = l.members}
           merged(l) == [l EXCEPT !.now = UNION {m.now : m \in Like(l)},
                                  !.was = UNION {m.was : m \in Like(l)}]
<1>1. MergeLineages(lineages) = {merged(l) : l \in lineages}
    BY DEF MergeLineages
<1>2. ASSUME NEW l \in lineages
      PROVE  /\ merged(l).now = UNION {m.now : m \in Like(l)}
             /\ merged(l).was = UNION {m.was : m \in Like(l)}
    BY DEF IsLineage
<1>3. \A l \in lineages : l \in Like(l) /\ Like(l) \subseteq lineages
    OBVIOUS
<1> HIDE DEF merged, Like
<1> QED BY <1>1, <1>2, <1>3

\* The lineages of every finding that has clusters, and the review of one candidate.
Lineages == UNION {LineagesOf(f) : f \in {g \in Findings : g.code # "stale_profile"}}

CandidateLineages(k) == {l \in Lineages : l.candidate = k}

ReviewOf(k) == [candidate |-> k, lineages |-> MergeLineages(CandidateLineages(k))]

LEMMA ReviewCandidatesAre == ReviewCandidates = {ReviewOf(k) : k \in {l.candidate : l \in Lineages}}
BY DEF ReviewCandidates, Lineages, ReviewOf, CandidateLineages

\* A cluster is in the review of the candidate its lineages have.
LEMMA ReviewNames ==
    ASSUME NEW k, NEW x
    PROVE  /\ (\E l \in ReviewOf(k).lineages : x \in l.now)
                <=> (\E l \in Lineages : l.candidate = k /\ x \in l.now)
           /\ (\E l \in ReviewOf(k).lineages : x \in l.was)
                <=> (\E l \in Lineages : l.candidate = k /\ x \in l.was)
<1>1. \A l \in CandidateLineages(k) : IsLineage(l)
    BY LineagesName DEF CandidateLineages, Lineages
<1>2. ReviewOf(k).lineages = MergeLineages(CandidateLineages(k))
    BY DEF ReviewOf
<1>3. \A l : l \in CandidateLineages(k) <=> l \in Lineages /\ l.candidate = k
    BY DEF CandidateLineages
<1>4. /\ (\E l \in MergeLineages(CandidateLineages(k)) : x \in l.now)
            <=> (\E l \in CandidateLineages(k) : x \in l.now)
      /\ (\E l \in MergeLineages(CandidateLineages(k)) : x \in l.was)
            <=> (\E l \in CandidateLineages(k) : x \in l.was)
    BY <1>1, MergeKeeps
<1> QED BY <1>2, <1>3, <1>4, Zenon

\* The findings name exactly the clusters their lineages name.
LEMMA LineagesCover ==
    ASSUME TypeOK, NEW x
    PROVE  /\ (\E l \in Lineages : x \in l.now) <=> (\E f \in Findings : x \in f.now)
           /\ (\E l \in Lineages : x \in l.was) <=> (\E f \in Findings : x \in f.was)
<1>1. \A l \in Lineages : \E f \in Findings : l \in LineagesOf(f)
    BY DEF Lineages
<1>2. ASSUME NEW f \in Findings, x \in f.now \/ x \in f.was
      PROVE  LineagesOf(f) \subseteq Lineages
    <2>1. f.code # "stale_profile"
        BY <1>2, FindingShape
    <2> QED BY <2>1 DEF Lineages
<1> QED BY <1>1, <1>2, LineagesName

\* Clusters under one candidate are counted once.
LEMMA CountReviews ==
    ASSUME NEW found, NEW r, found = {} \/ found = {r}
    PROVE  Cardinality(found) = IF found # {} THEN 1 ELSE 0
BY FS_EmptySet, FS_Singleton

LEMMA NowReviewed ==
    ASSUME TypeOK, NEW c \in current
    PROVE  LET found == {r \in ReviewCandidates : \E l \in r.lineages : c \in l.now}
           IN  Cardinality(found) = IF \E f \in Findings : c \in f.now THEN 1 ELSE 0
<1> DEFINE found == {r \in ReviewCandidates : \E l \in r.lineages : c \in l.now}
           key == {CandidateOf(c)}
<1>1. ASSUME NEW l \in Lineages, c \in l.now PROVE l.candidate = key
    <2>1. PICK f \in Findings : l \in LineagesOf(f)
        BY DEF Lineages
    <2>2. l.now = f.now /\ l.candidate = {CandidateOf(d) : d \in l.now}
        BY <1>1, <2>1, LineagesName
    <2>3. f.now = {c}
        BY <1>1, <2>2, FindingShape
    <2> QED BY <2>2, <2>3
<1>2. \A r \in found : r = ReviewOf(key)
    BY <1>1, ReviewCandidatesAre, ReviewNames
<1>3. ASSUME NEW l \in Lineages, c \in l.now PROVE ReviewOf(key) \in found
    <2>1. l.candidate = key
        BY <1>1, <1>3
    <2>2. ReviewOf(key) \in ReviewCandidates
        BY <2>1, ReviewCandidatesAre
    <2>3. \E m \in ReviewOf(key).lineages : c \in m.now
        BY <1>3, <2>1, ReviewNames
    <2> QED BY <2>2, <2>3
<1>4. found # {} => \E l \in Lineages : c \in l.now
    BY ReviewCandidatesAre, ReviewNames
<1> HIDE DEF found, key
<1>5. found = {} \/ found = {ReviewOf(key)}
    BY <1>2
<1>6. found # {} <=> \E f \in Findings : c \in f.now
    BY <1>3, <1>4, LineagesCover
<1>7. Cardinality(found) = IF found # {} THEN 1 ELSE 0
    BY <1>5, CountReviews
<1> QED BY <1>6, <1>7 DEF found

LEMMA WasReviewed ==
    ASSUME IInv, pc = "done", NEW a \in accepted
    PROVE  LET found == {r \in ReviewCandidates : \E l \in r.lineages : a \in l.was}
           IN  Cardinality(found) = IF \E f \in Findings : a \in f.was THEN 1 ELSE 0
<1> DEFINE found == {r \in ReviewCandidates : \E l \in r.lineages : a \in l.was}
           key == {CandidateOf(c) : c \in IF PairedTo(a) # {} THEN PairedTo(a) ELSE {a}}
<1>0. TypeOK
    BY DEF IInv
<1>1. ASSUME NEW l \in Lineages, a \in l.was PROVE l.candidate = key
    <2>1. PICK f \in Findings : l \in LineagesOf(f)
        BY DEF Lineages
    <2>2. /\ l.now = f.now /\ a \in f.was /\ l.was = {a}
          /\ l.candidate = {CandidateOf(d) : d \in IF l.now # {} THEN l.now ELSE l.was}
        BY <1>1, <2>1, LineagesName
    <2>3. f.now = PairedTo(a)
        BY <2>2, FindingIsAbout
    <2> QED BY <2>2, <2>3
<1> HIDE DEF key
<1>2. \A r \in found : r = ReviewOf(key)
    BY <1>1, ReviewCandidatesAre, ReviewNames
<1>3. ASSUME NEW l \in Lineages, a \in l.was PROVE ReviewOf(key) \in found
    <2>1. l.candidate = key
        BY <1>1, <1>3
    <2>2. ReviewOf(key) \in ReviewCandidates
        BY <2>1, ReviewCandidatesAre
    <2>3. \E m \in ReviewOf(key).lineages : a \in m.was
        BY <1>3, <2>1, ReviewNames
    <2> QED BY <2>2, <2>3
<1>4. found # {} => \E l \in Lineages : a \in l.was
    BY ReviewCandidatesAre, ReviewNames
<1> HIDE DEF found
<1>5. found = {} \/ found = {ReviewOf(key)}
    BY <1>2
<1>6. found # {} <=> \E f \in Findings : a \in f.was
    BY <1>0, <1>3, <1>4, LineagesCover
<1>7. Cardinality(found) = IF found # {} THEN 1 ELSE 0
    BY <1>5, CountReviews
<1> QED BY <1>6, <1>7 DEF found

\* The evidence of a comparison balances, for documents of any size: _member_lineage
\* accounts for every member and body of a pair, and the review candidates name every
\* cluster the findings name, each under one candidate.
THEOREM EvidenceBalances == Spec => []LineageBalances
<1>1. IInv => LineageBalances
    <2> SUFFICES ASSUME IInv, pc = "done" PROVE MembersBalance /\ EachFindingReviewed
        BY DEF LineageBalances
    <2>1. TypeOK
        BY DEF IInv
    <2>2. EachFindingReviewed
        BY <2>1, NowReviewed, WasReviewed DEF EachFindingReviewed
    <2> QED BY <2>2, PairsBalance
<1> QED BY <1>1, Invariance, PTL

=============================================================================
