------------------------------ MODULE MCRatchet ------------------------------
(* Instances of Ratchet for TLC.                                           *)
EXTENDS Ratchet, TLC

CONSTANTS p1, p2, k1, k2, ab, ac

\* The member set ab is found by both profiles at first; an edit turns the main
\* cluster into ac.  Under the contract k2 the loose profile finds nothing.
Cl(tier, members) == [tier |-> tier, members |-> members]
MCClusters == {Cl("main", ab), Cl("main", ac), Cl("loose", ab)}
MCClustersOf ==
    [k \in Contracts |-> [revision \in Sources |->
        {Cl("main", IF revision = 0 THEN ab ELSE ac)}
        \cup (IF k = k1 THEN {Cl("loose", ab)} ELSE {})]]
MCBaseline == [c \in MCClustersOf[k1][0] |-> "debt"]

Symmetry == Permutations({p1, p2})
=============================================================================
