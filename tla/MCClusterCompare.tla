--------------------------- MODULE MCClusterCompare ---------------------------
(* Instances of ClusterCompare for TLC.                                    *)
EXTENDS ClusterCompare

CONSTANTS a1, a2, b1, c1, A, B, C

\* Two places with the body A, and one with each of the bodies B and C.
MCBodyOf == [m \in {a1, a2, b1, c1} |-> IF m \in {a1, a2} THEN A ELSE IF m = b1 THEN B ELSE C]

\* Every document with at most two clusters.
MCDocuments == {clusters \in {{}} \cup {{c, d} : c, d \in Cluster} : IsDocument(clusters)}
=============================================================================
