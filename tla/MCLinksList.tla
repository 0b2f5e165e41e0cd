------------------------------ MODULE MCLinksList ------------------------------
(* Instances of LinksList for TLC.                                         *)
EXTENDS LinksList, TLC

CONSTANTS u1, u2, h1, h2, m1, m2

Symmetry == Permutations({u1, u2}) \cup Permutations({h1, h2})
            \cup Permutations({m1, m2})

=============================================================================
