-------------------------- MODULE MCBoundedProcess --------------------------
(* Instances of BoundedProcess for TLC.                                    *)
EXTENDS BoundedProcess

CONSTANTS leader, a, b
=============================================================================
