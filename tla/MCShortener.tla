----------------------------- MODULE MCShortener -----------------------------
(* Instances of Shortener for TLC.                                         *)
EXTENDS Shortener, TLC

CONSTANTS c1, c2, u1, u2, x1, x2, k1, k2, k3, main, other, bad

\* Two texts that trim to the same URL, and one that is not a URL.
MCRawURLs == {"x1", " x1 ", "x2", "not a url"}
MCValidateURL == ("x1" :> x1) @@ (" x1 " :> x1) @@ ("x2" :> x2) @@ ("not a url" :> bad)

OneRawURL == {"x1", "not a url"}
OneValidateURL == ("x1" :> x1) @@ ("not a url" :> bad)

Symmetry == Permutations({c1, c2}) \cup Permutations({u1, u2})
            \cup Permutations({k1, k2, k3})

=============================================================================
