-------------------------------- MODULE MCApp --------------------------------
(* Instances of App for TLC.                                               *)
EXTENDS App, TLC

CONSTANTS c1, u1, x1, x2, k1, n1, main, bad

MCRawURLs == {"x1", "x2", "not a url"}
MCValidateURL == ("x1" :> x1) @@ ("x2" :> x2) @@ ("not a url" :> bad)

OneRawURL == {"x1", "not a url"}
OneValidateURL == ("x1" :> x1) @@ ("not a url" :> bad)

=============================================================================
