---------------------------- MODULE MCSignedURLs ----------------------------
(***************************************************************************)
(* SignedURLs for TLC: two clients that want windows of xorb x, one of     *)
(* them with a window of y, the other with one of z.  They share one       *)
(* window, so that they can meet in a flight.                              *)
(***************************************************************************)
EXTENDS SignedURLs, TLC

CONSTANTS c1, c2, x, y, z, w1, w2, w3

MCAsks == [ c \in Clients |->
              IF c = c1 THEN { {<<x, w1>>, <<y, w1>>} }
                        ELSE { {<<x, w2>>, <<x, w3>>}, {<<x, w1>>, <<z, w1>>} } ]

\* c2 asks for w2 and w3 together only.
Symmetry == Permutations({w2, w3})
=============================================================================
