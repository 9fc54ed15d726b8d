---------------------------- MODULE MCXorbServe ----------------------------
(***************************************************************************)
(* XorbServe for TLC: request ids and ranges are interchangeable.          *)
(***************************************************************************)
EXTENDS XorbServe, TLC

Symmetry == Permutations(Req) \cup Permutations(Keys)
=============================================================================
