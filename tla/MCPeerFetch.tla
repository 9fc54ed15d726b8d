---------------------------- MODULE MCPeerFetch ----------------------------
(***************************************************************************)
(* PeerFetch for TLC.  Flights, and peers, are interchangeable.            *)
(***************************************************************************)
EXTENDS PeerFetch, TLC

Symmetry == Permutations(Req) \cup Permutations(Peers)
=============================================================================
