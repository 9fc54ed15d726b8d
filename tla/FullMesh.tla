------------------------------ MODULE FullMesh ------------------------------
(***************************************************************************)
(* What the start-up of a cache fleet promises, whatever the order in      *)
(* which pods are created, listed and given addresses: a member begins to  *)
(* serve once every member has had an address, and then with every other   *)
(* member as a peer, never with a partial PEERS list.                      *)
(***************************************************************************)
CONSTANTS Fleet,    \* the members
          NoPeers   \* a member that does not serve

VARIABLES announced,  \* the members that have had an address
          mesh        \* the peers each serving member was started with

vars == <<announced, mesh>>

Init ==
    /\ announced = {}
    /\ mesh = [g \in Fleet |-> NoPeers]

\* A member becomes reachable.
Announce(g) ==
    /\ announced' = announced \cup {g}
    /\ UNCHANGED mesh

\* A member begins to serve.
Join(g) ==
    /\ announced = Fleet
    /\ mesh[g] = NoPeers
    /\ mesh' = [mesh EXCEPT ![g] = Fleet \ {g}]
    /\ UNCHANGED announced

\* A member is terminated.
Leave(g) ==
    /\ mesh' = [mesh EXCEPT ![g] = NoPeers]
    /\ UNCHANGED announced

Next == \E g \in Fleet : Announce(g) \/ Join(g) \/ Leave(g)

Spec == Init /\ [][Next]_vars
=============================================================================
