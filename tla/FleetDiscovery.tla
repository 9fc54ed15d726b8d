--------------------------- MODULE FleetDiscovery ---------------------------
(***************************************************************************)
(* The cache pods of a fleet from their creation to the exec of the shim   *)
(* (runpod_testbed/provision/selfconfig.py, the entrypoint of the image,   *)
(* and provision/fleet.py).  A pod is told its name prefix and the size of *)
(* its fleet, not its siblings: it polls the account's listing until the   *)
(* whole fleet is in it, then polls the siblings' addresses one by one.    *)
(* Other pods are created, listed, given addresses and terminated          *)
(* meanwhile, by a controller that is a module of its own (Testbed).       *)
(***************************************************************************)
EXTENDS Integers, FiniteSets

CONSTANT Groups   \* the fleet: one cache pod for each overlap group

ASSUME GroupsAssumption == IsFiniteSet(Groups) /\ Groups # {}

VARIABLES pod,      \* where each pod is
          listed,   \* the pods the account's listing shows
          addr,     \* the pods with an external address
          exposed,  \* history: the pods that have had one
          peers,    \* the siblings a pod has discovered
          got       \* the addresses of resolve's current round

fleetVars == <<pod, listed, addr, exposed, peers, got>>

Configuring == {"list", "resolve"}
Running == Configuring \cup {"serving", "exited"}
Live == { g \in Groups : pod[g] \in Running }
-----------------------------------------------------------------------------
FleetInit ==
    /\ pod = [g \in Groups |-> "absent"]
    /\ listed = {}
    /\ addr = {}
    /\ exposed = {}
    /\ peers = [g \in Groups |-> {}]
    /\ got = [g \in Groups |-> {}]

\* create_cache_pod reaches the account, and the entrypoint starts.
CreatePod(g) ==
    /\ pod[g] = "absent"
    /\ pod' = [pod EXCEPT ![g] = "list"]
    /\ UNCHANGED <<listed, addr, exposed, peers, got>>

\* Mutant: a terminated pod stays in the listing.
TerminatePodListed(g) ==
    /\ pod' = [pod EXCEPT ![g] = IF g \in Live THEN "gone" ELSE @]
    /\ addr' = addr \ {g}
    /\ UNCHANGED <<listed, exposed, peers, got>>

\* terminate_pod reaches the account.
TerminatePod(g) ==
    /\ pod' = [pod EXCEPT ![g] = IF g \in Live THEN "gone" ELSE @]
    /\ listed' = listed \ {g}
    /\ addr' = addr \ {g}
    /\ UNCHANGED <<exposed, peers, got>>

\* The platform: a new pod appears in the listing ...
Appear(g) ==
    /\ g \in Live \ listed
    /\ listed' = listed \cup {g}
    /\ UNCHANGED <<pod, addr, exposed, peers, got>>

\* ... and gets an external address, in either order.
Expose(g) ==
    /\ g \in Live \ addr
    /\ addr' = addr \cup {g}
    /\ exposed' = exposed \cup {g}
    /\ UNCHANGED <<pod, listed, peers, got>>

\* Mutant: FLEET_SIZE is not waited for.
DiscoverEarly(g) ==
    /\ pod[g] = "list"
    /\ g \in listed
    /\ peers' = [peers EXCEPT ![g] = listed \ {g}]
    /\ got' = [got EXCEPT ![g] = {}]
    /\ pod' = [pod EXCEPT ![g] = "resolve"]
    /\ UNCHANGED <<listed, addr, exposed>>

\* main's first loop: the listing has the pod itself and as many pods as
\* FLEET_SIZE says.
Discover(g) ==
    /\ pod[g] = "list"
    /\ g \in listed
    /\ Cardinality(listed) >= Cardinality(Groups)
    /\ peers' = [peers EXCEPT ![g] = listed \ {g}]
    /\ got' = [got EXCEPT ![g] = {}]
    /\ pod' = [pod EXCEPT ![g] = "resolve"]
    /\ UNCHANGED <<listed, addr, exposed>>

\* resolve: one get_pod_ports of a round; a round that misses an address
\* starts again from nothing.
ReadAddr(g, p) ==
    /\ pod[g] = "resolve"
    /\ p \in (peers[g] \cup {g}) \ got[g]
    /\ got' = [got EXCEPT ![g] = IF p \in addr THEN got[g] \cup {p} ELSE {}]
    /\ UNCHANGED <<pod, listed, addr, exposed, peers>>

\* assemble_env finds every address, and the shim replaces the entrypoint.
Exec(g) ==
    /\ pod[g] = "resolve"
    /\ got[g] = peers[g] \cup {g}
    /\ pod' = [pod EXCEPT ![g] = "serving"]
    /\ UNCHANGED <<listed, addr, exposed, peers, got>>

\* A deadline passes or a query fails: the entrypoint ends, the pod stays.
ExitNotReady(g) ==
    /\ pod[g] \in Configuring
    /\ pod' = [pod EXCEPT ![g] = "exited"]
    /\ UNCHANGED <<listed, addr, exposed, peers, got>>

\* What a pod does by itself.
Entrypoint(g) ==
    \/ Discover(g)
    \/ \E p \in Groups : ReadAddr(g, p)
    \/ Exec(g)
-----------------------------------------------------------------------------
FleetTypeOK ==
    /\ pod \in [Groups -> Running \cup {"absent", "gone"}]
    /\ listed \subseteq Live
    /\ addr \subseteq Live \cap exposed
    /\ exposed \subseteq Groups
    /\ peers \in [Groups -> SUBSET Groups]
    /\ got \in [Groups -> SUBSET Groups]

\* A pod that is past the listing knows the whole fleet, and the addresses it
\* holds are addresses that pods have had.
DiscoverySound ==
    \A g \in Groups :
        /\ pod[g] \in {"resolve", "serving"} => peers[g] = Groups \ {g}
        /\ got[g] \subseteq exposed
        /\ pod[g] = "serving" => got[g] = Groups
=============================================================================
