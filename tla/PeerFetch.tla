----------------------------- MODULE PeerFetch -----------------------------
(***************************************************************************)
(* Tier 1.5: fetchFromPeer (shim-go/peer_fetch.go), raceOnePeer            *)
(* (shim-go/peer_hedge.go) and the sticky peer (shim-go/peers.go), for the *)
(* flights of one shim.  XorbServe sees only how a race ends; here are the *)
(* goroutines of a race with their channels, and the time it takes.        *)
(*                                                                         *)
(* Time is discrete and passes for all flights at once (Tick).  Steps of   *)
(* the shim take none: time does not pass while one can be taken, nor past *)
(* the deadline of a timer, a timeout or the CDN.  What the network does   *)
(* before its deadline is nondeterministic: a peer, a probe or the CDN may *)
(* answer or fail at any moment, which includes the cancellation of the    *)
(* flight's own context.                                                   *)
(***************************************************************************)
EXTENDS Integers, FiniteSetsExt

CONSTANTS Req,           \* flights that ask peers
          Peers,         \* PEERS
          NoPeer,        \* no peer
          Throughputs,   \* bytes per unit of time a peer may be known for, or 0
          Sizes,         \* lengths of ranges, 0 for one that cannot be parsed
          HedgeFactor,   \* PEER_HEDGE_FACTOR
          HedgeMin,      \* PEER_HEDGE_MIN_MS
          HedgeMax,      \* PEER_HEDGE_MAX_MS
          FetchTimeout,  \* PEER_FETCH_TIMEOUT_MS
          ProbeTimeout,  \* PEER_PROBE_TIMEOUT_MS
          StickyTtl,     \* PEER_STICKY_TTL_SECONDS
          CdnTime,       \* how long an authorized fetch takes at most
          Mortal,        \* peers that may stop serving for good
          Faults         \* what else may go wrong, see below

AllFaults == {"cdn",   \* the CDN fails
              "pool"}  \* all fetch slots are taken when a hedge asks for one

ASSUME PeersAssumption == NoPeer \notin Peers /\ Mortal \subseteq Peers
ASSUME ThroughputAssumption ==
    Throughputs \subseteq Nat /\ Sizes \subseteq Nat /\ HedgeFactor \in Nat
ASSUME TimesAssumption ==
    /\ HedgeMin \in Nat /\ HedgeMax \in Nat /\ CdnTime \in Nat
    /\ FetchTimeout \in Nat \ {0} /\ ProbeTimeout \in Nat /\ StickyTtl \in Nat
ASSUME FaultsAssumption == Faults \subseteq AllFaults

VARIABLES pc,      \* where each flight is
          base,    \* the peer it races
          via,     \* how it came by that peer
          peer,    \* the goroutine of peerGet, or its result in peerCh
          cdn,     \* the goroutine of cdnGet, or its result in cdnCh
          delay,   \* the head start of the race
          age,     \* how long the race, or the probe, has lasted
          sticky,  \* stickyPeer: the url, and how long it is good for
          dead     \* peers that have stopped serving

race == <<base, via, delay>>
vars == <<pc, race, peer, cdn, age, sticky, dead>>
-----------------------------------------------------------------------------
Racing == {"headstart", "hedged", "waitcdn", "waitpeer"}
Timed == Racing \cup {"probe"}
Quiet == {"idle", "done"}

\* A goroutine's life: not there, running, its result in its channel.
Results == {"ok", "failed"}
Lives == {"none", "running"} \cup Results

Goto(r, l) == pc' = [pc EXCEPT ![r] = l]

\* Mutant: the head start has no upper limit.
HedgeDelayLong(tp, size) ==
    IF tp = 0 THEN HedgeMax ELSE Max({HedgeMin, (size * HedgeFactor) \div tp})

\* hedgeDelay, for a peer of estimated throughput tp (0: none known).
HedgeDelay(tp, size) ==
    IF tp = 0
    THEN HedgeMax
    ELSE Min({HedgeMax, Max({HedgeMin, (size * HedgeFactor) \div tp})})

\* Mutant: channels without a buffer.
Unbuffered == 0

\* The capacity of peerCh.
ChanCap == 1

\* Whether the result of peerGet can be sent.
CanSend(r) == ChanCap > 0 \/ pc[r] \in Racing

\* The result c in its channel; once the race is over nobody reads it.
Sent(r, c) == IF pc[r] \in Racing THEN c ELSE "none"

\* raceOnePeer returns: its goroutines run on, the rest is collected.
LeaveRace(r) ==
    /\ base' = [base EXCEPT ![r] = NoPeer]
    /\ via' = [via EXCEPT ![r] = "sticky"]
    /\ delay' = [delay EXCEPT ![r] = 0]
    /\ age' = [age EXCEPT ![r] = 0]
    /\ peer' = [peer EXCEPT ![r] = IF @ \in Results THEN "none" ELSE @]
    /\ cdn' = [cdn EXCEPT ![r] = IF @ \in Results THEN "none" ELSE @]
-----------------------------------------------------------------------------
Init ==
    /\ pc = [r \in Req |-> "idle"]
    /\ base = [r \in Req |-> NoPeer]
    /\ via = [r \in Req |-> "sticky"]
    /\ peer = [r \in Req |-> "none"]
    /\ cdn = [r \in Req |-> "none"]
    /\ delay = [r \in Req |-> 0]
    /\ age = [r \in Req |-> 0]
    /\ sticky = [url |-> NoPeer, left |-> 0]
    /\ dead = {}

\* raceOnePeer computes the head start and starts the peer's goroutine.
BeginRace(r, p, how) ==
    /\ Goto(r, "headstart")
    /\ base' = [base EXCEPT ![r] = p]
    /\ via' = [via EXCEPT ![r] = how]
    /\ \E tp \in Throughputs, size \in Sizes :
          delay' = [delay EXCEPT ![r] = HedgeDelay(tp, size)]
    /\ peer' = [peer EXCEPT ![r] = "running"]
    /\ age' = [age EXCEPT ![r] = 0]

\* A cold range: fetchFromPeer is called and asks sticky.get.  A live sticky
\* peer is raced at once, otherwise all peers are probed.
StartSticky(r) ==
    /\ pc[r] = "idle"
    /\ sticky.url # NoPeer /\ sticky.left > 0
    /\ BeginRace(r, sticky.url, "sticky")
    /\ UNCHANGED <<cdn, sticky, dead>>

StartProbe(r) ==
    /\ pc[r] = "idle"
    /\ sticky.url = NoPeer \/ sticky.left = 0
    /\ Goto(r, "probe")
    /\ UNCHANGED <<race, peer, cdn, age, sticky, dead>>

\* fanoutProbe: p is the first to say that it has the range.
ProbeFinds(r, p) ==
    /\ pc[r] = "probe"
    /\ p \notin dead
    /\ BeginRace(r, p, "probe")
    /\ UNCHANGED <<cdn, sticky, dead>>

\* fanoutProbe: no peer has the range, or none says so in time.
ProbeFails(r) ==
    /\ pc[r] = "probe"
    /\ Goto(r, "done")
    /\ age' = [age EXCEPT ![r] = 0]
    /\ UNCHANGED <<race, peer, cdn, sticky, dead>>
-----------------------------------------------------------------------------
\* The race.

\* peerGet ends, with the range or without it.
PeerEnds(r, c) ==
    /\ peer[r] = "running"
    /\ c = "ok" => base[r] \notin dead
    /\ CanSend(r)
    /\ peer' = [peer EXCEPT ![r] = Sent(r, c)]
    /\ UNCHANGED <<pc, race, cdn, age, sticky, dead>>

\* The head start is over and the hedge is launched: cdnGet takes a slot, or
\* finds the pool full and fails.
TimerFires(r, slot) ==
    /\ pc[r] = "headstart"
    /\ age[r] = delay[r]
    /\ slot \/ "pool" \in Faults
    /\ Goto(r, "hedged")
    /\ cdn' = [cdn EXCEPT ![r] = IF slot THEN "running" ELSE "failed"]
    /\ UNCHANGED <<race, peer, age, sticky, dead>>

\* cdnGet ends; after the race it ends because it was cancelled, and its
\* result is read by the goroutine that books the wasted bytes.
CdnEnds(r, c) ==
    /\ cdn[r] = "running"
    /\ c = "failed" => "cdn" \in Faults \/ pc[r] \notin Racing
    /\ cdn' = [cdn EXCEPT ![r] = Sent(r, c)]
    /\ UNCHANGED <<pc, race, peer, age, sticky, dead>>

\* raceOnePeer receives from peerCh.
ReceivePeer(r) ==
    /\ pc[r] \in {"headstart", "hedged", "waitpeer"}
    /\ peer[r] \in Results
    /\ Goto(r, CASE peer[r] = "ok" -> "wonpeer"
                 [] peer[r] = "failed" /\ pc[r] = "hedged" -> "waitcdn"
                 [] OTHER -> "lost")
    /\ peer' = [peer EXCEPT ![r] = "none"]
    /\ UNCHANGED <<race, cdn, age, sticky, dead>>

\* raceOnePeer receives from cdnCh.
ReceiveCdn(r) ==
    /\ pc[r] \in {"hedged", "waitcdn"}
    /\ cdn[r] \in Results
    /\ Goto(r, CASE cdn[r] = "ok" -> "woncdn"
                 [] cdn[r] = "failed" /\ pc[r] = "hedged" -> "waitpeer"
                 [] OTHER -> "lost")
    /\ cdn' = [cdn EXCEPT ![r] = "none"]
    /\ UNCHANGED <<race, peer, age, sticky, dead>>
-----------------------------------------------------------------------------
\* Mutant: whoever won, the peer is pinned.
UpdateStickyAlways(r) ==
    /\ pc[r] \in {"wonpeer", "woncdn"}
    /\ sticky' = [url |-> base[r], left |-> StickyTtl]
    /\ Goto(r, "done")
    /\ LeaveRace(r)
    /\ UNCHANGED dead

\* updateSticky pins a peer that won and drops one that the CDN overtook.
UpdateSticky(r) ==
    /\ pc[r] \in {"wonpeer", "woncdn"}
    /\ sticky' = IF pc[r] = "wonpeer" THEN [url |-> base[r], left |-> StickyTtl]
                 ELSE [sticky EXCEPT !.url = NoPeer]
    /\ Goto(r, "done")
    /\ LeaveRace(r)
    /\ UNCHANGED dead

\* Both sides of the race failed.  A sticky peer is dropped and the others
\* are probed; after a probe's race the plain CDN path takes over.
LoseRace(r) ==
    /\ pc[r] = "lost"
    /\ IF via[r] = "sticky"
       THEN /\ sticky' = [sticky EXCEPT !.url = NoPeer]
            /\ Goto(r, "probe")
       ELSE Goto(r, "done") /\ UNCHANGED sticky
    /\ LeaveRace(r)
    /\ UNCHANGED dead

\* The goroutines the flight has started are gone, and so is the flight; its
\* name may stand for another one.
Finish(r) ==
    /\ pc[r] = "done"
    /\ peer[r] = "none" /\ cdn[r] = "none"
    /\ Goto(r, "idle")
    /\ UNCHANGED <<race, peer, cdn, age, sticky, dead>>
-----------------------------------------------------------------------------
\* A peer stops serving: its connections stall or fail.
PeerDies(p) ==
    /\ p \in Mortal \ dead
    /\ dead' = dead \cup {p}
    /\ UNCHANGED <<pc, race, peer, cdn, age, sticky>>

\* The flight waits for something that may take time.
MayWait(r) ==
    \/ pc[r] \in Quiet
    \/ pc[r] = "probe" /\ age[r] < ProbeTimeout
    \/ /\ pc[r] \in Racing
       /\ pc[r] = "headstart" => age[r] < delay[r]
       /\ pc[r] # "waitcdn" => peer[r] = "running" /\ age[r] < FetchTimeout
       /\ pc[r] \in {"hedged", "waitcdn"} =>
             cdn[r] = "running" /\ age[r] < delay[r] + CdnTime

Tick ==
    /\ \A r \in Req : MayWait(r)
    /\ sticky.left > 0 \/ \E r \in Req : pc[r] \in Timed
    /\ age' = [r \in Req |-> IF pc[r] \in Timed THEN age[r] + 1 ELSE age[r]]
    /\ sticky' = [sticky EXCEPT !.left = IF @ > 0 THEN @ - 1 ELSE 0]
    /\ UNCHANGED <<pc, race, peer, cdn, dead>>

Fetch(r) ==
    \/ \E p \in Peers : ProbeFinds(r, p)
    \/ ProbeFails(r)
    \/ \E slot \in BOOLEAN : TimerFires(r, slot)
    \/ ReceivePeer(r) \/ ReceiveCdn(r)
    \/ UpdateSticky(r) \/ LoseRace(r) \/ Finish(r)

PeerSide(r) == \E c \in Results : PeerEnds(r, c)
CdnSide(r) == \E c \in Results : CdnEnds(r, c)

Next ==
    \/ \E r \in Req :
          \/ StartSticky(r) \/ StartProbe(r)
          \/ Fetch(r) \/ PeerSide(r) \/ CdnSide(r)
    \/ \E p \in Peers : PeerDies(p)
    \/ Tick

\* Go runs every goroutine that can run; a request to a peer or to the CDN
\* ends by itself, by its timeout or by its cancellation; time passes.
Fairness ==
    /\ \A r \in Req :
          WF_vars(Fetch(r)) /\ WF_vars(PeerSide(r)) /\ WF_vars(CdnSide(r))
    /\ SF_vars(Tick)

Spec == Init /\ [][Next]_vars /\ Fairness
-----------------------------------------------------------------------------
\* The type of the state; the sticky peer is never good for longer than its
\* TTL, however many wins renew it (stickyPeer.set).
TypeOK ==
    /\ pc \in [Req -> Timed \cup Quiet \cup {"wonpeer", "woncdn", "lost"}]
    /\ base \in [Req -> Peers \cup {NoPeer}]
    /\ via \in [Req -> {"sticky", "probe"}]
    /\ peer \in [Req -> Lives]
    /\ cdn \in [Req -> Lives]
    /\ delay \in [Req -> Nat]
    /\ age \in [Req -> Nat]
    /\ sticky \in [url : Peers \cup {NoPeer}, left : 0 .. StickyTtl]
    /\ dead \subseteq Peers

\* A race lasts no longer than PEER_HEDGE_MAX_MS and a fetch from the CDN; if
\* its hedge has failed, or got no slot, no longer than the peer's timeout.
\* When it is given up, every goroutine it has started has ended: the next race
\* of the flight meets no goroutine of the one before.  That is not to say that
\* both sides have failed: a peer that fails in its head start gives the race
\* up with the CDN never asked (the first select of raceOnePeer), and getXorb
\* asks it later.
RaceSound ==
    \A r \in Req :
        /\ pc[r] \in Racing =>
              \/ age[r] <= HedgeMax + CdnTime
              \/ pc[r] = "waitpeer" /\ age[r] <= FetchTimeout
        /\ pc[r] \in {"lost", "probe"} => peer[r] = "none" /\ cdn[r] = "none"

\* A peer that has stopped serving is not raced for long as the sticky peer:
\* a burst of requests cannot keep it pinned, although flights that it served
\* before may pin it once more (updateSticky, sticky.clear).
DeadPeerDropped ==
    \A p \in Peers : p \in dead ~> [](sticky.url # p \/ sticky.left = 0)

\* Every flight leaves fetchFromPeer, and every goroutine it has started ends,
\* the ones that lost the race included: nobody is left behind sending on a
\* channel that no one reads.
GoroutinesEnd == \A r \in Req : pc[r] # "idle" ~> pc[r] = "idle"
-----------------------------------------------------------------------------
\* The parts of the inductive invariant behind the theorems.

\* Which of its two channels a flight may still hear from.
ChannelsSound ==
    \A r \in Req :
        /\ pc[r] \in {"idle", "probe", "lost"} => peer[r] = "none" /\ cdn[r] = "none"
        /\ pc[r] \in {"headstart", "waitpeer"} => cdn[r] = "none"
        /\ pc[r] = "waitcdn" => peer[r] = "none"

\* No part of a race outlasts its own limit.
ClocksSound ==
    \A r \in Req :
        /\ delay[r] <= HedgeMax
        /\ pc[r] = "headstart" => age[r] <= delay[r]
        /\ pc[r] \in {"hedged", "waitcdn"} => age[r] <= delay[r] + CdnTime
        /\ pc[r] = "waitpeer" => age[r] <= HedgeMax + CdnTime \/ age[r] <= FetchTimeout

IInv == TypeOK /\ ChannelsSound /\ ClocksSound
=============================================================================
