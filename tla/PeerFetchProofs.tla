-------------------------- MODULE PeerFetchProofs --------------------------
(***************************************************************************)
(* The safety theorems of PeerFetch: for any number of flights and peers,  *)
(* every setting of the timers and timeouts, and every fault.              *)
(***************************************************************************)
EXTENDS PeerFetch, TLAPS

\* hedgeDelay never exceeds PEER_HEDGE_MAX_MS, whatever is known of the peer.
LEMMA HedgeDelayBounded ==
    ASSUME NEW tp \in Throughputs, NEW size \in Sizes
    PROVE  HedgeDelay(tp, size) \in Nat /\ HedgeDelay(tp, size) <= HedgeMax
<1>1. tp \in Nat /\ size \in Nat /\ HedgeFactor \in Nat /\ HedgeMin \in Nat /\ HedgeMax \in Nat
  BY ThroughputAssumption, TimesAssumption
<1>2. CASE tp = 0
  BY <1>1, <1>2 DEF HedgeDelay
<1>3. CASE tp # 0
  <2> DEFINE time == size * HedgeFactor
             q == time \div tp
             floor == Max({HedgeMin, q})
             d == Min({HedgeMax, floor})
  <2>1. time \in Nat
    BY <1>1
  <2> HIDE DEF time
  <2>2. q \in Int
    BY <1>1, <1>3, <2>1
  <2> HIDE DEF q
  <2>3. floor \in {HedgeMin, q} /\ \A y \in {HedgeMin, q} : floor >= y
    <3>1. \E x \in {HedgeMin, q} : \A y \in {HedgeMin, q} : x >= y
      BY <1>1, <2>2
    <3> QED BY <3>1 DEF Max
  <2>4. floor \in Nat
    BY <1>1, <2>2, <2>3
  <2> HIDE DEF floor
  <2>5. d \in {HedgeMax, floor} /\ \A y \in {HedgeMax, floor} : d <= y
    <3>1. \E x \in {HedgeMax, floor} : \A y \in {HedgeMax, floor} : x <= y
      BY <1>1, <2>4
    <3> QED BY <3>1 DEF Min
  <2>6. d \in Nat /\ d <= HedgeMax
    BY <1>1, <2>4, <2>5
  <2>7. HedgeDelay(tp, size) = d
    BY <1>3 DEF HedgeDelay, d, floor, q, time
  <2> QED BY <2>6, <2>7
<1> QED BY <1>2, <1>3

\* The type of the state.
LEMMA TypeStep == ASSUME TypeOK, [Next]_vars PROVE TypeOK'
<1> USE TimesAssumption, PeersAssumption DEF TypeOK, Goto, race, Racing, Timed, Quiet, Results, Lives
<1>1. ASSUME NEW r \in Req, StartSticky(r) PROVE TypeOK'
  BY <1>1, HedgeDelayBounded DEF StartSticky, BeginRace
<1>2. ASSUME NEW r \in Req, StartProbe(r) PROVE TypeOK'
  BY <1>2 DEF StartProbe
<1>3. ASSUME NEW r \in Req, NEW p \in Peers, ProbeFinds(r, p) PROVE TypeOK'
  BY <1>3, HedgeDelayBounded DEF ProbeFinds, BeginRace
<1>4. ASSUME NEW r \in Req, ProbeFails(r) PROVE TypeOK'
  BY <1>4 DEF ProbeFails
<1>5. ASSUME NEW r \in Req, NEW c \in Results, PeerEnds(r, c) PROVE TypeOK'
  BY <1>5 DEF PeerEnds, Sent
<1>6. ASSUME NEW r \in Req, NEW slot \in BOOLEAN, TimerFires(r, slot) PROVE TypeOK'
  BY <1>6 DEF TimerFires
<1>7. ASSUME NEW r \in Req, NEW c \in Results, CdnEnds(r, c) PROVE TypeOK'
  BY <1>7 DEF CdnEnds, Sent
<1>8. ASSUME NEW r \in Req, ReceivePeer(r) PROVE TypeOK'
  BY <1>8 DEF ReceivePeer
<1>9. ASSUME NEW r \in Req, ReceiveCdn(r) PROVE TypeOK'
  BY <1>9 DEF ReceiveCdn
<1>10. ASSUME NEW r \in Req, UpdateSticky(r) PROVE TypeOK'
  BY <1>10 DEF UpdateSticky, LeaveRace
<1>11. ASSUME NEW r \in Req, LoseRace(r) PROVE TypeOK'
  BY <1>11 DEF LoseRace, LeaveRace
<1>12. ASSUME NEW r \in Req, Finish(r) PROVE TypeOK'
  BY <1>12 DEF Finish
<1>13. ASSUME NEW p \in Peers, PeerDies(p) PROVE TypeOK'
  BY <1>13 DEF PeerDies
<1>14. ASSUME Tick PROVE TypeOK'
  BY <1>14 DEF Tick, MayWait
<1>15. ASSUME UNCHANGED vars PROVE TypeOK'
  BY <1>15 DEF vars
<1> QED
  BY <1>1, <1>2, <1>3, <1>4, <1>5, <1>6, <1>7, <1>8,
     <1>9, <1>10, <1>11, <1>12, <1>13, <1>14, <1>15 DEF Next, Fetch, PeerSide, CdnSide

\* Every receive that ends a race or a wait has emptied the other channel before.
LEMMA ChannelsStep == ASSUME TypeOK, ChannelsSound, [Next]_vars PROVE ChannelsSound'
<1> USE TimesAssumption, PeersAssumption DEF TypeOK, ChannelsSound, Goto, race, Racing, Timed, Quiet, Results, Lives
<1>1. ASSUME NEW r \in Req, StartSticky(r) PROVE ChannelsSound'
  BY <1>1, HedgeDelayBounded DEF StartSticky, BeginRace
<1>2. ASSUME NEW r \in Req, StartProbe(r) PROVE ChannelsSound'
  BY <1>2 DEF StartProbe
<1>3. ASSUME NEW r \in Req, NEW p \in Peers, ProbeFinds(r, p) PROVE ChannelsSound'
  BY <1>3, HedgeDelayBounded DEF ProbeFinds, BeginRace
<1>4. ASSUME NEW r \in Req, ProbeFails(r) PROVE ChannelsSound'
  BY <1>4 DEF ProbeFails
<1>5. ASSUME NEW r \in Req, NEW c \in Results, PeerEnds(r, c) PROVE ChannelsSound'
  BY <1>5 DEF PeerEnds, Sent
<1>6. ASSUME NEW r \in Req, NEW slot \in BOOLEAN, TimerFires(r, slot) PROVE ChannelsSound'
  BY <1>6 DEF TimerFires
<1>7. ASSUME NEW r \in Req, NEW c \in Results, CdnEnds(r, c) PROVE ChannelsSound'
  BY <1>7 DEF CdnEnds, Sent
<1>8. ASSUME NEW r \in Req, ReceivePeer(r) PROVE ChannelsSound'
  BY <1>8 DEF ReceivePeer
<1>9. ASSUME NEW r \in Req, ReceiveCdn(r) PROVE ChannelsSound'
  BY <1>9 DEF ReceiveCdn
<1>10. ASSUME NEW r \in Req, UpdateSticky(r) PROVE ChannelsSound'
  BY <1>10 DEF UpdateSticky, LeaveRace
<1>11. ASSUME NEW r \in Req, LoseRace(r) PROVE ChannelsSound'
  BY <1>11 DEF LoseRace, LeaveRace
<1>12. ASSUME NEW r \in Req, Finish(r) PROVE ChannelsSound'
  BY <1>12 DEF Finish
<1>13. ASSUME NEW p \in Peers, PeerDies(p) PROVE ChannelsSound'
  BY <1>13 DEF PeerDies
<1>14. ASSUME Tick PROVE ChannelsSound'
  BY <1>14 DEF Tick, MayWait
<1>15. ASSUME UNCHANGED vars PROVE ChannelsSound'
  BY <1>15 DEF vars
<1> QED
  BY <1>1, <1>2, <1>3, <1>4, <1>5, <1>6, <1>7, <1>8,
     <1>9, <1>10, <1>11, <1>12, <1>13, <1>14, <1>15 DEF Next, Fetch, PeerSide, CdnSide

\* Time passes for a race only within the limits of what it waits for.
LEMMA ClocksStep == ASSUME TypeOK, ClocksSound, [Next]_vars PROVE ClocksSound'
<1> USE TimesAssumption, PeersAssumption DEF TypeOK, ClocksSound, Goto, race, Racing, Timed, Quiet, Results, Lives
<1>1. ASSUME NEW r \in Req, StartSticky(r) PROVE ClocksSound'
  BY <1>1, HedgeDelayBounded DEF StartSticky, BeginRace
<1>2. ASSUME NEW r \in Req, StartProbe(r) PROVE ClocksSound'
  BY <1>2 DEF StartProbe
<1>3. ASSUME NEW r \in Req, NEW p \in Peers, ProbeFinds(r, p) PROVE ClocksSound'
  BY <1>3, HedgeDelayBounded DEF ProbeFinds, BeginRace
<1>4. ASSUME NEW r \in Req, ProbeFails(r) PROVE ClocksSound'
  BY <1>4 DEF ProbeFails
<1>5. ASSUME NEW r \in Req, NEW c \in Results, PeerEnds(r, c) PROVE ClocksSound'
  BY <1>5 DEF PeerEnds, Sent
<1>6. ASSUME NEW r \in Req, NEW slot \in BOOLEAN, TimerFires(r, slot) PROVE ClocksSound'
  BY <1>6 DEF TimerFires
<1>7. ASSUME NEW r \in Req, NEW c \in Results, CdnEnds(r, c) PROVE ClocksSound'
  BY <1>7 DEF CdnEnds, Sent
<1>8. ASSUME NEW r \in Req, ReceivePeer(r) PROVE ClocksSound'
  BY <1>8 DEF ReceivePeer
<1>9. ASSUME NEW r \in Req, ReceiveCdn(r) PROVE ClocksSound'
  BY <1>9 DEF ReceiveCdn
<1>10. ASSUME NEW r \in Req, UpdateSticky(r) PROVE ClocksSound'
  BY <1>10 DEF UpdateSticky, LeaveRace
<1>11. ASSUME NEW r \in Req, LoseRace(r) PROVE ClocksSound'
  BY <1>11 DEF LoseRace, LeaveRace
<1>12. ASSUME NEW r \in Req, Finish(r) PROVE ClocksSound'
  BY <1>12 DEF Finish
<1>13. ASSUME NEW p \in Peers, PeerDies(p) PROVE ClocksSound'
  BY <1>13 DEF PeerDies
<1>14. ASSUME Tick PROVE ClocksSound'
  BY <1>14 DEF Tick, MayWait
<1>15. ASSUME UNCHANGED vars PROVE ClocksSound'
  BY <1>15 DEF vars
<1> QED
  BY <1>1, <1>2, <1>3, <1>4, <1>5, <1>6, <1>7, <1>8,
     <1>9, <1>10, <1>11, <1>12, <1>13, <1>14, <1>15 DEF Next, Fetch, PeerSide, CdnSide

\* Before the first flight.
LEMMA InitIInv == Init => IInv
BY TimesAssumption, PeersAssumption
   DEF Init, IInv, TypeOK, ChannelsSound, ClocksSound, Timed, Racing, Quiet, Lives, Results

LEMMA NextIInv == IInv /\ [Next]_vars => IInv'
BY TypeStep, ChannelsStep, ClocksStep DEF IInv

LEMMA InvariantHolds == Spec => []IInv
BY InitIInv, NextIInv, PTL DEF Spec

\* The sticky peer is never good for longer than its TTL, and every channel
\* holds at most the one result of its goroutine.
THEOREM PeerFetchType == Spec => []TypeOK
<1>1. IInv => TypeOK
  BY DEF IInv
<1> QED BY <1>1, InvariantHolds, PTL

\* A race is over within the head start and a fetch from the CDN, or within the
\* peer's timeout when its hedge has failed, and a race that is lost leaves no
\* goroutine and no result behind (raceOnePeer).
THEOREM RacesAreSound == Spec => []RaceSound
<1>1. ASSUME IInv PROVE RaceSound
  BY <1>1, TimesAssumption
     DEF IInv, TypeOK, ChannelsSound, ClocksSound, RaceSound, Racing, Timed, Quiet
<1> QED BY <1>1, InvariantHolds, PTL
=============================================================================
