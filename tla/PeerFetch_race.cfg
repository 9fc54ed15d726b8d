\* Two flights, a peer that may die, a CDN that may fail, a pool that may
\* be full; a head start of nothing or one, less than the peer's timeout.
SPECIFICATION Spec
CONSTANTS
    Req = {f1, f2}
    Peers = {p}
    NoPeer = NoPeer
    Throughputs = {0, 4}
    Sizes = {0, 12}
    HedgeFactor = 1
    HedgeMin = 0
    HedgeMax = 1
    FetchTimeout = 3
    ProbeTimeout = 1
    StickyTtl = 1
    CdnTime = 1
    Mortal = {p}
    Faults = {"cdn", "pool"}
INVARIANTS RaceSound
PROPERTIES DeadPeerDropped GoroutinesEnd
