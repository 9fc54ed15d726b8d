\* Three requests of clients and of other shims, two ranges, room for one:
\* flights, followers and evictions interleave; clients leave, the CDN and the
\* disk fail, the volume fills up, and the process dies at any moment.
SPECIFICATION Spec
CONSTANTS
    Req = {r1, r2, r3}
    NoReq = NoReq
    Keys = {a, b}
    Kinds = {"get", "peer", "head"}
    BodySize = 1
    MaxBytes = 1
    Slots = 2
    Peering = FALSE
    Faults = {"cancel", "cdn", "disk", "floor", "crash"}
    MaxLate = 0
    MaxCrashes = 1
SYMMETRY Symmetry
INVARIANTS TypeOK SingleFlight NoUntrackedFile BudgetHeld
PROPERTIES ServesRanges
