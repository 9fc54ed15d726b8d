\* Two requests share one slot with their own hedges, which may lose before or
\* after they get it; clients leave.
SPECIFICATION Spec
CONSTANTS
    Req = {r1, r2}
    NoReq = NoReq
    Keys = {a, b}
    Kinds = {"get"}
    BodySize = 1
    MaxBytes = 0
    Slots = 1
    Peering = TRUE
    Faults = {"cancel"}
    MaxLate = 1
    MaxCrashes = 0
INVARIANTS SlotsAccounted
PROPERTIES Answered
