\* As promise, without the exception for overlapping handlers.
SPECIFICATION Spec
CONSTANTS
    c1 = c1
    c2 = c2
    x = x
    y = y
    z = z
    w1 = w1
    w2 = w2
    w3 = w3
    Clients = {c1, c2}
    Hashes = {x, y, z}
    Windows = {w1, w2, w3}
    Signatures = {1}
    NoUrl = NoUrl
    Asks <- MCAsks
    Ttl = 2
    MaxEntries = 3
    Candidates = 3
    Healthy = TRUE
    MaxClock = 3
PROPERTIES EveryPromiseServed
