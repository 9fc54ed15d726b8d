\* Both clients remember urls of xorb x; caps that overflow, urls that are
\* renewed and expire, a CDN that refuses at will.
SPECIFICATION Spec
CONSTANTS
    c1 = c1
    c2 = c2
    x = x
    y = y
    z = z
    w1 = w1
    w2 = w2
    w3 = w3
    Clients = {c1, c2}
    Hashes = {x, y, z}
    Windows = {w1, w2, w3}
    Signatures = {1}
    NoUrl = NoUrl
    Asks <- MCAsks
    Ttl = 2
    MaxEntries = 2
    Candidates = 2
    Healthy = FALSE
    MaxClock = 2
SYMMETRY Symmetry
INVARIANTS TypeOK
PROPERTIES PromisedWindowServed
