\* Two Puts at a time of three manifests, room for two; writes and
\* removals fail and the process dies.
SPECIFICATION Spec
CONSTANTS
    Handlers = {h1, h2}
    NoHandler = NoHandler
    Paths = {p, q, r}
    NoPath = NoPath
    MaxEntries = 2
    Faults = {"disk", "remove", "crash"}
    MaxCrashes = 1
INVARIANTS TypeOK CapExact NoUntrackedManifest
PROPERTIES Answered
