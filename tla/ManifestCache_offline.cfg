\* Room for all three manifests, and the process dies at any moment.
SPECIFICATION Spec
CONSTANTS
    Handlers = {h1, h2}
    NoHandler = NoHandler
    Paths = {p, q, r}
    NoPath = NoPath
    MaxEntries = 3
    Faults = {"crash", "remove"}
    MaxCrashes = 2
SYMMETRY Symmetry
INVARIANTS OfflineAfterAnswer
