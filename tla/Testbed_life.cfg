\* A fleet of two and two models; every fault at every step, or none at all.
SPECIFICATION Spec
CONSTANTS
    Groups = {A, B}
    Models = {m0, m1}
    Baseline = baseline
    VolumeLabel = volumecache
    Configs <- MCConfigs
    NoFile = NoFile
    Torn = Torn
    Faults = {"call", "lost", "disk", "timeout", "lag", "manifest",
              "ignored", "kill"}
    MaxDowns = 2
INVARIANTS TypeOK FleetRecorded TeardownComplete UpThenDown
    DeclaredOrReported
PROPERTIES ReusedUntouched MeshWhole UpEnds
CHECK_DEADLOCK FALSE
