\* Both limits at work, a volume shared with others, statfs and os.Remove
\* failing now and then, one restart.  Three keys of one or two bytes over a
\* budget of three: a Record evicts zero, one or two entries or resizes one.
SPECIFICATION Spec
CONSTANTS
    Keys = {a, b, c}
    Sizes = {1, 2}
    MaxBytes = 3
    MinFree = 1
    Volume = 5
    Faults = {"statfs", "remove"}
    Forgettable = {a, b, c}
    MaxRestarts = 1
INVARIANTS TypeOK TotalIsSum WithinBudget OwnEntryLast
PROPERTIES VolumeHonest EvictionTerminates
