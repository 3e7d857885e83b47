SPECIFICATION GitSpec
CONSTANTS
    t1 = t1
    t2 = t2
    mod = mod
    new = new
    other = other
    k1 = k1
    k2 = k2
    Terminals = {t1}
    Paths <- FewPaths
    Contents = {"old", "text"}
    Gone = Gone
    Beside <- FewBeside
    Committed <- OldFiles
    Changes <- FewChanges
    Tasks = {k1, k2}
    Nobody = Nobody
    Lookback = 2
    MaxProposed = 1
    MaxActs = 2
    MaxRollbacks = 0
    MaxCommits = 2
INVARIANTS
    UnrelatedIsRefused
CHECK_DEADLOCK FALSE
