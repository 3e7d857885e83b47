SPECIFICATION WorkersSpec
CONSTANTS
    Contents <- FewContents
    Modes <- FewModes
    Lengths = {1}
    MaxPlans = 1
    MaxPatches = 1
    MaxSteps = 2
    Guard = 1
    Cap = 2
    MaxMissed = 1
    MaxUnguarded = 0
    MaxRequests = 4
    Invalid = {2}
    Workers = {w1, w2}
    Terminals = {x}
    MaxTakeUps = 1
    MaxFailures = 1
    Managers = {m1, m2}
    Pids = {1, 2}
    MaxLifecycles = 3
    MaxExits = 2
    MaxManagerKills = 1
    MaxOutput = 2
    MaxPieces = 4
INVARIANTS
    NothingLeftBehind
    OneServer
PROPERTIES
    RunsEnd
    CompletedStays
    CallersGoOn
    CallEnds
CHECK_DEADLOCK FALSE
