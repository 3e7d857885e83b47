SPECIFICATION StoresSpec
CONSTANTS
    p1 = p1
    p2 = p2
    Procs = {p1, p2}
    Missing = Missing
    MaxEvents = 2
    MaxSplits = 1
    MaxEdits = 1
    MaxCrashes = 1
    Hosts = {p1, p2}
    Calls <- MCCalls
    Writes = {"put"}
    Tool <- MCTool
    Payload <- MCPayload
    NoCall = NoCall
    Absent = Absent
    TornFile = TornFile
    MaxProposals = 2
    MaxGrants = 1
    MaxFaults = 1
    Shells = {p1, p2}
    Failures = {"f1"}
    MaxIterations = 1
    MaxTasks = 2
    MaxCommands = 3
    MaxKills = 1
    MaxFailed = 1
    Kinds = {"journal", "steps", "sessions", "workspace", "facts", "queue"}
    Users = {p1, p2}
    MaxKept = 3
    MaxLong = 1
    MinKept = 1
    MaxRecords = 4
    MaxUnreadable = 1
    MaxChanges = 2
    MaxKilled = 1
    MaxSources = 2
    Texts = {"a", "b"}
    MaxChunks = 2
    BatchSize = 2
    Builders = {p1, p2}
    MaxBuilds = 2
    MaxChanged = 1
    Callers = {p1, p2}
    MaxAttempts = 2
    MaxOps = 2
    MaxUsed = 2
    MaxShared = 2
    MaxSaveFailures = 1
    MaxCallKills = 1
INVARIANTS
    SerialVerifies
    EditsAreNoticed
    OkIsCurrent
    ApprovedRunsOnce
    WritesArePermitted
    NoFixIsLost
    KeepsWhatItWasGiven
    StoresWhatIsNew
    UsageIsCounted
    RequestsAreBounded
PROPERTIES
    EndedStays
SYMMETRY MCSymmetry
CHECK_DEADLOCK FALSE
