SPECIFICATION ApplySpec
CONSTANTS
    p1 = p1
    p2 = p2
    fa = fa
    fb = fb
    Procs = {p1}
    Files = {fa, fb}
    Regions <- TwoRegions
    Text <- Texts
    Empty <- BlankFile
    Absent = Absent
    NoPatch = NoPatch
    Unwritten = Unwritten
    InitialDisk <- FileAndGap
    Patches <- JustMerged
    NativeCalls <- EditAndWrite
    DirectPatches <- LibraryPatches
    Rollbacks = {"rollback_last", "rollback_checkpoint", "undo_command"}
    FaultKinds = {"backup", "write"}
    MaxCheckpoints = 2
    MaxEdits = 0
    MaxFaults = 1
    MaxCrashes = 0
    worker = worker
    approver = approver
    Hosts = {"a", "b"}
    Commands <- FewCommands
    Shells = {worker, approver}
    Uses <- OneWorker
    UserFiles <- FewUserFiles
    ProjectFiles <- FewProjectFiles
    EnvPolicies = {"unset", "learning"}
    Nothing = Nothing
    Fragment = Fragment
    MaxConfigEdits = 1
    MaxHookApprovals = 2
    MaxTornLines = 1
INVARIANTS
    TightensWithin
    RunsAreTheUsers
    HooksArePermitted
PROPERTY AllOrNothing
CHECK_DEADLOCK FALSE
