SPECIFICATION Spec
CONSTANTS
    p1 = p1
    p2 = p2
    fa = fa
    fb = fb
    Procs = {p1}
    Files = {fa, fb}
    Regions <- TwoRegions
    Text <- Texts
    Empty <- BlankFile
    Absent = Absent
    NoPatch = NoPatch
    Unwritten = Unwritten
    InitialDisk <- BothFiles
    Patches <- ModelPatches
    NativeCalls <- NoCalls
    DirectPatches <- NoPatches
    Rollbacks = {"rollback_last"}
    FaultKinds = {"write"}
    MaxCheckpoints = 2
    MaxEdits = 0
    MaxFaults = 1
    MaxCrashes = 0
INVARIANT LastIsMostRecentWrite
CHECK_DEADLOCK FALSE
