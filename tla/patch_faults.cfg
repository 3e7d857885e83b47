SPECIFICATION MCSpec
CONSTANTS
    p1 = p1
    p2 = p2
    fa = fa
    fb = fb
    Procs = {p1, p2}
    Files = {fa, fb}
    Regions <- TwoRegions
    Text <- Texts
    Empty <- BlankFile
    Absent = Absent
    NoPatch = NoPatch
    Unwritten = Unwritten
    InitialDisk <- BothFiles
    Patches <- ModelPatches
    NativeCalls <- NoCalls
    DirectPatches <- NoPatches
    Rollbacks = {"rollback_last", "rollback_checkpoint", "undo_command"}
    FaultKinds = {"backup", "write", "sync", "restore"}
    MaxCheckpoints = 2
    MaxEdits = 1
    MaxFaults = 1
    MaxCrashes = 1
INVARIANTS
    WritesHaveCheckpoint
    BackupIsPreimage
    FailedApplyRestores
    ReplacesWhatItChecked
    AppliedIsWhole
    RollbackUndoesWrites
SYMMETRY Symmetry
CHECK_DEADLOCK FALSE
