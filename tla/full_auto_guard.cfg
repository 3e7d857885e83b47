SPECIFICATION Spec
CONSTANTS
    Contents <- FewContents
    Modes <- FullAuto
    Lengths = {2}
    MaxPlans = 1
    MaxPatches = 0
    MaxSteps = 2
    Guard = 1
    Cap = 1
    MaxMissed = 1
    MaxUnguarded = 2
INVARIANT PausesAtGuard
