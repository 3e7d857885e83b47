SPECIFICATION Spec
CONSTANTS
    Contents <- FewContents
    Modes <- FewModes
    Lengths = {1}
    MaxPlans = 1
    MaxPatches = 1
    MaxSteps = 1
    Guard = 1
    Cap = 2
    MaxMissed = 1
    MaxUnguarded = 0
INVARIANT CommandsAreAsked
