SPECIFICATION ConversationsSpec
CONSTANTS
    Contents <- FewContents
    Modes <- ActingModes
    Lengths = {2}
    MaxPlans = 1
    MaxPatches = 2
    MaxSteps = 2
    Guard = 1
    Cap = 2
    MaxMissed = 1
    MaxUnguarded = 0
    Terminals = {t1}
    KeptTurns = 2
    Batch = 1
    LongTalk = 1
    LegacyTurns = 1
    MaxTalks = 2
    MaxInputs = 4
    MaxToolResults = 2
    MaxBad = 1
    MaxEnds = 1
INVARIANTS
    NoItemSkipped
    CreateDeleteIsReviewed
    PendingIsUnapplied
    GuardBoundsWrites
    TurnsFollowTheConversation
    NothingForgotten
PROPERTIES
    OnlyARepairReplaces
