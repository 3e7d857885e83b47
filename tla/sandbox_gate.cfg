SPECIFICATION ExecutionSpec
CONSTANTS
    p1 = p1
    p2 = p2
    good = good
    bad = bad
    Procs = {p1, p2}
    Proposals = {good, bad}
    Refused = {bad}
    Disabled = {}
    None = None
    MaxGrants = 2
    MaxCrashes = 1
    MaxAged = 1
    source = source
    keys = keys
    root = root
    out = out
    Places <- SomePlaces
    Project = {source, keys, root}
    Secret = {keys}
    Unmountable <- NoRoot
    Requests <- SomeRequests
    Configs <- SomeConfigs
    Hosts <- SomeHosts
    Relinks <- SomeRelinks
    Nil = Nil
    MaxOffers = 2
    MaxMoves = 2
    t1 = t1
    t2 = t2
    mod = mod
    new = new
    other = other
    k1 = k1
    k2 = k2
    Terminals = {t1, t2}
    Paths <- FewPaths
    Contents = {"old", "text"}
    Gone = Gone
    Beside <- FewBeside
    Committed <- OldFiles
    Changes <- FewChanges
    Tasks = {k1, k2}
    Nobody = Nobody
    Lookback = 2
    MaxProposed = 2
    MaxActs = 2
    MaxRollbacks = 1
    MaxCommits = 2
INVARIANTS
    SingleClaim
    NoClaimOfDead
    PreflightCovers
    ReturnedIsSettled
    RunsAsReviewed
    CommitsAreTheTasks
SYMMETRY Symmetry
CHECK_DEADLOCK FALSE
