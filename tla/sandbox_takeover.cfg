SPECIFICATION Spec
CONSTANTS
    p1 = p1
    p2 = p2
    good = good
    bad = bad
    Procs = {p1, p2}
    Proposals = {good}
    Refused = {}
    Disabled = {}
    None = None
    MaxGrants = 2
    MaxCrashes = 1
    MaxAged = 1
INVARIANT ClaimIsAtomic
CHECK_DEADLOCK FALSE
