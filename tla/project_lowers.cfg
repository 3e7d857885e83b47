SPECIFICATION GateSpec
CONSTANTS
    worker = worker
    approver = approver
    Hosts = {"a", "b"}
    Commands <- JustList
    Shells = {worker, approver}
    Uses <- OneWorker
    UserFiles <- JustGit
    ProjectFiles <- FewProjectFiles
    EnvPolicies = {"unset"}
    Nothing = Nothing
    Fragment = Fragment
    MaxConfigEdits = 1
    MaxHookApprovals = 1
    MaxTornLines = 1
INVARIANT ProjectCannotLower
CHECK_DEADLOCK FALSE
