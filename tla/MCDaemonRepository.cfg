SPECIFICATION RepoSpec
CONSTANTS
    p1 = p1
    p2 = p2
    Procs <- MCProcs
    Jobs <- MCJobs
    Configs = {c1}
    None = None
    MAX_ATTEMPTS = 1
    MaxFaults = 1
    MaxCalls = 2
SYMMETRY Alike
CHECK_DEADLOCK FALSE
INVARIANTS RepoTypeOK DeathIsNoticed OneSequence WaitsInOrder NobodyStuck ConnectingMeansWork PerformedOnce
PROPERTY CallsAreFinite
