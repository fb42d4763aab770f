SPECIFICATION Spec
CONSTANTS
    Procs <- MCProcs
    Jobs <- MCJobs
    Configs = {"low", "high", "bad"}
    Invalid = {"bad"}
    None = None
    MAX_ATTEMPTS = 1
    MAX_RETRIES = 2
    MaxFaults = 0
    MaxCalls = 1
    MaxChanges = 1
INVARIANT SyncedMeansSynced
CHECK_DEADLOCK FALSE
