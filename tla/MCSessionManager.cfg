SPECIFICATION Spec
CONSTANTS
    Uids = {u1, u2}
    InstanceIds = {i1, i2}
    None = None
    SESSION_TIMEOUT_MS = 2
    CHALLENGE_TIMEOUT_MS = 1
    MaxTime = 7
    MaxChallenges = 3
INVARIANT TypeOK
PROPERTY ImplementsLease
