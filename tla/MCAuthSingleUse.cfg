SPECIFICATION Spec
CONSTANTS
    Threads = {t1, t2}
    Uids = {u1}
    Generations = {1}
    None = None
    SESSION_TIMEOUT_MS = 0
    CHALLENGE_TIMEOUT_MS = 1
    max_failures = 1
    initial_backoff_ms = 1
    max_backoff_ms = 1
    reset_window_ms = 1
    backoff_multiplier = 2
    MaxTime = 2
    MaxChallenges = 1
SYMMETRY Symmetry
INVARIANTS
    ChallengeSingleUse
