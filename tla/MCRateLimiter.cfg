SPECIFICATION PolicySpec
CONSTANTS
    Uids = {u1, u2}
    None = None
    max_failures = 2
    initial_backoff_ms = 1
    max_backoff_ms = 3
    reset_window_ms = 3
    backoff_multiplier = 2
    MaxTime = 7
    MaxFailedCount = 3
SYMMETRY UidSymmetry
INVARIANTS
    PolicyTypeOK
    EntriesMatchHistory
    NeverMoreLenient
    DenialEnds
