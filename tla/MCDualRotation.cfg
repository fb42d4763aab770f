SPECIFICATION Spec
CONSTANTS
    None = None
    MAX_SKIP = 2
    MaxMessages = 4
    MaxKeys = 5
    MaxDeliveries = 5
    MaxChunks = 1
INVARIANTS
    RotationKeepsChannel
CHECK_DEADLOCK FALSE
