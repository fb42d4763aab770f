SPECIFICATION Spec
CONSTANTS
    None = None
    MAX_SKIP = 2
    MaxMessages = 4
    MaxKeys = 5
    MaxDeliveries = 5
    MaxChunks = 1
INVARIANTS
    TypeOK
    AcceptedOnce
    FirstDeliveryAccepted
    KeysUsedOnce
    RootsInStep
CHECK_DEADLOCK FALSE
