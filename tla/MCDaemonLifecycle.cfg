SPECIFICATION Spec
CONSTANTS
    Callers = {c1, c2}
    Main = Main
    None = None
    MaxCalls = 2
    MaxSignals = 1
INVARIANTS TypeOK LoopFrameSafe NoWorkAfterShutdown JoinedIsLeaving
PROPERTY LockIsReleased
CHECK_DEADLOCK FALSE
