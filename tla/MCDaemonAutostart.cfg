SPECIFICATION Spec
CONSTANTS
    Callers = {c1}
    Main = Main
    None = None
    MaxCalls = 2
    MaxSignals = 0
INVARIANT StartFindsNoThread
CHECK_DEADLOCK FALSE
