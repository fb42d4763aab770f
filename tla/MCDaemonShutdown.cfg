SPECIFICATION Spec
CONSTANTS
    Callers = {c1}
    Main = Main
    None = None
    MaxCalls = 3
    MaxSignals = 1
PROPERTY ShutdownEnds
CHECK_DEADLOCK FALSE
