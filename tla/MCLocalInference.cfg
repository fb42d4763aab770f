SPECIFICATION Spec
CONSTANTS
    Callers = {c1, c2}
    Jobs = {j1}
    Models = {m1, m2}
    None = None
    MaxCalls = 3
INVARIANTS TypeOK NativeSafe OneModel RecordedModel InferringMeansWork HolderGoesOn
PROPERTY CallsEnd
