CONSTANTS
    Callers = {c1, c2}
    Runners = {g1, g2}
    MaxCalls = 5
    Encodings <- EveryKind
    ReadSize = 4
    MaxBytes = 6
SPECIFICATION TuiSpec
PROPERTIES
    RunsSpec
    MarkedRunIsServed
    OnlyCutKeysAreMisread
CHECK_DEADLOCK FALSE
