CONSTANTS
    N = 2
    MaxWorkers = 2
    MaxChurn = 2
    LineEvery = 2
    Interactive = TRUE
SPECIFICATION FairSpec
INVARIANTS
    OneWriterPerSlot
    SteadyPortsJudgedRight
PROPERTIES
    ProgressNeverFallsBack
    PromiseSpec
    ScanReturns
CHECK_DEADLOCK FALSE
