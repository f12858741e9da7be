CONSTANTS
    Procs = {1, 2}
    Readable = {1}
    Ports = {80}
    Inspectors = {"i"}
    Listers = {"l"}
    MaxSockets = 2
    MaxChurn = 2
    MaxFailures = 1
SPECIFICATION FairSpec
INVARIANTS
    SteadyPortAnswered
    BlameIsTrue
PROPERTIES
    InspectionReturns
    ListingsCatchUp
CHECK_DEADLOCK FALSE
