CONSTANTS
    Targets = {"tcp 80", "tcp 443"}
    Owners = {"7:web", "owner-unknown"}
    Modes = {"ports", "list"}
    MaxChurn = 2
    MaxFailures = 1
SPECIFICATION FairSpec
INVARIANTS
    StreamAddsUp
    NoFalseAlarm
PROPERTIES
    InterruptIsSilent
    ListenerCatchesUp
CHECK_DEADLOCK FALSE
