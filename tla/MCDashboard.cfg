CONSTANTS
    NSockets = 2
    PortOf <- TwoPorts
    Pids = {2}
    Filters <- SecondOnly
    Kinds = {"kill"}
    Overlays = {"filter"}
    PageSize = 1
    StartHosts <- SecondServed
    Changing <- Grabbed
    MaxChurn = 1
    MaxActs = 1
    Looks <- Terminals
    MaxFailures = 0
SPECIFICATION Spec
INVARIANTS
    AimIsOnScreen
PROPERTIES
    SelectionKept
CHECK_DEADLOCK FALSE
