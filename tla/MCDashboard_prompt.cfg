CONSTANTS
    NSockets = 2
    PortOf <- TwoPorts
    Pids = {2, 3}
    Filters <- Unfiltered
    Kinds = {"kill"}
    Overlays = {"filter", "help"}
    PageSize = 1
    StartHosts <- Apart
    Changing = {}
    MaxChurn = 0
    MaxActs = 1
    Looks = {}
    MaxFailures = 0
SPECIFICATION Spec
INVARIANTS
    ActsOnPrompted
CHECK_DEADLOCK FALSE
