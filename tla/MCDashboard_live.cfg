CONSTANTS
    NSockets = 2
    PortOf <- TwoPorts
    Pids = {2}
    Filters <- Unfiltered
    Kinds = {}
    Overlays = {}
    PageSize = 1
    StartHosts <- BothServed
    Changing <- Grabbed
    MaxChurn = 1
    MaxActs = 0
    Looks = {}
    MaxFailures = 1
SPECIFICATION FairSpec
CONSTRAINT InSession
PROPERTIES
    ListCatchesUp
    ReportCatchesUp
CHECK_DEADLOCK FALSE
