CONSTANTS
    Pids = {1, 2, 3, 4}
    Self = 4
    Owners = {0, 1, 2, 3}
    Foreign = {3}
    Trees <- Trees3
    Ops = {"kill", "force", "restart"}
    Consents = {"yes", "no", "error", "bypass"}
    MaxTreeDepth = 64
    MaxForks = 1
    MaxExits = 2
SPECIFICATION FairSpec
INVARIANTS
    ProtectedNeverSignaled
    SuccessMeansGone
    OwnerGoneFirst
    WholeTreeTried
    LeavesFirst
PROPERTIES
    ActionReturns
CHECK_DEADLOCK FALSE
