CONSTANTS
    Pids = {1, 2, 3, 4}
    Self = 4
    Owners = {2, 3}
    Foreign = {3}
    Trees <- Trees3
    Ops = {"kill", "force"}
    Consents = {"yes", "bypass"}
    MaxTreeDepth = 64
    MaxForks = 0
    MaxExits = 0
SPECIFICATION Spec
INVARIANTS
    ForeignIsDenied
CHECK_DEADLOCK FALSE
