SPECIFICATION SharingSpec
CONSTANTS
    Inspections = {c1, c2}
    Procs = {"proxy", "server"}
    None = None
    Dirs = {"app", "home"}
    Parent <- MCParent
    Files = {"package.json", ".git"}
    Objs = {o1, o2, o3}
    Cwd <- MCCwd
    OwnRuntime <- MCOwnRuntime
    OwnFramework <- MCOwnFramework
    Dependencies = {"react", "express"}
    MemoTTL = 1
    MemoMax = 2
    ScanTime = 1
    MaxChanges = 1
    Containers = {blue, green}
    blue = blue
    green = green
    Cgroup <- MCCgroup
    Published <- MCPublished
    Beside <- MCBeside
    ListTTL = 1
    FetchTimeout = 1
    MaxChurn = 2
    MaxTreeDepth = 4
    Ids = {1, 2, 3, 4}
    PidOf <- MCPidOf
    Snapshots <- MCSnapshots
    Searched <- MCSearched
    Bindings <- MCBindings
    Hosts <- MCHosts
SYMMETRY Alike
INVARIANTS
    SearchFindsTheTree
    ExposureNeverUnderstates
PROPERTIES
    ProjectIsRecent
    HintsStayInDirectory
    ContainerWasUp
    OwnContainerFirst
