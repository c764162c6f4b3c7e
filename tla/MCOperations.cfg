SPECIFICATION MCSpec
CONSTANTS
    VMs = {m1, m2}
    VMRequests = {r1, r2}
    MaxVMOps = 3
    MaxVMFaults = 1
    MaxExpiries = 1
    NoVM = NoVM
    Execs = {m1, m2}
    RunIds = {0}
    Plan <- MCPlan
    Kind <- MCKind
    Background = {"p"}
    MaxResets = 1
    NoExec = NoExec
    Hosts = {"h1", "h2"}
    Dhcp = {"h2"}
    Gateways = {"h1"}
    Reachability = "sample"
    Custom <- MCCustom
    Listed <- MCListed
    Profiled <- MCProfiled
    SohChecks <- MCChecks
    MaxTries = 1
    Guests = {m1, m2}
    GuestRequests = {r1, r2}
    MaxGuestOps = 3
    MaxEvents = 1
    NoRequest = NoRequest
    Topology <- MCTopology
    WiredAs <- MCWiredAs
    SettingUsers = {r1, r2}
    SettingChanges <- MCChanges
    LANs = {"x", "y"}
    TagKeys = {"k", "l"}
    Untagged <- MCUntagged
    MaxSettings = 3
    SettingFaults = 1
    NoChange = NoChange
    TermClients = {m1, m2}
    Viewers = {r1, r2}
    Consoles = {r1, r2}
    Pids = {p1, p2}
    MaxChunks = 2
    MaxConnects = 2
    NoOne = NoOne
    x1 = x1
    x2 = x2
    Nowhere = Nowhere
    Devices <- MCDevices
    Aliases = {7}
    Scenarios = {"s", "t"}
    MeshHosts = {"h1", "h2"}
    HostSize <- MCHostSize
    Rivals = {x1, x2}
    RivalIs <- MCRivalIs
    Ranges <- MCRanges
    Roles <- MCRoles
    Pins <- MCPins
    ImageFiles = {"base", "own"}
    Askers = {q1}
    TTL = 1
    LastTick = 2
    DiskChanges = 1
    ClusterChanges = 1
CONSTRAINT Bounded
SYMMETRY Symmetric
INVARIANTS OpsTypeOK RunsOwnConfig RunsCancelable    SettingsConsistent OutputsShown 
CHECK_DEADLOCK FALSE
