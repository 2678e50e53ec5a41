SPECIFICATION ClusterSpec
CONSTANTS
    Hosts <- MCHosts
    Controllers <- MCControllers
    Lists <- MCLists
    Kinds = {"rancher", "upstream"}
    MaxRuns = 3
    MaxDeletes = 1
    MaxFaults = 2
    ka = ka
    kb = kb
    NoneThere = NoneThere
    Runs <- MCRuns
    Worlds <- TwoClusters
    Lower <- Lowered
    MaxRotations = 1
    MaxSessions = 3
    MaxStops = 1
    Inventories <- AllInventories
    Profiles <- EdgeProfile
    Modules = {"ubuntu", "debian"}
    Arches = {"amd64", "arm64", "riscv64"}
    Carried = {"amd64"}
    Sanitized <- MCSanitized
    V6 = {"fd00::1"}
    MaxSkew = 30
    MaxDials = 2
INVARIANTS   NobodyLeftBehind HostsApart 
CHECK_DEADLOCK FALSE
