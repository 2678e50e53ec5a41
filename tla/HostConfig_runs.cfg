SPECIFICATION HostSpec
CONSTANTS
    Kinds <- MCKinds
    Configs = {1, 2}
    Conf <- MCConf
    Modules = {"m1", "m2"}
    Booleans = {"b1", "b2"}
    Original <- MCOriginal
    Contexts = {"c1"}
    Names = {"n1", "n2"}
    Commands = {"apply", "dry", "prepare", "sync", "reset"}
    MaxRuns = 3
    MaxFaults = 2
INVARIANTS HostAsConfigured EngineSound FirewallAgrees
PROPERTY DryRunWritesNothing
CHECK_DEADLOCK FALSE
