CONSTANTS
    NHosts = 3
    Controllers <- FirstTwo
    Profiles = {"general"}
    ProfileOf <- OneProfile
    ProfileConcurrency <- NoOverride
    WorkerConcurrent <- One
    Concurrency = 0
    Target = 2
    Installed = {1, 2}
    InitialDrift = {"none", "soft", "hard"}
    QuietInstall = FALSE
    Commands = {"apply", "sync"}
    MaxRuns = 2
SPECIFICATION Spec
CHECK_DEADLOCK FALSE
INVARIANTS RunStopsOneController 
