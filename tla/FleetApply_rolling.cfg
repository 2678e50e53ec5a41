CONSTANTS
    NHosts = 4
    Controllers <- FirstOne
    Profiles = {"infra", "general"}
    ProfileOf <- TwoProfiles
    ProfileConcurrency <- GeneralShare
    WorkerConcurrent <- One
    Concurrency = 0
    Target = 2
    Installed = {1}
    InitialDrift = {"none"}
    QuietInstall = TRUE
    Commands = {"apply"}
    MaxRuns = 1
SPECIFICATION Spec
CHECK_DEADLOCK FALSE
INVARIANT ProfileShareHeld
PROPERTY RunsEnd
