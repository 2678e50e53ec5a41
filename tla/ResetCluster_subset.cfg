SPECIFICATION Spec
CONSTANTS
    NHosts = 4
    Controllers = {2, 3, 4}
    Hostname <- Named
    TargetLists <- Lists
    MaxRuns = 2
    MaxDeaths = 1
INVARIANTS
    QuorumKept
    
PROPERTY ResetEnds
CHECK_DEADLOCK FALSE
