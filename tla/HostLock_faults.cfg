SPECIFICATION Spec
CONSTANTS
    i1 = i1
    i2 = i2
    h1 = h1
    h2 = h2
    Instances = {i1, i2}
    Hosts = {h1}
    Absent = Absent
    Empty = Empty
    Other = Other
    MaxAttempts = 3
    RetryEvery = 3
    TouchEvery = 2
    StaleAfter = 6
    IOFails = TRUE
    Crashes = TRUE
    Interrupts = TRUE
    SlowCommands = TRUE
SYMMETRY Symmetry
INVARIANT ExclusiveUnlessForfeited
PROPERTY ImplementsLease
