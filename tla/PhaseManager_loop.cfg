SPECIFICATION WholeSpec
CONSTANTS
    NPhases = 3
    Kinds <- AllKinds
    p1 = p1
    p2 = p2
    h1 = h1
    h2 = h2
    Unset = Unset
    Bad = Bad
    Blank = Blank
    Private = Private
    Named = Named
    NoPath = NoPath
    Literal = Literal
    Shared = Shared
    Writers <- TwoWriters
    Fleet <- TwoHosts
    Ledgers <- TwoLedgers
    Lines <- OneLine
    CommandNames = {"apply"}
    Settings = {"none", "literal", "template"}
    MaxPort = 65535
    MaxClock = 1
    MaxReceipts = 2
CHECK_DEADLOCK FALSE
SYMMETRY Symmetric
INVARIANTS DryRunLeavesHostsAlone EveryPhaseAccounted CleanUpCoversExecuted ReportsHonest StatusFileCurrent RunsAsAsked ReceiptsSound
