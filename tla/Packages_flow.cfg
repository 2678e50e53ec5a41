SPECIFICATION WholeSpec
CONSTANTS
    p = p
    q = q
    amd64 = amd64
    arm64 = arm64
    k1 = k1
    k2 = k2
    Unset = Unset
    Processes <- TwoProcs
    Arches <- TwoArches
    Keys <- TwoKeys
    PartSeq <- Five
    Group <- Groups
    Served <- Answers
    Mirrored <- Others
    Shasum <- Sums
    MaxOps = 4
    MaxFaults = 1
INVARIANTS PackagesSound CreationSound
SYMMETRY Symmetric
CHECK_DEADLOCK FALSE
