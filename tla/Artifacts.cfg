SPECIFICATION ArtifactsSpec
CONSTANTS
    p1 = p1
    p2 = p2
    None = None
    Procs <- TwoProcs
    Chunks = 2
    MaxTries = 2
    MaxStarts = 2
    MaxCuts = 1
    MaxPrunes = 1
    Mirrors <- TwoProcs
    Carries <- TwoPackages
    Destinations <- CommandLines
    Attempts = 2
    NoSource = None
INVARIANTS DownloadsSound SourcesSound MirrorSound
PROPERTY DownloadsEnd
CHECK_DEADLOCK FALSE
