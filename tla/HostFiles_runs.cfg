SPECIFICATION Spec
CONSTANTS
    Paths = {"site", "conf", "opt", "bin", "unit", "rpm", "img", "old", "stray"}
    ImageTars = {"img", "old", "stray"}
    DataDirs = {"img", "old", "stray"}
    Data = {"site"}
    Packages = {1, 2, 3}
    FilesOf <- Files
    OSFilesOf <- OSFiles
    ImagesOf <- Images
    Arch = "amd64"
    Role = "worker"
    MaxRuns = 2
    MaxFaults = 2
INVARIANT FilesSound
PROPERTY PruneOnlyDropped
CHECK_DEADLOCK FALSE
