\* Safety: two uploads of two files, one worker, one restart.  One tick of the
\* clock is longer than the TTL of staging directories.
SPECIFICATION Spec
CONSTANTS
    u1 = u1
    u2 = u2
    NoDir = NoDir
    Tasks = {u1, u2}
    FileCount = 2
    PoolSize = 1
    Capacity = 2
    StagingTTL = 0
    KeepLast = 1
    MaxTime = 1
    MaxCrashes = 1
SYMMETRY Symmetry
VIEW View
INVARIANTS
    LiveDirsKept
    NothingLeaks
    NoDestructionDuringUpload
    
PROPERTIES
    RefinesTaskTable
