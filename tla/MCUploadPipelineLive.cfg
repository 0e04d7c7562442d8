\* Liveness under FairSpec: two uploads contending for one slot; no symmetry.
SPECIFICATION FairSpec
CONSTANTS
    u1 = u1
    u2 = u2
    NoDir = NoDir
    Tasks = {u1, u2}
    FileCount = 1
    PoolSize = 1
    Capacity = 1
    StagingTTL = 0
    KeepLast = 1
    MaxTime = 1
    MaxCrashes = 1
PROPERTIES
    UploadsEnd
