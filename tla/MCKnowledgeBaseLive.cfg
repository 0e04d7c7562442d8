\* Liveness under FairSpec; no symmetry.
SPECIFICATION FairSpec
CONSTANTS
    t1 = t1
    t2 = t2
    s1 = s1
    c1 = c1
    owner = owner
    private = private
    None = None
    Threads = {t1, t2}
    Actors = {owner}
    Sources = {s1}
    Contents = {c1}
    Metas = {private}
    Retrievable = {private}
    PartsOf <- MCPartsOf
    CanCreate <- MCAll
    CanManage <- MCAll
    CanRead <- MCAll
    MaxRev = 1
    MaxCrashes = 1
    MaxSyncs = 1
PROPERTIES
    CallsReturn
