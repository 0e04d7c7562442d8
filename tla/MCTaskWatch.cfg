\* Two tasks, two watches at once, a poll gives up at its second failure.
SPECIFICATION FairTabSpec
CONSTANTS
    t1 = t1
    t2 = t2
    ann = ann
    bob = bob
    Nobody = Nobody
    Tasks = {t1, t2}
    Principals = {ann, bob}
    Verdicts = {"done"}
    Admins = {}
    KeepLast = 0
    FailureLimit = 1
    MaxWatches = 2
INVARIANTS
    NotLost
    Watched
PROPERTIES
    WatchesEnd
