\* Safety and refinement: two threads, two sources, two versions of it.
SPECIFICATION Spec
CONSTANTS
    t1 = t1
    t2 = t2
    s1 = s1
    s2 = s2
    c1 = c1
    c2 = c2
    ann = ann
    bob = bob
    law = law
    hr = hr
    People = {ann, bob}
    Departments = {law, hr}
    General = hr
    None = None
    Threads = {t1, t2}
    Actors <- MCActors
    Sources = {s1, s2}
    Contents = {c1, c2}
    Metas <- MCMetas
    Retrievable <- MCRetrievable
    PartsOf <- MCPartsOf
    CanCreate <- MCCanCreate
    CanManage <- MCCanManage
    CanRead <- MCCanRead
    MaxRev = 2
    MaxCrashes = 1
    MaxSyncs = 1
SYMMETRY Symmetry
CONSTRAINT OneEvent
ACTION_CONSTRAINTS Prompt SyncTells
INVARIANTS
    GateExclusion
    VisibleIsComplete
    QueriesSeeFreshIndex
PROPERTIES
    ChangesAuthorized
    OnlyReadable
    RefinesCorpus
