\* Names that differ in case only share a key of the login limit; more keys and
\* places than the dictionaries keep.  The clock stops at MaxTime.
SPECIFICATION Spec
CHECK_DEADLOCK FALSE
CONSTANTS
    alice = alice
    Alice = Alice
    h1 = h1
    h2 = h2
    j1 = j1
    j2 = j2
    p1 = p1
    p2 = p2
    NoToken = NoToken
    Names = {alice, Alice}
    Fold <- FoldedNames
    Founders = {alice}
    Hosts = {h1, h2}
    Jtis = {j1, j2}
    Places = {p1, p2}
    TTL = 1
    Limit = 2
    LoginWindow = 2
    AuditWindow = 2
    MaxLoginKeys = 1
    MaxAuditKeys = 1
    MaxTime = 4
    MaxRestarts = 1
    MaxCalls = 5
SYMMETRY Symmetry
INVARIANTS
    RevokedStaysOut
    LimitCountsFailures
PROPERTIES
    RejectionsAudited
