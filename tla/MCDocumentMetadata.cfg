\* Two documents, two governance files and the candidate, two access metadata.
SPECIFICATION Spec
CONSTANTS
    s1 = s1
    s2 = s2
    family = family
    open = open
    closed = closed
    admin = admin
    member = member
    hr = hr
    legal = legal
    None = None
    Sources = {s1, s2}
    Families = {family}
    Acls = {open, closed}
    Readers = {admin, member}
    Admins = {admin}
    Granted <- MCGranted
    AclConfig <- MCAclConfig
    Configs <- MCConfigs
    Approvers = {hr, legal}
    Proposals <- MCProposals
    LegacyStores <- MCLegacyStores
    MaxRev = 2
SYMMETRY Symmetry
INVARIANTS
    QuietSyncAgrees
    CandidateDecided
PROPERTIES
    VisibilityMovesGeneration
    NoResurrection
