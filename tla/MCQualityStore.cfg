\* Three runs, two message ids, two principals, one verdict per hour of one
\* tick, a retention of two ticks.
SPECIFICATION Spec
CONSTANTS
    r1 = r1
    r2 = r2
    r3 = r3
    m1 = m1
    m2 = m2
    p1 = p1
    p2 = p2
    None = None
    Runs = {r1, r2, r3}
    Messages = {m1, m2}
    Principals = {p1, p2}
    Limit = 1
    Window = 1
    Retention = 2
    MaxTime = 4
SYMMETRY Symmetry
INVARIANTS
    FeedbackBacked
    RateLimited
PROPERTIES
    VerdictsStand
