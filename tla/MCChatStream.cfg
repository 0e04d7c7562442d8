\* Two requests of up to two tokens, two principals, two sessions of which one
\* is kept, a history of one turn, two message ids.  The requests run out.
SPECIFICATION Spec
CHECK_DEADLOCK FALSE
CONSTANTS
    q1 = q1
    q2 = q2
    p1 = p1
    p2 = p2
    s1 = s1
    s2 = s2
    m1 = m1
    m2 = m2
    None = None
    Requests = {q1, q2}
    Messages = {m1, m2}
    Principals = {p1, p2}
    Sessions = {s1, s2}
    MaxMessages = 2
    MaxSessions = 1
    MaxTokens = 2
    MaxCrashes = 1
SYMMETRY Symmetry
CONSTRAINT OneLeaves
INVARIANTS
    HistoryOfWholeTurns
    RecallsOwnMessages
    ToldIsRecorded
    OpenRunsWereLeft
    NoStreamHangs
