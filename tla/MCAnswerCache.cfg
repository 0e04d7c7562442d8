\* Safety of the answer cache: two streams, two questions, three generations.
SPECIFICATION Spec
CONSTANTS
    a = a
    b = b
    q1 = q1
    q2 = q2
    v1 = v1
    v2 = v2
    doc = doc
    NoContent = NoContent
    None = None
    Streams = {a, b}
    Queries = {q1, q2}
    Sources = {doc}
    Contents = {v1, v2}
    MaxCacheSize = 1
    MaxGen = 2
    MaxRestarts = 1
SYMMETRY Symmetry
INVARIANTS
    LateWritesUndone
PROPERTIES
    NoStaleAnswer
