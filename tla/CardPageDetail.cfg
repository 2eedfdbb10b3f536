SPECIFICATION Spec
CONSTANTS
    a = a
    b = b
    Ids = {a, b}
    None = None
    Patient = TRUE
    Fallible <- DetailFails
    MaxActs = 5
    MaxNews = 0
CHECK_DEADLOCK FALSE
INVARIANT IdImmutable
