SPECIFICATION Spec
CONSTANTS
    a = a
    b = b
    Ids = {a, b}
    None = None
    Patient = TRUE
    Fallible <- SomeFail
    MaxActs = 5
    MaxNews = 1
SYMMETRY Symmetry
CHECK_DEADLOCK FALSE
INVARIANTS
    TypeOK
    HomeCards
    TiesHome
    NothingUnseen
    OnePanel
