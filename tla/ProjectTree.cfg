SPECIFICATION Spec
CONSTANTS
    p = p
    q = q
    s = s
    t = t
    c = c
    d = d
    Projects = {p, q}
    Seasons = {s, t}
    Chapters = {c, d}
    None = None
    Patient = TRUE
    MaxActs = 7
    MaxNews = 1
    MaxBeside = 3
SYMMETRY Symmetry
CHECK_DEADLOCK FALSE
INVARIANTS
    TypeOK
    NoOrphans
    AgreeUnlessPassed
    ShowsTables
    ActiveIsLive
PROPERTIES
    LiveStaysOpen
