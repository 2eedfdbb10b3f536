CONSTANTS
    NChapters = 2
    Words = {blank, a}
    Blank = blank
    GenModes = {"draft", "polish"}
    AutoAnalyze = TRUE
    Patient = TRUE
    Failures = TRUE
    MaxActs = 4
    MaxWire = 2
SPECIFICATION Spec
INVARIANTS TypeOK NothingLost HomeTexts ReviewedIsHead
PROPERTIES EditorShowsHead WaitsEnd
CHECK_DEADLOCK FALSE
