CONSTANTS
    NChapters = 2
    Words = {blank, a}
    Blank = blank
    GenModes = {"draft", "polish"}
    AutoAnalyze = FALSE
    Patient = FALSE
    Failures = FALSE
    MaxActs = 4
    MaxWire = 2
SPECIFICATION Spec
INVARIANT HomeTexts
CHECK_DEADLOCK FALSE
