CONSTANTS
    Workers = {w1, w2}
    Texts = {empty, a}
    Answers = {a}
    GenModes = {"draft", "expand"}
    Empty = empty
    KEEP = 2
    Ops = {"create", "save", "gen", "polishTool", "canon", "promote", "advance", "revert", "delete", "crash"}
    ForeignRevert = FALSE
    MaxRequests = 4
SPECIFICATION Spec
SYMMETRY Symmetry
INVARIANTS TypeOK HeadInTree ParentsOlder MilestonesInOrder HeadlessOnlySinceBoot AutosaveWindow
PROPERTIES HistoryKept ImplementsTree
