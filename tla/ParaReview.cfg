SPECIFICATION Spec
CONSTANTS
    x = x
    y = y
    Lines = {x, y}
    MaxLines = 3
SYMMETRY Symmetry
CHECK_DEADLOCK FALSE
INVARIANTS
    TypeOK
    AllOrNothing
    ShownIsMerged
