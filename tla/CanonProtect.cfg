CONSTANTS
    Workers = {w1}
    Ids = {a, b}
    Events = {e}
    ally = ally
    belongs = belongs
    member = member
    Rels = {ally, belongs, member}
    Inverse <- Registry
    None = none
    Chapters = {c}
    MaxWork = 3
SPECIFICATION Spec
PROPERTIES ConfirmedTiesKept
CHECK_DEADLOCK FALSE
