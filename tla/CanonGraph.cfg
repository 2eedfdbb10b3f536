CONSTANTS
    Workers = {w1, w2}
    Ids = {a, b}
    Events = {e}
    ally = ally
    belongs = belongs
    member = member
    Rels = {ally, belongs, member}
    Inverse <- Registry
    None = none
    Chapters = {c}
    MaxWork = 3
SPECIFICATION Spec
SYMMETRY Symmetry
INVARIANTS TypeOK PairsClosed TiersAgree OneSnapshot PromotionHolds
PROPERTIES DraftsYield
CHECK_DEADLOCK FALSE
