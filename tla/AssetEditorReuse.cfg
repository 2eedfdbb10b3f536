CONSTANTS
    Clients = {c1, c2}
    Tokens = {t1}
    Ids = {e1}
    Fields = {name, note, tags}
    Keys = {note}
    Tracked = {name, note}
    Announced = {name, note}
    Required = {name}
    Values = {none, x}
    Missing = none
    Forms <- MCForms
    ReuseIds = TRUE
    MaxLog = 3
SPECIFICATION Spec
SYMMETRY Symmetry
PROPERTIES NoBlindOverwrite
