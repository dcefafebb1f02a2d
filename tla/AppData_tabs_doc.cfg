\* The documentation of reorder. Three tabs that are closed, moved and added to while their commands overlap.
CONSTANTS
    a = a  b = b
    None = None
    Torn = Torn
    Names <- SomeNames
    EmptyTables <- NoTables
    LegacyTables <- ThreeTabs
    ForeignFiles <- NoFiles
    FirstFreshId = 4
    MaxIds = 5
    MaxCommands = 5
    MaxStops = 0
SPECIFICATION Spec
INVARIANTS
    OrderIsPersisted
CHECK_DEADLOCK FALSE
