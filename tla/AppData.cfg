\* The app's own data over launches, kills and a handful of commands.
CONSTANTS
    a = a  b = b
    None = None
    Torn = Torn
    Names <- SomeNames
    EmptyTables <- NoTables
    LegacyTables <- SavedBefore
    ForeignFiles <- Received
    FirstFreshId = 3
    MaxIds = 5
    MaxCommands = 4
    MaxStops = 2
SPECIFICATION Spec

    
    
PROPERTIES
    OwnDataSurvives
    
CHECK_DEADLOCK FALSE
