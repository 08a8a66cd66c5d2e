SPECIFICATION Spec
CONSTANTS
    Careless = {}
    MaxInbox = 2
    MaxAsked = 2
INVARIANTS
    TypeOK
    RightServer
    GameReady
    CharactersShown
    WaitsForAnswer
PROPERTIES
    SessionSpec
    ErrorShown
CHECK_DEADLOCK FALSE
