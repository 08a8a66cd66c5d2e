SPECIFICATION Spec
CONSTANTS
    Careless = {"cancel"}
    MaxInbox = 2
    MaxAsked = 2
INVARIANTS
    NotLoggedIn
CHECK_DEADLOCK FALSE
