SPECIFICATION Spec
CONSTANTS
    Maps <- MCMaps
    MaxUInt = 7
INVARIANTS
    TypeOK
    ListsFresh
    PathLeads
    NearlyShortest
    NothingMissed
PROPERTIES
    CallReturns
CHECK_DEADLOCK FALSE
