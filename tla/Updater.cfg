SPECIFICATION MCSpec
CONSTANTS
    Files = {"xml", "txt", "music", "data"}
    Requests <- MCRequests
    MaxAttempts = 2
    MaxUrls = 1
    Data <- MCData
    Music <- MCMusic
INVARIANTS
    UpdaterTypeOK
    QuietWhenComplete
    ResourcesVerified
PROPERTIES
    UpdateEnds
    LeavingEnds
