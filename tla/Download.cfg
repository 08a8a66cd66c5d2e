SPECIFICATION Spec
CONSTANTS
    Files = {"list", "data"}
    Requests <- MCRequests
    MaxAttempts = 3
    MaxUrls = 2
INVARIANTS
    DownloadTypeOK
    StoredWhenComplete
PROPERTIES
    WholeFileStored
