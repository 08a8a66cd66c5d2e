SPECIFICATION MCSlowSpec
CONSTANTS
    Files = {"xml", "txt", "music", "data"}
    Requests <- MCRequests
    MaxAttempts = 1
    MaxUrls = 1
    Data <- MCData
    Music <- MCMusic
PROPERTIES
    CancelReturnsImmediately
