SPECIFICATION Spec
CONSTANTS
    BUFFER_SIZE = 7
    BUFFER_LIMIT = 3
    PrefixLen = 1
    Table <- MCTable
    Packets <- MCFixed
    Pauses <- MCNothing
    Redirects <- MCRedirects
    Replies <- MCReplyLoaded
    OutSizes = {1, 2}
    MaxSessions = 2
    MaxMsgs = 1
INVARIANTS
    OutBufferFits
    SentWhereWritten
    DeletedAfterConnecting
