SPECIFICATION Spec
CONSTANTS
    BUFFER_SIZE = 8
    BUFFER_LIMIT = 5
    PrefixLen = 2
    Table <- MCTable
    Packets <- MCPackets
    Pauses <- MCPauses
    Redirects <- MCRedirects
    Replies <- MCNothing
    OutSizes = {0}
    MaxSessions = 2
    MaxMsgs = 2
INVARIANTS
    TypeOK
    SkipOnlyWhenEmpty
    MessageIntact
    ExitOnlyOnUnknown
    OneConnection
    DisconnectedBeforeConnect
PROPERTIES
    StreamSpec
