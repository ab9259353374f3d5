CONSTANTS
    MaxId = 4
    SetupCommands = 2
    PingRetries = 2
    AutoReconnect = TRUE
    QueryTimeout = TRUE
    Pinned = TRUE
SPECIFICATION FairSpec
INVARIANTS TypeOK ReplyMatches NeverMissed NoCrazyData NoBacklog
PROPERTIES CallReturns
CHECK_DEADLOCK FALSE
