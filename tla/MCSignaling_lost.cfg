CONSTANTS
    Servers <- NoServers
    Timeout = 2
    MaxSleep = 2
    Clock = 5
    SocketLen = 2
    Requests = 2
    InboxLen = 1
    OutOfMemory = FALSE
SPECIFICATION Spec
PROPERTY LatestAnswered
