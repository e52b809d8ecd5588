SPECIFICATION FairSpec
CONSTANTS
    Requests = {r1}
    Sockets = {1, 2, 3}
    Notes = {n1}
    None = None
    MaxSessions = 2
    MaxExpiries = 1
    MaxFaults = 1
INVARIANTS
    TypeOK
    BackOnlyByRefresh
    OneSocket
    SocketsOfSession
    BadgeOfUnmarkedPushes
    ListedOnce
    ConnectedIsOpen
PROPERTIES
    Reconnects
CHECK_DEADLOCK FALSE
