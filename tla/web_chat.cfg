SPECIFICATION FairSpec
CONSTANTS
    a = a
    b = b
    c = c
    me = me
    peer = peer
    u = u
    None = None
    Channels = {a, b, c}
    FirstChannel = a
    Backlog <- MCBacklog
    Texts = {me}
    Peer = peer
    Typists = {u}
    PageSize = 1
    MaxRetries = 3
    MaxSends = 2
    MaxScrolls = 3
    Budgets <- MCBudgets
INVARIANTS
    TypeOK
    OfChannel
    NoHole
    UpToDate
    ListedOnce
    OneLoop
    GuardReleased
    TypingEnds
PROPERTIES
    Settles
CHECK_DEADLOCK FALSE
