\* A client of either version whose user drops calls; IDs wrap around while
\* replies to dropped calls are under way.
CONSTANTS
    c1 = c1
    c2 = c2
    Clients = {c1}
    MaybeOld = {c1}
    IdSpace = 2
    MaxCalls = 4
    MaxParts = 2
    SockCap = 1
    ChanCap = 1
    Ops <- OneClient
    Cancellers = {c1}
    Breakable = {}
SPECIFICATION SafeSpec
INVARIANT TypeOK
INVARIANT QuiescentBetweenCalls
INVARIANT RepliesMatchCall
PROPERTY ImplementsBackend
\* The users may stop making calls.
CHECK_DEADLOCK FALSE
