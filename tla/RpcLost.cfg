\* A connection that breaks while a call waits for its reply.
CONSTANTS
    c1 = c1
    c2 = c2
    Clients = {c1}
    MaybeOld = {}
    IdSpace = 2
    MaxCalls = 2
    MaxParts = 1
    SockCap = 1
    ChanCap = 1
    Ops <- OneClient
    Cancellers = {}
    Breakable = {c1}
SPECIFICATION Spec
PROPERTY LostConnectionReported
\* The users may stop making calls.
CHECK_DEADLOCK FALSE
