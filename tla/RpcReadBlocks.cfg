\* A read of three chunks, two more than its reply channel holds, and a write
\* of another client.
CONSTANTS
    c1 = c1
    c2 = c2
    Clients = {c1, c2}
    MaybeOld = {}
    IdSpace = 2
    MaxCalls = 2
    MaxParts = 3
    SockCap = 1
    ChanCap = 1
    Ops <- ReaderAndWriter
    Cancellers = {}
    Breakable = {}
SPECIFICATION SafeSpec
INVARIANT ReadNeverBlocksShortOp
\* The users may stop making calls.
CHECK_DEADLOCK FALSE
