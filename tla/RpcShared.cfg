\* A reader whose connection may break and a writer, behind one lock.
CONSTANTS
    c1 = c1
    c2 = c2
    Clients = {c1, c2}
    MaybeOld = {}
    IdSpace = 2
    MaxCalls = 2
    MaxParts = 2
    SockCap = 1
    ChanCap = 1
    Ops <- ReaderAndWriter
    Cancellers = {}
    Breakable = {c1}
SPECIFICATION Spec
PROPERTY ImplementsBackend
PROPERTY CallsReturn
PROPERTY SessionEnds
\* The users may stop making calls.
CHECK_DEADLOCK FALSE
