\* A file of three bytes and a buffer of two: a write takes up to two pieces.
\* Three calls: one leaves a piece behind, one is overtaken, one comes after.
\* Sizes that cut the file short, or lengthen or cut it.
\* Times before the epoch, at a half second and later than the disk's clock.
CONSTANTS
    MaxBuf = 2
    MaxLen = 3
    MaxCalls = 3
    Sizes = {0, 2}
    Times <- SomeTimes
SPECIFICATION Spec
PROPERTY SuccessMeansWritten
\* Once MaxCalls calls are made the model stops.
CHECK_DEADLOCK FALSE
