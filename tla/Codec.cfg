\* Three messages: one before an overlong name, the overlong one, one after it.
CONSTANTS
    ByteValues = 5
    Names <- SomeNames
    MaxMessages = 3
SPECIFICATION Spec
INVARIANT TypeOK
INVARIANT DecodedIsSent
INVARIANT FailsOnlyForCause
INVARIANT DirEntriesRoundTrip
PROPERTY AllDecoded
\* After the end of the stream nothing happens.
CHECK_DEADLOCK FALSE
