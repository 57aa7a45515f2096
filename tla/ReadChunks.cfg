\* Chunks of up to 3 bytes whose length field counts modulo 4, as u16::MAX
\* and 2^16 do.  Payloads of 0 to 11 bytes: up to 4 chunks, the last one full
\* or short.
CONSTANTS
    MaxLen = 11
    MAX_READ_RES_CHUNK = 3
    LenMod = 4
SPECIFICATION Spec
INVARIANT TypeOK
INVARIANT EveryByteOnce
INVARIANT NoStrayChunk
INVARIANT CallerGetsPayload
PROPERTY ReadCompletes
\* The read ends.
CHECK_DEADLOCK FALSE
