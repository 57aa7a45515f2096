------------------------------- MODULE MCRpc --------------------------------
(***************************************************************************)
(* Small instances of Rpc: which requests each client's user makes.        *)
(***************************************************************************)
EXTENDS Rpc

CONSTANTS c1, c2

\* One client that reads (several chunks) and writes (one message).
OneClient == [c \in {c1} |-> {"ReadReq", "WriteReq"}]

\* Two clients behind one file system lock: a reader and a writer.
ReaderAndWriter ==
    [c \in {c1, c2} |-> IF c = c1 THEN {"ReadReq"} ELSE {"WriteReq"}]

=============================================================================
