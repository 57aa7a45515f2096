----------------------------- MODULE Transport ------------------------------
(***************************************************************************)
(* The TCP connection of each client, as the code above it uses it: one    *)
(* FIFO byte stream per direction, each half closed when its owner drops   *)
(* it, and a failure that takes both directions at once.                   *)
(***************************************************************************)
EXTENDS Messages, Sequences

CONSTANTS
    Clients,   \* one connection per client
    Breakable, \* clients whose connection may fail
    SockCap    \* messages the kernel buffers in one direction

ASSUME TransportAssumption ==
    /\ Breakable \subseteq Clients
    /\ SockCap \in Nat \ {0}

VARIABLES
    c2s,        \* requests on their way to the server
    s2c,        \* replies on their way to the client
    clientOpen, \* the client has not dropped its write half
    serverOpen, \* the server's writer task has not dropped its write half
    lost        \* the connection is broken

transportVars == <<c2s, s2c, clientOpen, serverOpen, lost>>

TransportTypeOK ==
    /\ c2s \in [Clients -> Seq(Request)]
    /\ s2c \in [Clients -> Seq(Reply)]
    /\ clientOpen \in [Clients -> BOOLEAN]
    /\ serverOpen \in [Clients -> BOOLEAN]
    /\ lost \in [Clients -> BOOLEAN]

TransportInit ==
    /\ c2s = [c \in Clients |-> <<>>]
    /\ s2c = [c \in Clients |-> <<>>]
    /\ clientOpen = [c \in Clients |-> TRUE]
    /\ serverOpen = [c \in Clients |-> TRUE]
    /\ lost = [c \in Clients |-> FALSE]

\* The network, or the process at the other end, is gone.  Each side may
\* still read some of what was already sent to it.
LoseConnection(c) ==
    /\ c \in Breakable
    /\ ~lost[c]
    /\ lost' = [lost EXCEPT ![c] = TRUE]
    /\ \E i \in 0..Len(c2s[c]) : c2s' = [c2s EXCEPT ![c] = SubSeq(@, 1, i)]
    /\ \E i \in 0..Len(s2c[c]) : s2c' = [s2c EXCEPT ![c] = SubSeq(@, 1, i)]
    /\ UNCHANGED <<clientOpen, serverOpen>>

\* What a read returns once the stream is drained.
ServerSeesEof(c) == c2s[c] = <<>> /\ (lost[c] \/ ~clientOpen[c])
ClientSeesEof(c) == s2c[c] = <<>> /\ (lost[c] \/ ~serverOpen[c])

=============================================================================
