-------------------------------- MODULE Rpc ---------------------------------
(***************************************************************************)
(* Clients and server over their connections: every FsBackend call that a  *)
(* ClientHandler makes, from the call to its return, with the server's     *)
(* tasks, the shared file system lock, the reply channels, cancelled calls *)
(* and lost connections in between.                                        *)
(***************************************************************************)
EXTENDS ClientHandler, Server

vars == <<transportVars, clientVars, serverVars>>

Init == TransportInit /\ ClientInit /\ ServerInit

\* What the users and the network do, whenever they like.
User(c) ==
    /\ \/ \E type \in {"InitReq"} \cup Ops[c] : StartCall(c, type)
       \/ CancelCall(c)
       \/ CloseSession(c)
    /\ UNCHANGED serverVars

Network(c) == LoseConnection(c) /\ UNCHANGED <<clientVars, serverVars>>

\* The call in progress.
CallStep(c) ==
    /\ \/ Flush(c)
       \/ FlushLost(c)
       \/ FlushErr(c)
       \/ ConsumeInit(c)
       \/ ConsumeError(c)
       \/ ConsumeReply(c)
       \/ ConsumeChunk(c)
       \/ ConsumeOther(c)
    /\ UNCHANGED serverVars

\* The receive loop.
LoopStep(c) ==
    /\ \/ Deliver(c)
       \/ DropStale(c)
       \/ DropUnknown(c)
       \/ ReceiveEof(c)
    /\ UNCHANGED serverVars

\* The server's reader, a request's task, and the writer.
ReaderStep(c) == (ReadRequest(c) \/ ReadEof(c)) /\ UNCHANGED clientVars

TaskStep(c, n) ==
    /\ \/ HandleInit(c, n)
       \/ LockFs(c, n)
       \/ Execute(c, n)
       \/ SendReply(c, n)
       \/ EndTask(c, n)
    /\ UNCHANGED clientVars

WriterStep(c) ==
    /\ WriterSend(c) \/ WriterSendErr(c) \/ WriterExit(c)
    /\ UNCHANGED clientVars

Next ==
    \E c \in Clients :
      \/ User(c)
      \/ Network(c)
      \/ CallStep(c)
      \/ LoopStep(c)
      \/ ReaderStep(c)
      \/ \E n \in Calls : TaskStep(c, n)
      \/ WriterStep(c)

\* tokio polls every task that can make progress.  Nothing is assumed of the
\* users and of the network.
Fairness ==
    \A c \in Clients :
      /\ WF_vars(CallStep(c))
      /\ WF_vars(LoopStep(c))
      /\ WF_vars(ReaderStep(c))
      /\ \A n \in Calls : WF_vars(TaskStep(c, n))
      /\ WF_vars(WriterStep(c))

SafeSpec == Init /\ [][Next]_vars
Spec == SafeSpec /\ Fairness

-----------------------------------------------------------------------------
TypeOK == TransportTypeOK /\ ClientTypeOK /\ ServerTypeOK

\* The FsBackend that the user of a ClientHandler sees.
B == INSTANCE Backend WITH answer <- executed, broken <- lost

\* Replies are routed by request ID alone (handler.rs:34).  A message waiting
\* in the inbox of the call in progress is a reply to that call, or to an
\* earlier call with the same ID in a sequence of reuses that began with a
\* cancelled call.
RepliesMatchCall ==
    \A c \in Clients : \A i \in 1..Len(inbox[c]) :
      inbox[c][i].call \in B!Answerers(c, pending[c])

\* Nothing of an earlier call is left anywhere between client and server when
\* a user who has not cancelled any may make the next one: the count at which
\* combine_read_chunks (handler.rs:104) stops leaves no chunk behind, and the
\* server answers each request once.  Only the task may still be ending.
QuiescentBetweenCalls ==
    \A c \in Clients :
      /\ pending[c] = NoCall /\ session[c] = "ready" /\ ~lost[c]
      /\ \A n \in Calls : outcome[c][n] # "cancelled"
      =>
        /\ c2s[c] = <<>> /\ s2c[c] = <<>> /\ chan[c] = <<>> /\ outbuf[c] = <<>>
        /\ \A n \in Calls : task[c][n].pc \in {"spawned", "queued", "sending"} =>
             task[c][n].out = {} /\ executed[c][n] # "no"

\* A call takes effect at most once, between its issue and its return, and
\* returns what the server's file system answered to that very call.  The one
\* exception: a request ID reused after a cancelled call.
ImplementsBackend == B!Spec

\* Every call returns unless its connection breaks: no reply is lost, every
\* chunk arrives, the file system lock is always passed on and the bounded
\* reply channel always drains.
CallsReturn ==
    \A c \in Clients, n \in Calls :
      (pending[c] = n) ~> (pending[c] # n \/ lost[c])

\* When a connection ends, the server gets rid of it: the writer task exits
\* and the connection's requests do not hold the file system lock or wait
\* for it.
SessionEnds ==
    \A c \in Clients :
      (lost[c] \/ ~clientOpen[c]) ~>
        (~serverOpen[c] /\ \A i \in 1..Len(lockq) : lockq[i][1] # c)

-----------------------------------------------------------------------------
(* Statements of the repository that the code does not live up to.         *)

\* handler.rs:216, of the receiver of the call in progress: "The receive loop
\* closed the channel before any reply arrived."  A call whose receive loop
\* has ended would then return with an error.
LostConnectionReported ==
    \A c \in Clients :
      (pending[c] # NoCall /\ ~looping[c]) ~> (pending[c] = NoCall)

\* README.md:8: "the server may answer out of order, so a large read never
\* blocks a short operation behind it".  A read that has its data and only
\* waits for room in its own reply channel would then not keep an operation
\* that needs a single message waiting for the file system.
ReadNeverBlocksShortOp ==
    \A c, d \in Clients, n, k \in Calls :
      ~ /\ Holds(c, n)
        /\ task[c][n].type \in ChunkedOps
        /\ task[c][n].pc = "sending" /\ task[c][n].out # {}
        /\ Len(chan[c]) > ChanCap
        /\ d # c
        /\ task[d][k].pc = "queued"
        /\ task[d][k].type \notin ChunkedOps

=============================================================================
