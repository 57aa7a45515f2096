------------------------------- MODULE Server -------------------------------
(***************************************************************************)
(* The server (server/mod.rs, server/handlers.rs).  handle_client runs, for *)
(* each connection, a reader that spawns one task per request and a writer *)
(* task fed by a bounded channel.  handle_msg is the body of a request's   *)
(* task.  All connections share one file system behind a tokio Mutex,      *)
(* whose waiters are served in order; a task keeps the guard until it has  *)
(* put its last reply into the channel.                                    *)
(***************************************************************************)
EXTENDS Transport, FiniteSets

CONSTANTS
    ChanCap,   \* capacity of the reply channel: 32 in the code
    MaybeOld   \* clients that may be of another protocol version

ASSUME ServerAssumption ==
    /\ ChanCap \in Nat \ {0}
    /\ MaybeOld \subseteq Clients

VARIABLES
    reading,  \* the loop of handle_client is running
    task,     \* the task of each request, by the call it belongs to
    lockq,    \* holder (first) and waiters of the Mutex around the FsBackend
    chan,     \* the reply channel, with the message the writer is sending
    executed  \* history: what the file system answered to each call

serverVars == <<reading, task, lockq, chan, executed>>

Task == [pc : {"none", "spawned", "queued", "sending", "done"},
         type : RequestTypes, request_id : Ids, out : SUBSET Reply]

ServerTypeOK ==
    /\ reading \in [Clients -> BOOLEAN]
    /\ task \in [Clients -> [Calls -> Task]]
    /\ lockq \in Seq(Clients \X Calls)
    /\ chan \in [Clients -> Seq(Reply)]
    /\ executed \in [Clients -> [Calls -> {"no", "ok", "err"}]]

NoTask == [pc |-> "none", type |-> "InitReq", request_id |-> 0, out |-> {}]

ServerInit ==
    /\ reading = [c \in Clients |-> TRUE]
    /\ task = [c \in Clients |-> [n \in Calls |-> NoTask]]
    /\ lockq = <<>>
    /\ chan = [c \in Clients |-> <<>>]
    /\ executed = [c \in Clients |-> [n \in Calls |-> "no"]]

-----------------------------------------------------------------------------
(* handle_client: the reader.                                              *)

\* A request arrives and gets a task of its own.
ReadRequest(c) ==
    /\ reading[c]
    /\ c2s[c] # <<>>
    /\ LET m == Head(c2s[c]) IN
         task' = [task EXCEPT ![c][m.call] =
           [pc |-> "spawned", type |-> m.type, request_id |-> m.request_id,
            out |-> {}]]
    /\ c2s' = [c2s EXCEPT ![c] = Tail(@)]
    /\ UNCHANGED <<reading, lockq, chan, executed,
                   s2c, clientOpen, serverOpen, lost>>

\* The stream ends; handle_client returns and drops its sender.
ReadEof(c) ==
    /\ reading[c]
    /\ ServerSeesEof(c)
    /\ reading' = [reading EXCEPT ![c] = FALSE]
    /\ UNCHANGED <<task, lockq, chan, executed, transportVars>>

-----------------------------------------------------------------------------
(* handle_msg: a request's task.                                           *)

\* The task of a request moves on; `out' are the replies it has yet to send.
Advance(c, n, pc, out) ==
    task' = [task EXCEPT ![c][n] =
      [pc |-> pc, type |-> @.type, request_id |-> @.request_id, out |-> out]]

\* A reply to call n of client c; chunk `part' of `total' if it is a READ_RES.
ReplyMsg(c, n, type, total, part, accepted) ==
    [type |-> type, request_id |-> task[c][n].request_id, call |-> n,
     total |-> total, part |-> part, accepted |-> accepted]

ErrorReply(c, n) == ReplyMsg(c, n, "Error", 0, 0, FALSE)

\* assemble_read_res_chunks: an empty payload is one empty chunk.
ReadReplies(c, n, total) ==
    IF total = 0
    THEN {ReplyMsg(c, n, "ReadRes", 0, 0, FALSE)}
    ELSE {ReplyMsg(c, n, "ReadRes", total, part, FALSE) : part \in 1..total}

\* The replies with which a successful operation can be answered.
OkReplies(c, n) ==
    LET type == task[c][n].type IN
    IF type \in ChunkedOps
    THEN {ReadReplies(c, n, total) : total \in 0..MaxParts}
    ELSE {{ReplyMsg(c, n, ReplyTo(type), 0, 0, FALSE)}}

\* INIT_REQ does not touch the file system, so it takes no lock.
HandleInit(c, n) ==
    /\ task[c][n].pc = "spawned"
    /\ task[c][n].type = "InitReq"
    /\ \E accepted \in IF c \in MaybeOld THEN BOOLEAN ELSE {TRUE} :
         /\ Advance(c, n, "sending", {ReplyMsg(c, n, "InitRes", 0, 0, accepted)})
         /\ executed' = [executed EXCEPT
              ![c][n] = IF accepted THEN "ok" ELSE "err"]
    /\ UNCHANGED <<reading, lockq, chan, transportVars>>

\* fs.lock().await
LockFs(c, n) ==
    /\ task[c][n].pc = "spawned"
    /\ task[c][n].type # "InitReq"
    /\ Advance(c, n, "queued", {})
    /\ lockq' = Append(lockq, <<c, n>>)
    /\ UNCHANGED <<reading, chan, executed, transportVars>>

Holds(c, n) == lockq # <<>> /\ Head(lockq) = <<c, n>>

\* The holder runs the operation and forms its replies.
Execute(c, n) ==
    /\ task[c][n].pc = "queued"
    /\ Holds(c, n)
    /\ \/ /\ \E out \in OkReplies(c, n) : Advance(c, n, "sending", out)
          /\ executed' = [executed EXCEPT ![c][n] = "ok"]
       \/ /\ Advance(c, n, "sending", {ErrorReply(c, n)})
          /\ executed' = [executed EXCEPT ![c][n] = "err"]
    /\ UNCHANGED <<reading, lockq, chan, transportVars>>

\* replier.send(reply).await: any of the JoinSet's tasks may be next.  One
\* message more than the capacity fits: the one the writer has taken out.
SendReply(c, n) ==
    /\ task[c][n].pc = "sending"
    /\ Len(chan[c]) <= ChanCap
    /\ \E m \in task[c][n].out :
         /\ Advance(c, n, "sending", task[c][n].out \ {m})
         /\ chan' = [chan EXCEPT ![c] = Append(@, m)]
    /\ UNCHANGED <<reading, lockq, executed, transportVars>>

\* Mutant: the guard is never dropped.
EndTaskKeepLock(c, n) ==
    /\ task[c][n].pc = "sending"
    /\ task[c][n].out = {}
    /\ Advance(c, n, "done", {})
    /\ UNCHANGED <<reading, lockq, chan, executed, transportVars>>

\* The task ends, dropping the guard (if it holds it) and its sender.
EndTask(c, n) ==
    /\ task[c][n].pc = "sending"
    /\ task[c][n].out = {}
    /\ Advance(c, n, "done", {})
    /\ lockq' = IF Holds(c, n) THEN Tail(lockq) ELSE lockq
    /\ UNCHANGED <<reading, chan, executed, transportVars>>

-----------------------------------------------------------------------------
(* handle_client: the writer task.                                         *)

WriterSend(c) ==
    /\ chan[c] # <<>>
    /\ ~lost[c]
    /\ Len(s2c[c]) < SockCap
    /\ s2c' = [s2c EXCEPT ![c] = Append(@, Head(chan[c]))]
    /\ chan' = [chan EXCEPT ![c] = Tail(@)]
    /\ UNCHANGED <<reading, task, lockq, executed,
                   c2s, clientOpen, serverOpen, lost>>

\* Mutant: the writer task hangs on the message it cannot write.
WriterSendErrHang(c) ==
    /\ chan[c] # <<>>
    /\ lost[c]
    /\ UNCHANGED <<serverVars, transportVars>>

\* A failed write is logged and the message forgotten; the task goes on.
WriterSendErr(c) ==
    /\ chan[c] # <<>>
    /\ lost[c]
    /\ chan' = [chan EXCEPT ![c] = Tail(@)]
    /\ UNCHANGED <<reading, task, lockq, executed, transportVars>>

Idle(c) == \A n \in Calls : task[c][n].pc \in {"none", "done"}

\* rx.recv() yields None once every sender is gone and the channel is empty.
WriterExit(c) ==
    /\ serverOpen[c]
    /\ chan[c] = <<>>
    /\ ~reading[c]
    /\ Idle(c)
    /\ serverOpen' = [serverOpen EXCEPT ![c] = FALSE]
    /\ UNCHANGED <<serverVars, c2s, s2c, clientOpen, lost>>

=============================================================================
