--------------------------- MODULE ClientHandler ----------------------------
(***************************************************************************)
(* ClientHandler (fs/handler.rs): the client side of the protocol.  Its    *)
(* methods take &mut self, so a client has one call in progress; the       *)
(* receive loop runs beside it and hands each reply to the listener that   *)
(* is registered under the reply's request ID.                             *)
(***************************************************************************)
EXTENDS Transport

CONSTANTS
    Ops,       \* Ops[c]: the requests client c's user makes
    Cancellers \* clients whose user may drop a call's future before it is
               \* ready; the FUSE front end never does (block_on)

ASSUME ClientAssumption ==
    /\ Ops \in [Clients -> SUBSET (RequestTypes \ {"InitReq"})]
    /\ Cancellers \subseteq Clients

NoCall == -1

VARIABLES
    session,         \* "new", "ready", "failed" (INIT) or "closed" (dropped)
    next_id,
    reply_listeners, \* request ID -> the call whose sender is registered
    calls,           \* number of calls made
    pending,         \* the call in progress, whose receiver is alive
    op,              \* its request type
    outbuf,          \* encoded but unsent messages: the FramedWrite's buffer
    inbox,           \* its mpsc channel
    received,        \* combine_read_chunks' count
    looping,         \* receive_loop is running
    outcome          \* history: how each call ended

clientVars == <<session, next_id, reply_listeners, calls, pending, op, outbuf,
                inbox, received, looping, outcome>>

ClientTypeOK ==
    /\ session \in [Clients -> {"new", "ready", "failed", "closed"}]
    /\ next_id \in [Clients -> Ids]
    /\ reply_listeners \in [Clients -> [Ids -> Calls \cup {NoCall}]]
    /\ calls \in [Clients -> 0..MaxCalls]
    /\ pending \in [Clients -> Calls \cup {NoCall}]
    /\ op \in [Clients -> RequestTypes]
    /\ outbuf \in [Clients -> Seq(Request)]
    /\ inbox \in [Clients -> Seq(Reply)]
    /\ received \in [Clients -> Nat]
    /\ looping \in [Clients -> BOOLEAN]
    /\ outcome \in [Clients ->
         [Calls -> {"idle", "pending", "ok", "err", "cancelled"}]]

\* ClientHandler::new, up to the handshake: the loop is spawned first.
ClientInit ==
    /\ session = [c \in Clients |-> "new"]
    /\ next_id = [c \in Clients |-> 0]
    /\ reply_listeners = [c \in Clients |-> [i \in Ids |-> NoCall]]
    /\ calls = [c \in Clients |-> 0]
    /\ pending = [c \in Clients |-> NoCall]
    /\ op = [c \in Clients |-> "InitReq"]
    /\ outbuf = [c \in Clients |-> <<>>]
    /\ inbox = [c \in Clients |-> <<>>]
    /\ received = [c \in Clients |-> 0]
    /\ looping = [c \in Clients |-> TRUE]
    /\ outcome = [c \in Clients |-> [n \in Calls |-> "idle"]]

-----------------------------------------------------------------------------
\* register_listener: a sender that is already there is replaced.
Register(c, id) ==
    reply_listeners' = [reply_listeners EXCEPT ![c][id] = calls[c]]

\* Mutant: next_id + 1 without wrapping.
SendMsgNoWrap(c, type) ==
    /\ Register(c, next_id[c])
    /\ next_id' = [next_id EXCEPT ![c] = @ + 1]
    /\ outbuf' = [outbuf EXCEPT ![c] =
         Append(@, [type |-> type, request_id |-> next_id[c], call |-> calls[c]])]

\* Mutant: next_id is not advanced past an operation's ID.
SendMsgSameId(c, type) ==
    /\ Register(c, next_id[c])
    /\ next_id' = [next_id EXCEPT ![c] = IF type = "InitReq" THEN 1 ELSE @]
    /\ outbuf' = [outbuf EXCEPT ![c] =
         Append(@, [type |-> type, request_id |-> next_id[c], call |-> calls[c]])]

\* send_msg up to the socket: allocate the ID, register, encode.
SendMsg(c, type) ==
    /\ Register(c, next_id[c])
    /\ next_id' = [next_id EXCEPT ![c] = (@ + 1) % IdSpace]
    /\ outbuf' = [outbuf EXCEPT ![c] =
         Append(@, [type |-> type, request_id |-> next_id[c], call |-> calls[c]])]

\* A call begins: the INIT handshake first, then any operation.
StartCall(c, type) ==
    /\ pending[c] = NoCall
    /\ calls[c] < MaxCalls
    /\ \/ session[c] = "new" /\ type = "InitReq"
       \/ session[c] = "ready" /\ type \in Ops[c]
    /\ SendMsg(c, type)
    /\ pending' = [pending EXCEPT ![c] = calls[c]]
    /\ op' = [op EXCEPT ![c] = type]
    /\ inbox' = [inbox EXCEPT ![c] = <<>>]
    /\ received' = [received EXCEPT ![c] = 0]
    /\ calls' = [calls EXCEPT ![c] = @ + 1]
    /\ outcome' = [outcome EXCEPT ![c][calls[c]] = "pending"]
    /\ UNCHANGED <<session, looping, transportVars>>

\* The call in progress ends; the receiver it listened on is dropped with
\* whatever it still holds, the sender stays in reply_listeners.
EndCall(c, result) ==
    /\ pending' = [pending EXCEPT ![c] = NoCall]
    /\ inbox' = [inbox EXCEPT ![c] = <<>>]
    /\ outcome' = [outcome EXCEPT ![c][pending[c]] = result]

\* A failed handshake makes `new' return Err, which drops the handler.
FailSession(c) ==
    /\ session' = [session EXCEPT ![c] = "failed"]
    /\ clientOpen' = [clientOpen EXCEPT ![c] = FALSE]

Sending(c) == pending[c] # NoCall /\ outbuf[c] # <<>>

\* Mutant: the message is kept in the buffer after it was sent.
FlushTwice(c) ==
    /\ Sending(c)
    /\ ~lost[c]
    /\ Len(c2s[c]) < SockCap
    /\ c2s' = [c2s EXCEPT ![c] = Append(@, Head(outbuf[c]))]
    /\ outbuf' \in {outbuf, [outbuf EXCEPT ![c] = Tail(@)]}
    /\ UNCHANGED <<session, next_id, reply_listeners, calls, pending, op,
                   inbox, received, looping, outcome,
                   s2c, clientOpen, serverOpen, lost>>

\* writer.send(msg).await: the whole buffer has to reach the socket.
Flush(c) ==
    /\ Sending(c)
    /\ ~lost[c]
    /\ Len(c2s[c]) < SockCap
    /\ c2s' = [c2s EXCEPT ![c] = Append(@, Head(outbuf[c]))]
    /\ outbuf' = [outbuf EXCEPT ![c] = Tail(@)]
    /\ UNCHANGED <<session, next_id, reply_listeners, calls, pending, op,
                   inbox, received, looping, outcome,
                   s2c, clientOpen, serverOpen, lost>>

\* On a broken connection the kernel may still accept the bytes ...
FlushLost(c) ==
    /\ Sending(c)
    /\ lost[c]
    /\ outbuf' = [outbuf EXCEPT ![c] = Tail(@)]
    /\ UNCHANGED <<session, next_id, reply_listeners, calls, pending, op,
                   inbox, received, looping, outcome, transportVars>>

\* ... or report the error, which the call returns.
FlushErr(c) ==
    /\ Sending(c)
    /\ lost[c]
    /\ EndCall(c, "err")
    /\ IF session[c] = "new" THEN FailSession(c)
                             ELSE UNCHANGED <<session, clientOpen>>
    /\ UNCHANGED <<next_id, reply_listeners, calls, op, outbuf, received,
                   looping, c2s, s2c, serverOpen, lost>>

-----------------------------------------------------------------------------
\* receive_loop takes the next reply off the socket.
Receiving(c) == looping[c] /\ s2c[c] # <<>>

\* Mutant: every reply goes to the call in progress.
ListenerAny(c) == pending[c]

Listener(c) == reply_listeners[c][Head(s2c[c]).request_id]

\* The registered listener is the call in progress: tx.send succeeds.
Deliver(c) ==
    /\ Receiving(c)
    /\ Listener(c) # NoCall
    /\ Listener(c) = pending[c]
    /\ inbox' = [inbox EXCEPT ![c] = Append(@, Head(s2c[c]))]
    /\ s2c' = [s2c EXCEPT ![c] = Tail(@)]
    /\ UNCHANGED <<session, next_id, reply_listeners, calls, pending, op,
                   outbuf, received, looping, outcome,
                   c2s, clientOpen, serverOpen, lost>>

\* Its receiver is gone: the entry is removed and the reply dropped.
DropStale(c) ==
    /\ Receiving(c)
    /\ Listener(c) # NoCall
    /\ Listener(c) # pending[c]
    /\ reply_listeners' =
         [reply_listeners EXCEPT ![c][Head(s2c[c]).request_id] = NoCall]
    /\ s2c' = [s2c EXCEPT ![c] = Tail(@)]
    /\ UNCHANGED <<session, next_id, calls, pending, op, outbuf, inbox,
                   received, looping, outcome,
                   c2s, clientOpen, serverOpen, lost>>

\* Nobody ever listened, or the entry was removed: the reply is dropped.
DropUnknown(c) ==
    /\ Receiving(c)
    /\ Listener(c) = NoCall
    /\ s2c' = [s2c EXCEPT ![c] = Tail(@)]
    /\ UNCHANGED <<clientVars, c2s, clientOpen, serverOpen, lost>>

\* reader.next() yields None: the loop ends.  The senders live on in the
\* handler's own map, so no listener is told.
ReceiveEof(c) ==
    /\ looping[c]
    /\ ClientSeesEof(c)
    /\ looping' = [looping EXCEPT ![c] = FALSE]
    /\ UNCHANGED <<session, next_id, reply_listeners, calls, pending, op,
                   outbuf, inbox, received, outcome, transportVars>>

-----------------------------------------------------------------------------
\* The call in progress takes a message from its listener.
Consuming(c) == pending[c] # NoCall /\ outbuf[c] = <<>> /\ inbox[c] # <<>>

\* init(): only an accepting INIT_RES makes the session ready.
ConsumeInit(c) ==
    /\ Consuming(c)
    /\ op[c] = "InitReq"
    /\ LET m == Head(inbox[c]) IN
         IF m.type = "InitRes" /\ m.accepted
         THEN /\ session' = [session EXCEPT ![c] = "ready"]
              /\ EndCall(c, "ok")
              /\ UNCHANGED clientOpen
         ELSE /\ FailSession(c)
              /\ EndCall(c, "err")
    /\ UNCHANGED <<next_id, reply_listeners, calls, op, outbuf, received,
                   looping, c2s, s2c, serverOpen, lost>>

\* ERROR ends any call.
ConsumeError(c) ==
    /\ Consuming(c)
    /\ op[c] # "InitReq"
    /\ Head(inbox[c]).type = "Error"
    /\ EndCall(c, "err")
    /\ UNCHANGED <<session, next_id, reply_listeners, calls, op, outbuf,
                   received, looping, transportVars>>

\* next_message and await_success: the awaited type ends the call.
ConsumeReply(c) ==
    /\ Consuming(c)
    /\ op[c] \notin ChunkedOps \cup {"InitReq"}
    /\ Head(inbox[c]).type = ReplyTo(op[c])
    /\ EndCall(c, "ok")
    /\ UNCHANGED <<session, next_id, reply_listeners, calls, op, outbuf,
                   received, looping, transportVars>>

\* Mutant: the first chunk with data ends the call.
ConsumeFirstChunk(c) ==
    /\ Consuming(c)
    /\ op[c] \in ChunkedOps
    /\ Head(inbox[c]).type = "ReadRes"
    /\ EndCall(c, "ok")
    /\ UNCHANGED <<session, next_id, reply_listeners, calls, op, outbuf,
                   received, looping, transportVars>>

\* combine_read_chunks: count, and return when the count is total_length.
ConsumeChunk(c) ==
    /\ Consuming(c)
    /\ op[c] \in ChunkedOps
    /\ Head(inbox[c]).type = "ReadRes"
    /\ LET m == Head(inbox[c])
           count == received[c] + DataLen(m)
       IN  /\ received' = [received EXCEPT ![c] = count]
           /\ IF count = m.total
              THEN EndCall(c, "ok")
              ELSE /\ inbox' = [inbox EXCEPT ![c] = Tail(@)]
                   /\ UNCHANGED <<pending, outcome>>
    /\ UNCHANGED <<session, next_id, reply_listeners, calls, op, outbuf,
                   looping, transportVars>>

\* `_ => continue': a message of another type is ignored.
ConsumeOther(c) ==
    /\ Consuming(c)
    /\ op[c] # "InitReq"
    /\ Head(inbox[c]).type \notin {"Error", ReplyTo(op[c])}
    /\ inbox' = [inbox EXCEPT ![c] = Tail(@)]
    /\ UNCHANGED <<session, next_id, reply_listeners, calls, pending, op,
                   outbuf, received, looping, outcome, transportVars>>

-----------------------------------------------------------------------------
\* The user drops the future of a call (a timeout, say), whether or not its
\* request has left the buffer.
CancelCall(c) ==
    /\ c \in Cancellers
    /\ pending[c] # NoCall
    /\ session[c] = "ready"
    /\ EndCall(c, "cancelled")
    /\ UNCHANGED <<session, next_id, reply_listeners, calls, op, outbuf,
                   received, looping, transportVars>>

\* The user drops the handler: its half of the connection is closed.
CloseSession(c) ==
    /\ session[c] = "ready"
    /\ pending[c] = NoCall
    /\ session' = [session EXCEPT ![c] = "closed"]
    /\ clientOpen' = [clientOpen EXCEPT ![c] = FALSE]
    /\ outbuf' = [outbuf EXCEPT ![c] = <<>>]
    /\ UNCHANGED <<next_id, reply_listeners, calls, pending, op, inbox,
                   received, looping, outcome, c2s, s2c, serverOpen, lost>>

=============================================================================
