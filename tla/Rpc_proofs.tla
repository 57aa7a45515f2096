----------------------------- MODULE Rpc_proofs ------------------------------
(***************************************************************************)
(* Type correctness of the composed system and, as long as the client has  *)
(* not used up the ID space, that a call only ever sees replies to itself, *)
(* for any number of clients, calls, cancellations and lost connections.   *)
(*                                                                         *)
(* The inductive invariant follows the request ID around: while no ID is   *)
(* used twice (NoWrap) every message anywhere carries the number of the    *)
(* call that caused it, and the listener registered under an ID is the     *)
(* call of that number.                                                    *)
(***************************************************************************)
EXTENDS Rpc, SequenceTheorems, TLAPS

USE MessageAssumption, TransportAssumption, ClientAssumption, ServerAssumption

\* IDs are not reused.
NoWrap == MaxCalls <= IdSpace

\* Messages whose request ID is the number of their call.
SentRequest == {m \in Request : NoWrap => m.request_id = m.call}
SentReply == {m \in Reply : NoWrap => m.request_id = m.call}

TransportInv ==
    /\ c2s \in [Clients -> Seq(SentRequest)]
    /\ s2c \in [Clients -> Seq(SentReply)]
    /\ clientOpen \in [Clients -> BOOLEAN]
    /\ serverOpen \in [Clients -> BOOLEAN]
    /\ lost \in [Clients -> BOOLEAN]

\* The allocator, the listeners and the call in progress.
SessionInv ==
    /\ session \in [Clients -> {"new", "ready", "failed", "closed"}]
    /\ looping \in [Clients -> BOOLEAN]
    /\ op \in [Clients -> RequestTypes]
    /\ received \in [Clients -> Nat]
    /\ outcome \in [Clients ->
         [Calls -> {"idle", "pending", "ok", "err", "cancelled"}]]
    /\ calls \in [Clients -> 0..MaxCalls]
    /\ pending \in [Clients -> Calls \cup {NoCall}]
    /\ outbuf \in [Clients -> Seq(SentRequest)]

AllocInv ==
    /\ next_id \in [Clients -> Ids]
    /\ \A c \in Clients : NoWrap /\ calls[c] < MaxCalls => next_id[c] = calls[c]

ListenerInv ==
    /\ reply_listeners \in [Clients -> [Ids -> Calls \cup {NoCall}]]
    /\ \A c \in Clients : \A i \in Ids :
         NoWrap => reply_listeners[c][i] \in {NoCall, i}

InboxInv ==
    /\ inbox \in [Clients -> Seq(SentReply)]
    /\ \A c \in Clients : \A i \in 1..Len(inbox[c]) :
         NoWrap => inbox[c][i].call = pending[c]

TaskInv ==
    /\ task \in [Clients -> [Calls -> Task]]
    /\ \A c \in Clients : \A n \in Calls :
         /\ task[c][n].out \subseteq SentReply
         /\ NoWrap /\ task[c][n].pc # "none" => task[c][n].request_id = n

ServerInv ==
    /\ reading \in [Clients -> BOOLEAN]
    /\ lockq \in Seq(Clients \X Calls)
    /\ chan \in [Clients -> Seq(SentReply)]
    /\ executed \in [Clients -> [Calls -> {"no", "ok", "err"}]]

IInv == /\ TransportInv /\ SessionInv /\ AllocInv /\ ListenerInv /\ InboxInv
        /\ TaskInv /\ ServerInv

-----------------------------------------------------------------------------
\* The invariant holds when the connections have just been made.
LEMMA InitIInv == Init => IInv
<1> SUFFICES ASSUME Init PROVE IInv
  OBVIOUS
<1> USE DEF Init, TransportInit, ClientInit, ServerInit
<1>1. TransportInv
  BY DEF TransportInv
<1>2. SessionInv
  BY DEF SessionInv, RequestTypes
<1>3. AllocInv
  BY DEF AllocInv, Ids
<1>4. ListenerInv
  BY DEF ListenerInv
<1>5. InboxInv
  BY DEF InboxInv
<1>6. TaskInv
  BY DEF TaskInv, Task, NoTask, RequestTypes, Ids
<1>7. ServerInv
  BY DEF ServerInv
<1> QED BY <1>1, <1>2, <1>3, <1>4, <1>5, <1>6, <1>7 DEF IInv

-----------------------------------------------------------------------------
(* The user's actions.                                                     *)

\* send_msg registers the new call under its own number: with NoWrap no
\* earlier call has that ID.
LEMMA StartCallStep ==
    ASSUME IInv, NEW c \in Clients, NEW type \in {"InitReq"} \cup Ops[c],
           StartCall(c, type), UNCHANGED serverVars
    PROVE  IInv'
<1> DEFINE n == calls[c]
           id == next_id[c]
           m == [type |-> type, request_id |-> id, call |-> n]
<1>1. /\ n \in Calls /\ id \in Ids /\ type \in RequestTypes
      /\ NoWrap => id = n
  BY DEF IInv, StartCall, SessionInv, AllocInv, Calls, RequestTypes
<1>2. m \in SentRequest
  BY <1>1 DEF SentRequest, Request
<1>3. TransportInv'
  BY DEF IInv, StartCall, TransportInv, transportVars
<1>4. SessionInv'
  <2>1. Append(outbuf[c], m) \in Seq(SentRequest)
    BY <1>2 DEF IInv, SessionInv
  <2>2. outbuf' \in [Clients -> Seq(SentRequest)]
    BY <2>1 DEF IInv, SessionInv, StartCall, SendMsg
  <2>3. calls' \in [Clients -> 0..MaxCalls] /\ received' \in [Clients -> Nat]
    BY DEF IInv, SessionInv, StartCall
  <2>4. outcome' \in [Clients -> [Calls -> {"idle", "pending", "ok", "err", "cancelled"}]]
    BY <1>1 DEF IInv, SessionInv, StartCall
  <2> QED BY <1>1, <2>2, <2>3, <2>4 DEF IInv, SessionInv, StartCall
<1>5. AllocInv'
  <2>1. (id + 1) % IdSpace \in Ids
    BY <1>1 DEF Ids
  <2>2. NoWrap /\ n + 1 < MaxCalls => (id + 1) % IdSpace = n + 1
    BY <1>1 DEF NoWrap, Ids, Calls
  <2> QED BY <1>1, <2>1, <2>2 DEF IInv, AllocInv, SessionInv, StartCall, SendMsg
<1>6. ListenerInv'
  BY <1>1 DEF IInv, ListenerInv, StartCall, SendMsg, Register
<1>7. InboxInv'
  BY DEF IInv, InboxInv, StartCall
<1>8. TaskInv' /\ ServerInv'
  BY DEF IInv, TaskInv, ServerInv, serverVars
<1> QED BY <1>3, <1>4, <1>5, <1>6, <1>7, <1>8 DEF IInv

\* Ending a call empties its inbox, whatever the result.
LEMMA EndCallStep ==
    ASSUME IInv, NEW c \in Clients, pending[c] # NoCall,
           NEW result \in {"ok", "err", "cancelled"}, EndCall(c, result)
    PROVE  /\ pending' \in [Clients -> Calls \cup {NoCall}]
           /\ outcome' \in [Clients ->
                [Calls -> {"idle", "pending", "ok", "err", "cancelled"}]]
           /\ InboxInv'
<1>1. pending[c] \in Calls
  BY DEF IInv, SessionInv
<1>2. pending' \in [Clients -> Calls \cup {NoCall}]
  BY DEF IInv, SessionInv, EndCall
<1>3. outcome' \in [Clients -> [Calls -> {"idle", "pending", "ok", "err", "cancelled"}]]
  BY <1>1 DEF IInv, SessionInv, EndCall
<1>4. InboxInv'
  BY <1>2 DEF IInv, InboxInv, SessionInv, EndCall
<1> QED BY <1>2, <1>3, <1>4

\* Dropping a call leaves its request and its replies under way, all of them
\* with the ID of that call.
LEMMA CancelCallStep ==
    ASSUME IInv, NEW c \in Clients, CancelCall(c), UNCHANGED serverVars
    PROVE  IInv'
<1>1. /\ pending' \in [Clients -> Calls \cup {NoCall}]
      /\ outcome' \in [Clients ->
           [Calls -> {"idle", "pending", "ok", "err", "cancelled"}]]
      /\ InboxInv'
  BY EndCallStep DEF CancelCall
<1>2. TransportInv' /\ AllocInv' /\ ListenerInv'
  BY DEF IInv, CancelCall, TransportInv, AllocInv, ListenerInv, transportVars
<1>3. SessionInv'
  BY <1>1 DEF IInv, CancelCall, SessionInv
<1>4. TaskInv' /\ ServerInv'
  BY DEF IInv, TaskInv, ServerInv, serverVars
<1> QED BY <1>1, <1>2, <1>3, <1>4 DEF IInv

\* Dropping the handler only empties the buffer of unsent requests.
LEMMA CloseSessionStep ==
    ASSUME IInv, NEW c \in Clients, CloseSession(c), UNCHANGED serverVars
    PROVE  IInv'
<1>1. TransportInv'
  BY DEF IInv, CloseSession, TransportInv
<1>2. AllocInv' /\ ListenerInv' /\ InboxInv'
  BY DEF IInv, CloseSession, AllocInv, ListenerInv, InboxInv
<1>3. SessionInv'
  BY DEF IInv, CloseSession, SessionInv
<1>4. TaskInv' /\ ServerInv'
  BY DEF IInv, TaskInv, ServerInv, serverVars
<1> QED BY <1>1, <1>2, <1>3, <1>4 DEF IInv

\* A broken connection only loses messages.
LEMMA LoseConnectionStep ==
    ASSUME IInv, NEW c \in Clients, LoseConnection(c),
           UNCHANGED <<clientVars, serverVars>>
    PROVE  IInv'
<1>1. ASSUME NEW S, NEW s \in Seq(S), NEW i \in 0..Len(s)
      PROVE  SubSeq(s, 1, i) \in Seq(S)
  BY <1>1, SubSeqProperties
<1>2. c2s' \in [Clients -> Seq(SentRequest)]
  BY <1>1 DEF IInv, TransportInv, LoseConnection
<1>3. s2c' \in [Clients -> Seq(SentReply)]
  BY <1>1 DEF IInv, TransportInv, LoseConnection
<1>4. TransportInv'
  BY <1>2, <1>3 DEF IInv, TransportInv, LoseConnection
<1>5. SessionInv' /\ AllocInv' /\ ListenerInv' /\ InboxInv'
  BY DEF IInv, SessionInv, AllocInv, ListenerInv, InboxInv, clientVars
<1>6. TaskInv' /\ ServerInv'
  BY DEF IInv, TaskInv, ServerInv, serverVars
<1> QED BY <1>4, <1>5, <1>6 DEF IInv

-----------------------------------------------------------------------------
(* The call in progress.                                                   *)

\* A request reaches the socket, or is lost in it, as it was encoded.
LEMMA FlushStep ==
    ASSUME IInv, NEW c \in Clients, Flush(c) \/ FlushLost(c), UNCHANGED serverVars
    PROVE  IInv'
<1>1. /\ Head(outbuf[c]) \in SentRequest
      /\ Tail(outbuf[c]) \in Seq(SentRequest)
  BY HeadTailProperties DEF IInv, SessionInv, Flush, FlushLost, Sending
<1>2. outbuf' \in [Clients -> Seq(SentRequest)]
  BY <1>1 DEF IInv, SessionInv, Flush, FlushLost
<1>3. SessionInv'
  BY <1>2 DEF IInv, SessionInv, Flush, FlushLost
<1>4. Append(c2s[c], Head(outbuf[c])) \in Seq(SentRequest)
  BY <1>1 DEF IInv, TransportInv
<1>5. TransportInv'
  BY <1>4 DEF IInv, TransportInv, Flush, FlushLost, transportVars
<1>6. AllocInv' /\ ListenerInv' /\ InboxInv'
  BY DEF IInv, AllocInv, ListenerInv, InboxInv, Flush, FlushLost
<1>7. TaskInv' /\ ServerInv'
  BY DEF IInv, TaskInv, ServerInv, serverVars
<1> QED BY <1>3, <1>5, <1>6, <1>7 DEF IInv

\* A failed send ends the call.
LEMMA FlushErrStep ==
    ASSUME IInv, NEW c \in Clients, FlushErr(c), UNCHANGED serverVars
    PROVE  IInv'
<1>1. /\ pending' \in [Clients -> Calls \cup {NoCall}]
      /\ outcome' \in [Clients ->
           [Calls -> {"idle", "pending", "ok", "err", "cancelled"}]]
      /\ InboxInv'
  BY EndCallStep DEF FlushErr, Sending
<1>2. TransportInv'
  BY DEF IInv, FlushErr, FailSession, TransportInv
<1>3. AllocInv' /\ ListenerInv'
  BY DEF IInv, FlushErr, AllocInv, ListenerInv
<1>4. SessionInv'
  BY <1>1 DEF IInv, FlushErr, FailSession, SessionInv
<1>5. TaskInv' /\ ServerInv'
  BY DEF IInv, TaskInv, ServerInv, serverVars
<1> QED BY <1>1, <1>2, <1>3, <1>4, <1>5 DEF IInv

\* The five ways of taking a message from the inbox either end the call or
\* leave the rest of the inbox as it is.
LEMMA ConsumeStep ==
    ASSUME IInv, NEW c \in Clients, UNCHANGED serverVars,
           \/ ConsumeInit(c) \/ ConsumeError(c) \/ ConsumeReply(c)
           \/ ConsumeChunk(c) \/ ConsumeOther(c)
    PROVE  IInv'
<1>1. pending[c] # NoCall /\ inbox[c] # <<>>
  BY DEF Consuming, ConsumeInit, ConsumeError, ConsumeReply, ConsumeChunk, ConsumeOther
<1>2. \/ \E result \in {"ok", "err"} : EndCall(c, result)
      \/ /\ inbox' = [inbox EXCEPT ![c] = Tail(@)]
         /\ UNCHANGED <<pending, outcome>>
  BY DEF ConsumeInit, ConsumeError, ConsumeReply, ConsumeChunk, ConsumeOther
<1>3. /\ pending' \in [Clients -> Calls \cup {NoCall}]
      /\ outcome' \in [Clients ->
           [Calls -> {"idle", "pending", "ok", "err", "cancelled"}]]
      /\ InboxInv'
  <2>1. CASE \E result \in {"ok", "err"} : EndCall(c, result)
    BY <1>1, <2>1, EndCallStep
  <2>2. CASE /\ inbox' = [inbox EXCEPT ![c] = Tail(@)]
             /\ UNCHANGED <<pending, outcome>>
    <3>1. inbox[c] \in Seq(SentReply)
      BY DEF IInv, InboxInv
    <3>2. /\ Tail(inbox[c]) \in Seq(SentReply)
          /\ Len(Tail(inbox[c])) = Len(inbox[c]) - 1
          /\ \A i \in 1..Len(Tail(inbox[c])) : Tail(inbox[c])[i] = inbox[c][i + 1]
      BY <1>1, <3>1, HeadTailProperties
    <3>3. \A i \in 1..Len(Tail(inbox[c])) : i + 1 \in 1..Len(inbox[c])
      BY <1>1, <3>1, <3>2, LenProperties
    <3>4. inbox' \in [Clients -> Seq(SentReply)]
      BY <2>2, <3>2 DEF IInv, InboxInv
    <3>5. ASSUME NEW d \in Clients, NEW i \in 1..Len(inbox'[d]), NoWrap
          PROVE  inbox'[d][i].call = pending'[d]
      <4>1. CASE d = c
        BY <2>2, <3>2, <3>3, <3>5, <4>1 DEF IInv, InboxInv
      <4>2. CASE d # c
        BY <2>2, <3>5, <4>2 DEF IInv, InboxInv
      <4> QED BY <4>1, <4>2
    <3> QED BY <2>2, <3>4, <3>5 DEF IInv, InboxInv, SessionInv
  <2> QED BY <1>2, <2>1, <2>2
<1>4. TransportInv'
  BY DEF IInv, TransportInv, transportVars, ConsumeInit, FailSession, ConsumeError,
         ConsumeReply, ConsumeChunk, ConsumeOther
<1>5. AllocInv' /\ ListenerInv'
  BY DEF IInv, AllocInv, ListenerInv, ConsumeInit, ConsumeError,
         ConsumeReply, ConsumeChunk, ConsumeOther
<1>6. session' \in [Clients -> {"new", "ready", "failed", "closed"}]
  BY DEF IInv, SessionInv, ConsumeInit, FailSession, ConsumeError,
         ConsumeReply, ConsumeChunk, ConsumeOther
<1>7. received' \in [Clients -> Nat]
  BY DEF IInv, SessionInv, ConsumeInit, ConsumeError,
         ConsumeReply, ConsumeChunk, ConsumeOther, DataLen
<1>8. UNCHANGED <<op, looping, calls, outbuf>>
  BY DEF ConsumeInit, ConsumeError, ConsumeReply, ConsumeChunk, ConsumeOther
<1>9. SessionInv'
  BY <1>3, <1>6, <1>7, <1>8 DEF IInv, SessionInv
<1>10. TaskInv' /\ ServerInv'
  BY DEF IInv, TaskInv, ServerInv, serverVars
<1> QED BY <1>3, <1>4, <1>5, <1>9, <1>10 DEF IInv

-----------------------------------------------------------------------------
(* The receive loop.                                                       *)

\* The heart of the matter: the ID under which a reply finds the call in
\* progress is the number of that call.
LEMMA DeliverStep ==
    ASSUME IInv, NEW c \in Clients, Deliver(c), UNCHANGED serverVars
    PROVE  IInv'
<1> DEFINE m == Head(s2c[c])
<1>1. m \in SentReply /\ Tail(s2c[c]) \in Seq(SentReply)
  BY HeadTailProperties DEF IInv, TransportInv, Deliver, Receiving
<1>2. NoWrap => m.call = pending[c]
  <2>1. m.request_id \in Ids
    BY <1>1 DEF SentReply, Reply
  <2>2. NoWrap => m.request_id = m.call
    BY <1>1 DEF SentReply
  <2>3. NoWrap => reply_listeners[c][m.request_id] \in {NoCall, m.request_id}
    BY <2>1 DEF IInv, ListenerInv
  <2> QED BY <2>2, <2>3 DEF Deliver, Listener
<1>3. inbox[c] \in Seq(SentReply)
  BY DEF IInv, InboxInv
<1>4. /\ Append(inbox[c], m) \in Seq(SentReply)
      /\ \A i \in 1..Len(Append(inbox[c], m)) :
           \/ i \in 1..Len(inbox[c]) /\ Append(inbox[c], m)[i] = inbox[c][i]
           \/ Append(inbox[c], m)[i] = m
  BY <1>1, <1>3, AppendProperties
<1>5. inbox' \in [Clients -> Seq(SentReply)]
  BY <1>4 DEF IInv, InboxInv, Deliver
<1>6. ASSUME NEW d \in Clients, NEW i \in 1..Len(inbox'[d]), NoWrap
      PROVE  inbox'[d][i].call = pending'[d]
  <2>1. CASE d = c
    BY <1>2, <1>4, <1>6, <2>1 DEF IInv, InboxInv, Deliver
  <2>2. CASE d # c
    BY <1>6, <2>2 DEF IInv, InboxInv, Deliver
  <2> QED BY <2>1, <2>2
<1>7. InboxInv'
  BY <1>5, <1>6 DEF InboxInv
<1>8. TransportInv'
  BY <1>1 DEF IInv, TransportInv, Deliver
<1>9. SessionInv' /\ AllocInv' /\ ListenerInv'
  BY DEF IInv, SessionInv, AllocInv, ListenerInv, Deliver
<1>10. TaskInv' /\ ServerInv'
  BY DEF IInv, TaskInv, ServerInv, serverVars
<1> QED BY <1>7, <1>8, <1>9, <1>10 DEF IInv

\* Dropping a reply changes no inbox; the end of the loop changes nothing else.
LEMMA DropStep ==
    ASSUME IInv, NEW c \in Clients, UNCHANGED serverVars,
           DropStale(c) \/ DropUnknown(c) \/ ReceiveEof(c)
    PROVE  IInv'
<1>1. TransportInv'
  <2>1. CASE DropStale(c) \/ DropUnknown(c)
    <3>1. Tail(s2c[c]) \in Seq(SentReply)
      BY <2>1, HeadTailProperties DEF IInv, TransportInv, DropStale, DropUnknown, Receiving
    <3> QED BY <2>1, <3>1 DEF IInv, TransportInv, DropStale, DropUnknown
  <2>2. CASE ReceiveEof(c)
    BY <2>2 DEF IInv, TransportInv, ReceiveEof, transportVars
  <2> QED BY <2>1, <2>2
<1>2. ListenerInv'
  BY SMTT(30) DEF IInv, ListenerInv, DropStale, DropUnknown, ReceiveEof, clientVars
<1>3. SessionInv' /\ AllocInv' /\ InboxInv'
  BY DEF IInv, SessionInv, AllocInv, InboxInv,
         DropStale, DropUnknown, ReceiveEof, clientVars
<1>4. TaskInv' /\ ServerInv'
  BY DEF IInv, TaskInv, ServerInv, serverVars
<1> QED BY <1>1, <1>2, <1>3, <1>4 DEF IInv

-----------------------------------------------------------------------------
(* The server.                                                             *)

\* The reader gives a request the task of its own call.
LEMMA ReadRequestStep ==
    ASSUME IInv, NEW c \in Clients, ReadRequest(c) \/ ReadEof(c), UNCHANGED clientVars
    PROVE  IInv'
<1>1. SessionInv' /\ AllocInv' /\ ListenerInv' /\ InboxInv'
  BY DEF IInv, SessionInv, AllocInv, ListenerInv, InboxInv, clientVars
<1>2. CASE ReadRequest(c)
  <2> DEFINE m == Head(c2s[c])
             t == [pc |-> "spawned", type |-> m.type,
                   request_id |-> m.request_id, out |-> {}]
  <2>1. m \in SentRequest /\ Tail(c2s[c]) \in Seq(SentRequest)
    BY <1>2, HeadTailProperties DEF IInv, TransportInv, ReadRequest
  <2>2. /\ m.call \in Calls /\ m.type \in RequestTypes /\ m.request_id \in Ids
        /\ NoWrap => m.request_id = m.call
    BY <2>1 DEF SentRequest, Request
  <2>3. t \in Task /\ t.out = {} /\ t.request_id = m.request_id
    BY <2>2 DEF Task
  <2>4. task' = [task EXCEPT ![c][m.call] = t]
    BY <1>2 DEF ReadRequest
  <2>5. task' \in [Clients -> [Calls -> Task]]
    BY <2>2, <2>3, <2>4 DEF IInv, TaskInv
  <2>6. TaskInv'
    <3> SUFFICES ASSUME NEW d \in Clients, NEW n \in Calls
                 PROVE  /\ task'[d][n].out \subseteq SentReply
                        /\ NoWrap /\ task'[d][n].pc # "none" => task'[d][n].request_id = n
      BY <2>5 DEF TaskInv
    <3>1. CASE d = c /\ n = m.call
      <4>1. task'[d][n] = t
        BY <2>2, <2>4, <3>1 DEF IInv, TaskInv
      <4> QED BY <2>2, <2>3, <3>1, <4>1
    <3>2. CASE ~(d = c /\ n = m.call)
      <4>1. task'[d][n] = task[d][n]
        BY <2>2, <2>4, <3>2 DEF IInv, TaskInv
      <4> QED BY <4>1 DEF IInv, TaskInv
    <3> QED BY <3>1, <3>2
  <2>7. TransportInv'
    BY <1>2, <2>1 DEF IInv, TransportInv, ReadRequest
  <2>8. ServerInv'
    BY <1>2 DEF IInv, ServerInv, ReadRequest
  <2> QED BY <1>1, <2>6, <2>7, <2>8 DEF IInv
<1>3. CASE ReadEof(c)
  <2>1. TransportInv' /\ TaskInv'
    BY <1>3 DEF IInv, TransportInv, TaskInv, ReadEof, transportVars
  <2>2. ServerInv'
    BY <1>3 DEF IInv, ServerInv, ReadEof
  <2> QED BY <1>1, <2>1, <2>2 DEF IInv
<1> QED BY <1>2, <1>3

\* A reply formed by the task of call n is a reply to call n.
LEMMA ReplyMsgType ==
    ASSUME IInv, NEW c \in Clients, NEW n \in Calls, task[c][n].pc # "none",
           NEW type \in ReplyTypes, NEW total \in 0..MaxParts,
           NEW part \in 0..MaxParts, NEW accepted \in BOOLEAN
    PROVE  ReplyMsg(c, n, type, total, part, accepted) \in SentReply
<1>1. task[c][n] \in Task
  BY DEF IInv, TaskInv
<1>2. task[c][n].request_id \in Ids
  BY <1>1 DEF Task
<1>3. NoWrap => task[c][n].request_id = n
  BY DEF IInv, TaskInv
<1> QED BY <1>2, <1>3 DEF ReplyMsg, SentReply, Reply

\* A task that moves on keeps its request and sends only replies to it.
LEMMA AdvanceStep ==
    ASSUME IInv, NEW c \in Clients, NEW n \in Calls, task[c][n].pc # "none",
           NEW pc \in {"queued", "sending", "done"}, NEW out \in SUBSET SentReply,
           Advance(c, n, pc, out)
    PROVE  TaskInv'
<1> DEFINE t == [pc |-> pc, type |-> task[c][n].type,
                 request_id |-> task[c][n].request_id, out |-> out]
<1>1. task \in [Clients -> [Calls -> Task]] /\ task[c][n] \in Task
  BY DEF IInv, TaskInv
<1>2. SentReply \subseteq Reply
  BY DEF SentReply
<1>3. task[c][n].type \in RequestTypes /\ task[c][n].request_id \in Ids
  BY <1>1 DEF Task
<1>4. /\ t \in Task /\ t.out \subseteq SentReply
      /\ t.request_id = task[c][n].request_id
  BY <1>2, <1>3 DEF Task
<1>5. task' = [task EXCEPT ![c][n] = t]
  BY DEF Advance
<1> HIDE DEF t
<1>6. task' \in [Clients -> [Calls -> Task]]
  BY <1>1, <1>4, <1>5
<1> SUFFICES ASSUME NEW d \in Clients, NEW k \in Calls
             PROVE  /\ task'[d][k].out \subseteq SentReply
                    /\ NoWrap /\ task'[d][k].pc # "none" => task'[d][k].request_id = k
  BY <1>6 DEF TaskInv
<1>7. CASE d = c /\ k = n
  <2>1. task'[d][k] = t
    BY <1>1, <1>5, <1>7
  <2> QED BY <1>4, <1>7, <2>1 DEF IInv, TaskInv
<1>8. CASE ~(d = c /\ k = n)
  <2>1. task'[d][k] = task[d][k]
    BY <1>1, <1>5, <1>8
  <2> QED BY <2>1 DEF IInv, TaskInv
<1> QED BY <1>7, <1>8

\* Every step of handle_msg.
LEMMA TaskStepIInv ==
    ASSUME IInv, NEW c \in Clients, NEW n \in Calls, TaskStep(c, n)
    PROVE  IInv'
<1>1. SessionInv' /\ AllocInv' /\ ListenerInv' /\ InboxInv'
  BY DEF IInv, SessionInv, AllocInv, ListenerInv, InboxInv, clientVars, TaskStep
<1>2. TransportInv'
  BY DEF IInv, TransportInv, transportVars, TaskStep, HandleInit, LockFs, Execute,
         SendReply, EndTask
<1>3. task[c][n].pc # "none"
  BY DEF TaskStep, HandleInit, LockFs, Execute, SendReply, EndTask
<1>4. task[c][n] \in Task /\ task[c][n].out \subseteq SentReply
  BY DEF IInv, TaskInv
<1>5. CASE HandleInit(c, n)
  <2> PICK accepted \in BOOLEAN :
         /\ Advance(c, n, "sending", {ReplyMsg(c, n, "InitRes", 0, 0, accepted)})
         /\ executed' = [executed EXCEPT ![c][n] = IF accepted THEN "ok" ELSE "err"]
    BY <1>5 DEF HandleInit
  <2>1. ReplyMsg(c, n, "InitRes", 0, 0, accepted) \in SentReply
    <3>1. "InitRes" \in ReplyTypes /\ 0 \in 0..MaxParts
      BY DEF ReplyTypes
    <3> QED BY <1>3, <3>1, ReplyMsgType, Zenon
  <2>2. TaskInv'
    BY <1>3, <1>5, <2>1, AdvanceStep DEF HandleInit
  <2>3. ServerInv'
    BY <1>5 DEF IInv, ServerInv, HandleInit
  <2> QED BY <1>1, <1>2, <2>2, <2>3 DEF IInv
<1>6. CASE LockFs(c, n)
  <2>1. TaskInv'
    BY <1>3, <1>6, AdvanceStep DEF LockFs
  <2>2. Append(lockq, <<c, n>>) \in Seq(Clients \X Calls)
    BY DEF IInv, ServerInv
  <2>3. ServerInv'
    BY <1>6, <2>2 DEF IInv, ServerInv, LockFs
  <2> QED BY <1>1, <1>2, <2>1, <2>3 DEF IInv
<1>7. CASE Execute(c, n)
  <2>0. 0 \in 0..MaxParts /\ FALSE \in BOOLEAN
    OBVIOUS
  <2>1. ErrorReply(c, n) \in SentReply
    <3>1. "Error" \in ReplyTypes
      BY DEF ReplyTypes
    <3> QED BY <1>3, <2>0, <3>1, ReplyMsgType, Zenon DEF ErrorReply
  <2>2. \A out \in OkReplies(c, n) : out \subseteq SentReply
    <3>1. \A total \in 0..MaxParts : ReadReplies(c, n, total) \subseteq SentReply
      <4> SUFFICES ASSUME NEW total \in 0..MaxParts
                   PROVE  ReadReplies(c, n, total) \subseteq SentReply
        OBVIOUS
      <4>1. "ReadRes" \in ReplyTypes
        BY DEF ReplyTypes
      <4>2. ReplyMsg(c, n, "ReadRes", 0, 0, FALSE) \in SentReply
        BY <1>3, <2>0, <4>1, ReplyMsgType, Zenon
      <4>3. \A part \in 0..MaxParts : ReplyMsg(c, n, "ReadRes", total, part, FALSE) \in SentReply
        BY <1>3, <2>0, <4>1, ReplyMsgType, Zenon
      <4>4. 1..total \subseteq 0..MaxParts
        OBVIOUS
      <4> QED BY <4>2, <4>3, <4>4 DEF ReadReplies
    <3>2. task[c][n].type \in RequestTypes
      BY <1>4 DEF Task
    <3>3. task[c][n].type \notin ChunkedOps => ReplyTo(task[c][n].type) \in ReplyTypes
      BY <3>2 DEF RequestTypes, ReplyTo, ReplyTypes, DataReply, ChunkedOps, SuccessOps
    <3>4. task[c][n].type \notin ChunkedOps =>
            ReplyMsg(c, n, ReplyTo(task[c][n].type), 0, 0, FALSE) \in SentReply
      BY <1>3, <2>0, <3>3, ReplyMsgType, Zenon
    <3> QED BY <3>1, <3>4 DEF OkReplies
  <2>3. TaskInv'
    BY <1>3, <1>7, <2>1, <2>2, AdvanceStep DEF Execute
  <2>4. executed' \in [Clients -> [Calls -> {"no", "ok", "err"}]]
    <3>1. \E r \in {"ok", "err"} : executed' = [executed EXCEPT ![c][n] = r]
      BY <1>7 DEF Execute
    <3>2. executed \in [Clients -> [Calls -> {"no", "ok", "err"}]]
      BY DEF IInv, ServerInv
    <3> QED BY <3>1, <3>2
  <2>5. ServerInv'
    BY <1>7, <2>4 DEF IInv, ServerInv, Execute
  <2> QED BY <1>1, <1>2, <2>3, <2>5 DEF IInv
<1>8. CASE SendReply(c, n)
  <2>1. PICK m \in task[c][n].out : /\ Advance(c, n, "sending", task[c][n].out \ {m})
                                    /\ chan' = [chan EXCEPT ![c] = Append(@, m)]
    BY <1>8 DEF SendReply
  <2>2. TaskInv'
    BY <1>3, <1>4, <2>1, AdvanceStep
  <2>3. Append(chan[c], m) \in Seq(SentReply)
    BY <1>4 DEF IInv, ServerInv
  <2>4. ServerInv'
    BY <1>8, <2>1, <2>3 DEF IInv, ServerInv, SendReply
  <2> QED BY <1>1, <1>2, <2>2, <2>4 DEF IInv
<1>9. CASE EndTask(c, n)
  <2>1. TaskInv'
    BY <1>3, <1>9, AdvanceStep DEF EndTask
  <2>2. lockq' \in Seq(Clients \X Calls)
    BY <1>9, HeadTailProperties DEF IInv, ServerInv, EndTask, Holds
  <2>3. ServerInv'
    BY <1>9, <2>2 DEF IInv, ServerInv, EndTask
  <2> QED BY <1>1, <1>2, <2>1, <2>3 DEF IInv
<1> QED BY <1>5, <1>6, <1>7, <1>8, <1>9 DEF TaskStep

\* The writer passes replies on unchanged, or drops them.
LEMMA WriterStepIInv ==
    ASSUME IInv, NEW c \in Clients, WriterStep(c)
    PROVE  IInv'
<1>1. SessionInv' /\ AllocInv' /\ ListenerInv' /\ InboxInv'
  BY DEF IInv, SessionInv, AllocInv, ListenerInv, InboxInv, clientVars, WriterStep
<1>2. TaskInv'
  BY DEF IInv, TaskInv, WriterStep, WriterSend, WriterSendErr, WriterExit, serverVars
<1>3. CASE WriterSend(c)
  <2>1. Head(chan[c]) \in SentReply /\ Tail(chan[c]) \in Seq(SentReply)
    BY <1>3, HeadTailProperties DEF IInv, ServerInv, WriterSend
  <2>2. Append(s2c[c], Head(chan[c])) \in Seq(SentReply)
    BY <2>1 DEF IInv, TransportInv
  <2>3. TransportInv'
    BY <1>3, <2>2 DEF IInv, TransportInv, WriterSend
  <2>4. ServerInv'
    BY <1>3, <2>1 DEF IInv, ServerInv, WriterSend
  <2> QED BY <1>1, <1>2, <2>3, <2>4 DEF IInv
<1>4. CASE WriterSendErr(c)
  <2>1. Tail(chan[c]) \in Seq(SentReply)
    BY <1>4, HeadTailProperties DEF IInv, ServerInv, WriterSendErr
  <2>2. TransportInv'
    BY <1>4 DEF IInv, TransportInv, WriterSendErr, transportVars
  <2>3. ServerInv'
    BY <1>4, <2>1 DEF IInv, ServerInv, WriterSendErr
  <2> QED BY <1>1, <1>2, <2>2, <2>3 DEF IInv
<1>5. CASE WriterExit(c)
  <2>1. TransportInv' /\ ServerInv'
    BY <1>5 DEF IInv, TransportInv, ServerInv, WriterExit, serverVars
  <2> QED BY <1>1, <1>2, <2>1 DEF IInv
<1> QED BY <1>3, <1>4, <1>5 DEF WriterStep

-----------------------------------------------------------------------------
\* Every step of the system keeps the invariant.
LEMMA NextIInv == IInv /\ [Next]_vars => IInv'
<1> SUFFICES ASSUME IInv, [Next]_vars PROVE IInv'
  OBVIOUS
<1>1. CASE UNCHANGED vars
  BY <1>1 DEF vars, transportVars, clientVars, serverVars, IInv, TransportInv,
     SessionInv, AllocInv, ListenerInv, InboxInv, TaskInv, ServerInv
<1>2. CASE Next
  <2> SUFFICES ASSUME NEW c \in Clients,
                      \/ User(c) \/ Network(c) \/ CallStep(c) \/ LoopStep(c)
                      \/ ReaderStep(c) \/ (\E n \in Calls : TaskStep(c, n))
                      \/ WriterStep(c)
               PROVE  IInv'
    BY <1>2 DEF Next
  <2>1. CASE User(c)
    BY <2>1, StartCallStep, CancelCallStep, CloseSessionStep DEF User
  <2>2. CASE Network(c)
    BY <2>2, LoseConnectionStep DEF Network
  <2>3. CASE CallStep(c)
    BY <2>3, FlushStep, FlushErrStep, ConsumeStep DEF CallStep
  <2>4. CASE LoopStep(c)
    BY <2>4, DeliverStep, DropStep DEF LoopStep
  <2>5. CASE ReaderStep(c)
    BY <2>5, ReadRequestStep DEF ReaderStep
  <2>6. CASE \E n \in Calls : TaskStep(c, n)
    BY <2>6, TaskStepIInv
  <2>7. CASE WriterStep(c)
    BY <2>7, WriterStepIInv
  <2> QED BY <2>1, <2>2, <2>3, <2>4, <2>5, <2>6, <2>7
<1> QED BY <1>1, <1>2

\* The invariant holds throughout.
LEMMA Invariance == SafeSpec => []IInv
BY InitIInv, NextIInv, PTL DEF SafeSpec

-----------------------------------------------------------------------------
(* The theorems.                                                           *)

\* The composed system keeps its types: in particular next_id, which send_msg
\* increments for every call, never leaves the ID space, and what the server
\* answers is always a message of the protocol.
THEOREM TypeCorrect == SafeSpec => []TypeOK
<1>1. ASSUME NEW S, NEW T, S \subseteq T PROVE Seq(S) \subseteq Seq(T)
  BY <1>1
<1>2. SentRequest \subseteq Request /\ SentReply \subseteq Reply
  BY DEF SentRequest, SentReply
<1>3. Seq(SentRequest) \subseteq Seq(Request) /\ Seq(SentReply) \subseteq Seq(Reply)
  BY <1>1, <1>2
<1>4. ASSUME IInv PROVE TypeOK
  <2>1. TransportTypeOK
    BY <1>3, <1>4 DEF IInv, TransportInv, TransportTypeOK
  <2>2. ClientTypeOK
    BY <1>3, <1>4 DEF IInv, SessionInv, AllocInv, ListenerInv, InboxInv, ClientTypeOK
  <2>3. ServerTypeOK
    BY <1>3, <1>4 DEF IInv, TaskInv, ServerInv, ServerTypeOK
  <2> QED BY <2>1, <2>2, <2>3 DEF TypeOK
<1> QED BY <1>4, Invariance, PTL

\* The inbox of the call in progress holds replies to that call only.
OnlyOwnReplies ==
    \A c \in Clients : \A i \in 1..Len(inbox[c]) : inbox[c][i].call = pending[c]

\* A client that makes no more calls than there are request IDs (handler.rs:155)
\* finds nothing but replies to the call in progress in its inbox, however many
\* of its earlier calls were cancelled with replies under way.
THEOREM RepliesMatch ==
    ASSUME NoWrap
    PROVE  SafeSpec => []OnlyOwnReplies
<1>1. ASSUME IInv PROVE OnlyOwnReplies
  BY <1>1 DEF IInv, InboxInv, OnlyOwnReplies
<1> QED BY <1>1, Invariance, PTL

=============================================================================
