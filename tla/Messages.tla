------------------------------ MODULE Messages ------------------------------
(***************************************************************************)
(* The AZPFS messages (protocol/messages.rs), reduced to what decides how  *)
(* they are routed: the type, the request ID and, for READ_RES, how much   *)
(* of the payload a chunk carries.                                         *)
(*                                                                         *)
(* A payload is abstracted to `call', the number of the FsBackend call the *)
(* message belongs to.  The program never sees that number: it goes by     *)
(* request_id alone, and the properties say whether that is enough.        *)
(***************************************************************************)
EXTENDS Integers

CONSTANTS
    IdSpace,  \* number of request IDs: 2^32 in the code
    MaxCalls, \* calls one client makes, the INIT handshake included
    MaxParts  \* largest number of READ_RES chunks of one reply

ASSUME MessageAssumption ==
    /\ IdSpace \in Nat \ {0}
    /\ MaxCalls \in Nat \ {0}
    /\ MaxParts \in Nat \ {0}

Ids == 0..(IdSpace - 1)
Calls == 0..(MaxCalls - 1)

\* Calls that wait for one reply carrying data: what each waits for.
DataReply ==
    [LookupReq  |-> "LookupRes",
     GetAttrReq |-> "FileAttrRes",
     StatsReq   |-> "StatsRes",
     CreateReq  |-> "LookupRes"]

\* Calls answered by READ_RES chunks.
ChunkedOps == {"ReadReq", "ReaddirReq"}

\* Calls answered by a bare SUCCESS_RES.
SuccessOps == {"SetAttrReq", "WriteReq", "RmReq", "MoveReq"}

RequestTypes == {"InitReq"} \cup DOMAIN DataReply \cup ChunkedOps \cup SuccessOps

\* The type of the message a call returns Ok on.
ReplyTo(type) ==
    CASE type = "InitReq"           -> "InitRes"
      [] type \in DOMAIN DataReply  -> DataReply[type]
      [] type \in ChunkedOps        -> "ReadRes"
      [] type \in SuccessOps        -> "SuccessRes"

ReplyTypes == {"Error", "InitRes", "LookupRes", "FileAttrRes", "StatsRes",
               "ReadRes", "SuccessRes"}

Request == [type : RequestTypes, request_id : Ids, call : Calls]

\* total and part are those of a READ_RES whose payload is `total' chunks
\* long, and 0 in every other message; accepted is that of an INIT_RES.
Reply == [type : ReplyTypes, request_id : Ids, call : Calls,
          total : 0..MaxParts, part : 0..MaxParts, accepted : BOOLEAN]

\* The amount of payload in a message, counted in chunks: an empty payload
\* travels as one chunk of no data.
DataLen(m) == IF m.part = 0 THEN 0 ELSE 1

=============================================================================
