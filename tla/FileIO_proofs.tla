---------------------------- MODULE FileIO_proofs ----------------------------
(***************************************************************************)
(* Whatever pieces writes leave behind and however they interleave with    *)
(* later calls, a file settles: its bytes and attributes are those of the  *)
(* last calls that set them, except where the model says they are in doubt, *)
(* and reads return them.                                                  *)
(*                                                                         *)
(* The inductive invariant compares the disk with the target, the file as  *)
(* it would be if the running call returned now: outside the bytes in      *)
(* doubt, the target is what becomes of the disk when every piece in the   *)
(* hands of a blocking thread is written.                                  *)
(***************************************************************************)
EXTENDS FileIO, SequenceTheorems, TLAPS

USE FileAssumption

Fields == {"size", "mtime", "permissions", "owner"}

\* What a request gives its fields.
RequestOK(req) ==
    /\ DOMAIN req \subseteq Fields
    /\ "size" \in DOMAIN req => req.size \in 0..MaxLen
    /\ "mtime" \in DOMAIN req => req.mtime \in Int
    /\ "permissions" \in DOMAIN req => req.permissions = 1
    /\ "owner" \in DOMAIN req => req.owner = 1

Content == {c \in Seq(Value) : Len(c) <= MaxLen}
ExpectedAttr == [mtime : Int, permissions : 0..1, owner : 0..1]

WriteCall == [op : {"write"}, id : 1..MaxCalls, from : 0..MaxLen, at : 0..MaxLen,
              rest : 0..MaxLen, len : 0..MaxLen, failed : BOOLEAN]

\* The running call.  A write hands its bytes over in order, and set_attr sets
\* the size first.
CallInv ==
    /\ call.op \in {None, "write", "set_attr", "create"}
    /\ call.op = "write" =>
         /\ call \in WriteCall
         /\ call.id <= calls
         /\ call.from <= call.at
         /\ call.at + call.rest = call.from + call.len
         /\ call.from + call.len <= MaxLen
    /\ Changing =>
         /\ call = [op |-> call.op, req |-> call.req, todo |-> call.todo]
         /\ RequestOK(call.req)
         /\ call.todo \subseteq DOMAIN call.req
         /\ "size" \in call.todo => call.todo = DOMAIN call.req

TypeInv ==
    /\ content \in Content
    /\ attr \in [mtime : Nat, permissions : 0..1, owner : 0..1]
    /\ tasks \subseteq Piece
    /\ \A t \in tasks : t.at + t.len <= MaxLen /\ t.id <= calls
    /\ calls \in 0..MaxCalls
    /\ reply \in {None, "Ok", "Err"}
    /\ expected.content \in Content
    /\ expected.attr \in ExpectedAttr
    /\ expected = [content |-> expected.content, attr |-> expected.attr]
    /\ raced \subseteq 1..MaxLen
    /\ late \in BOOLEAN

\* The bytes that a write has yet to hand over are in no piece, and a write
\* that has a piece in hand has handed over something.
WriteInv ==
    call.op = "write" =>
      /\ \A t \in tasks : \A p \in Bytes(call.at, call.rest) :
           p \in Bytes(t.at, t.len) => p \in raced
      /\ InHand(call.id) => call.from < call.at

\* The contents of the file if the running call returned now.
Target ==
    IF call.op = "write"
    THEN Written(expected.content, call.from, call.at - call.from, call.id)
    ELSE IF Changing THEN Changed(expected, Done).content ELSE expected.content

\* At p, c is what becomes of the disk when the pieces in hand are written.
Leads(c, p) ==
    /\ \A t \in tasks : p \in Bytes(t.at, t.len) => ByteOf(c, p) = t.id
    /\ (\A t \in tasks : p \notin Bytes(t.at, t.len)) =>
         ByteOf(c, p) = IF ByteOf(content, p) # -1 THEN ByteOf(content, p)
                        ELSE IF \E t \in tasks : p <= t.at THEN 0 ELSE -1

DataInv == \A p \in 1..MaxLen : p \in raced \/ Leads(Target, p)

\* mtime if the running call returned now.
TargetMtime ==
    IF call.op = "write"
    THEN IF call.from < call.at THEN Now ELSE expected.attr.mtime
    ELSE IF Changing THEN Changed(expected, Done).attr.mtime ELSE expected.attr.mtime

TargetOf(f) == IF Changing THEN Changed(expected, Done).attr[f] ELSE expected.attr[f]

AttrInv ==
    /\ \A f \in {"permissions", "owner"} : attr[f] = TargetOf(f)
    /\ SeenAs(TargetMtime, from_unix(to_unix(attr.mtime))) \/ late \/ tasks # {}

IInv == TypeInv /\ CallInv /\ WriteInv /\ DataInv /\ AttrInv

-----------------------------------------------------------------------------
(* Bytes of files.                                                         *)

LEMMA ByteOfContent ==
    ASSUME NEW c \in Content, NEW p \in 1..MaxLen
    PROVE  /\ ByteOf(c, p) \in Value \cup {-1}
           /\ ByteOf(c, p) # -1 <=> p <= Len(c)
           /\ p <= Len(c) => ByteOf(c, p) = c[p]
<1>1. Len(c) \in Nat /\ DOMAIN c = 1..Len(c) /\ \A k \in 1..Len(c) : c[k] \in Value
  BY DEF Content
<1> QED BY <1>1 DEF ByteOf, Value

\* What write(2) makes of the byte at p: bytes between the end of the file and
\* what is written are 0.
LEMMA WrittenBytes ==
    ASSUME NEW c \in Content, NEW at \in Nat, NEW len \in Nat, NEW v \in Value,
           at + len <= MaxLen
    PROVE  /\ Written(c, at, len, v) \in Content
           /\ \A p \in 1..MaxLen :
                ByteOf(Written(c, at, len, v), p) =
                  IF p \in Bytes(at, len) THEN v
                  ELSE IF ByteOf(c, p) # -1 THEN ByteOf(c, p)
                  ELSE IF len > 0 /\ p <= at THEN 0 ELSE -1
<1>0. Len(c) \in Nat /\ Len(c) <= MaxLen /\ \A k \in 1..Len(c) : c[k] \in Value
  BY DEF Content
<1>1. CASE len = 0
  <2>1. Written(c, at, len, v) = c
    BY <1>1 DEF Written
  <2>2. \A p \in 1..MaxLen : p \notin Bytes(at, len)
    BY <1>1 DEF Bytes
  <2> QED BY <1>1, <2>1, <2>2, ByteOfContent
<1>2. CASE len # 0
  <2> DEFINE n == Max2(Len(c), at + len)
             b(p) == CASE p \in Bytes(at, len)                     -> v
                       [] p \notin Bytes(at, len) /\ p <= Len(c) -> c[p]
                       [] p \notin Bytes(at, len) /\ p > Len(c)  -> 0
             w == [p \in 1..n |-> b(p)]
  <2>1. Written(c, at, len, v) = w
    BY <1>2 DEF Written
  <2>2. n \in Nat /\ n <= MaxLen /\ \A p \in 1..MaxLen : p <= n <=> p <= Len(c) \/ p <= at + len
    BY <1>0 DEF Max2
  <2>3. 0 \in Value
    BY DEF Value
  <2>4. \A p \in 1..n : b(p) \in Value
    BY <1>0, <2>2, <2>3
  <2> HIDE DEF n
  <2>5. w \in Seq(Value) /\ Len(w) = n
    BY <2>2, <2>4
  <2>6. w \in Content
    BY <2>2, <2>5 DEF Content
  <2>7. ASSUME NEW p \in 1..MaxLen
        PROVE  ByteOf(w, p) = IF p \in Bytes(at, len) THEN v
                              ELSE IF ByteOf(c, p) # -1 THEN ByteOf(c, p)
                              ELSE IF len > 0 /\ p <= at THEN 0 ELSE -1
    <3>1. ByteOf(w, p) = IF p <= n THEN b(p) ELSE -1
      BY <2>2 DEF ByteOf
    <3>2. p \in Bytes(at, len) <=> at < p /\ p <= at + len
      BY DEF Bytes
    <3>3. ByteOf(c, p) = IF p <= Len(c) THEN c[p] ELSE -1
      BY ByteOfContent
    <3>4. p <= Len(c) => c[p] # -1
      BY <1>0 DEF Value
    <3>5. b(p) = IF p \in Bytes(at, len) THEN v ELSE IF p <= Len(c) THEN c[p] ELSE 0
      BY <1>0
    <3> HIDE DEF b, w
    <3>6. p <= n <=> p <= Len(c) \/ p <= at + len
      BY <2>2
    <3>7. CASE p \in Bytes(at, len)
      BY <3>1, <3>2, <3>5, <3>6, <3>7
    <3>8. CASE p \notin Bytes(at, len) /\ p <= Len(c)
      BY <3>1, <3>3, <3>4, <3>5, <3>6, <3>8
    <3>9. CASE p \notin Bytes(at, len) /\ ~(p <= Len(c))
      BY <1>2, <3>1, <3>2, <3>3, <3>5, <3>6, <3>9
    <3> QED BY <3>7, <3>8, <3>9
  <2> QED BY <2>1, <2>6, <2>7
<1> QED BY <1>1, <1>2

LEMMA ResizedBytes ==
    ASSUME NEW c \in Content, NEW size \in 0..MaxLen
    PROVE  /\ Resized(c, size) \in Content
           /\ \A p \in 1..MaxLen :
                ByteOf(Resized(c, size), p) =
                  IF p > size THEN -1 ELSE IF ByteOf(c, p) # -1 THEN ByteOf(c, p) ELSE 0
<1>0. Len(c) \in Nat /\ Len(c) <= MaxLen /\ (\A k \in 1..Len(c) : c[k] \in Value) /\ 0 \in Value
  BY DEF Content, Value
<1> DEFINE r == [p \in 1..size |-> IF p <= Len(c) THEN c[p] ELSE 0]
<1>1. Resized(c, size) = r
  BY DEF Resized
<1>2. r \in Seq(Value) /\ Len(r) = size
  BY <1>0
<1>3. r \in Content
  BY <1>2 DEF Content
<1>4. ASSUME NEW p \in 1..MaxLen
      PROVE  ByteOf(r, p) = IF p > size THEN -1 ELSE IF ByteOf(c, p) # -1 THEN ByteOf(c, p) ELSE 0
  <2>1. ByteOf(r, p) = IF p <= size THEN r[p] ELSE -1
    BY DEF ByteOf
  <2> QED BY <1>0, <2>1, ByteOfContent
<1> QED BY <1>1, <1>3, <1>4

\* Two writes, of which the second begins where the first ends.
LEMMA WrittenTwice ==
    ASSUME NEW c \in Content, NEW from \in Nat, NEW k \in Nat, NEW n \in Nat, NEW v \in Value,
           n > 0, from + k + n <= MaxLen
    PROVE  \A p \in 1..MaxLen :
             LET e == ByteOf(Written(c, from, k, v), p) IN
             ByteOf(Written(c, from, k + n, v), p) =
               IF p \in Bytes(from + k, n) THEN v
               ELSE IF e # -1 THEN e ELSE IF p <= from + k THEN 0 ELSE -1
<1> SUFFICES ASSUME NEW p \in 1..MaxLen
             PROVE  LET e == ByteOf(Written(c, from, k, v), p) IN
                    ByteOf(Written(c, from, k + n, v), p) =
                      IF p \in Bytes(from + k, n) THEN v
                      ELSE IF e # -1 THEN e ELSE IF p <= from + k THEN 0 ELSE -1
  OBVIOUS
<1> DEFINE e == ByteOf(Written(c, from, k, v), p)
           f == ByteOf(Written(c, from, k + n, v), p)
           x == ByteOf(c, p)
<1>1. e = IF p \in Bytes(from, k) THEN v
          ELSE IF x # -1 THEN x ELSE IF k > 0 /\ p <= from THEN 0 ELSE -1
  BY WrittenBytes
<1>2. f = IF p \in Bytes(from, k + n) THEN v
          ELSE IF x # -1 THEN x ELSE IF k + n > 0 /\ p <= from THEN 0 ELSE -1
  BY WrittenBytes, k + n \in Nat, from + (k + n) <= MaxLen
<1>3. /\ p \in Bytes(from, k) <=> from < p /\ p <= from + k
      /\ p \in Bytes(from, k + n) <=> from < p /\ p <= from + k + n
      /\ p \in Bytes(from + k, n) <=> from + k < p /\ p <= from + k + n
  BY DEF Bytes
<1>4. v # -1
  BY DEF Value
<1> HIDE DEF e, f, x
<1> QED BY <1>1, <1>2, <1>3, <1>4 DEF e, f

-----------------------------------------------------------------------------
(* Calls begin.                                                            *)

\* What the disk stamps a file with is seen as that.
LEMMA NowSeen == SeenAs(Now, from_unix(to_unix(Now))) /\ Now \in Nat
<1>1. from_unix(to_unix(Now)) = 4
  BY DEF from_unix, to_unix, Now, Max2
<1> QED BY <1>1 DEF SeenAs, Now

LEMMA InitInv == Init => IInv
<1> SUFFICES ASSUME Init PROVE IInv
  OBVIOUS
<1> USE DEF Init
<1>1. <<>> \in Content
  BY DEF Content
<1>2. TypeInv
  <2>1. /\ attr \in [mtime : Nat, permissions : 0..1, owner : 0..1]
        /\ expected.attr = attr /\ attr \in ExpectedAttr
    BY DEF Now, ExpectedAttr
  <2>2. expected.content = <<>> /\ expected = [content |-> expected.content, attr |-> expected.attr]
    OBVIOUS
  <2>3. tasks = {} /\ calls \in 0..MaxCalls /\ reply \in {None, "Ok", "Err"}
    OBVIOUS
  <2> QED BY <1>1, <2>1, <2>2, <2>3 DEF TypeInv
<1>3. CallInv
  BY DEF CallInv, Changing, None
<1>4. WriteInv
  BY DEF WriteInv, None
<1>5. DataInv
  BY DEF DataInv, Target, Changing, None, Leads
<1>6. AttrInv
  BY NowSeen DEF AttrInv, TargetMtime, TargetOf, Changing, None
<1> QED BY <1>2, <1>3, <1>4, <1>5, <1>6 DEF IInv

LEMMA FailAtOpenInv == IInv /\ FailAtOpen => IInv'
<1> SUFFICES ASSUME IInv, FailAtOpen PROVE IInv'
  OBVIOUS
<1>1. /\ call.op = None /\ calls < MaxCalls /\ calls' = calls + 1 /\ reply' = "Err"
      /\ UNCHANGED <<content, attr, tasks, call, expected, raced, late>>
  BY DEF FailAtOpen, Idle, disk, history
<1>2. TypeInv'
  BY <1>1 DEF IInv, TypeInv, Piece
<1>3. CallInv'
  BY <1>1 DEF IInv, CallInv, None, Changing
<1>4. WriteInv'
  BY <1>1 DEF WriteInv, None
<1>5. DataInv'
  BY <1>1 DEF IInv, DataInv, Target, Leads, Changing, None
<1>6. AttrInv'
  BY <1>1 DEF IInv, AttrInv, TargetMtime, TargetOf, Changing, None
<1> QED BY <1>2, <1>3, <1>4, <1>5, <1>6 DEF IInv

\* The bytes of a write that other calls have in hand are in doubt from now on.
LEMMA WriteStartInv ==
    ASSUME IInv, NEW at \in 0..MaxLen, NEW len \in 0..MaxLen, Write(at, len)
    PROVE  IInv'
<1>1. /\ call.op = None /\ calls < MaxCalls /\ calls' = calls + 1 /\ at + len <= MaxLen
      /\ call' = [op |-> "write", id |-> calls + 1, from |-> at, at |-> at,
                  rest |-> len, len |-> len, failed |-> FALSE]
      /\ raced' = raced \cup {p \in Bytes(at, len) : \E t \in tasks : p \in Bytes(t.at, t.len)}
      /\ UNCHANGED <<content, attr, tasks, reply, expected, late>>
  BY DEF Write, Idle, disk
<1>2. calls \in Nat
  BY DEF IInv, TypeInv
<1>3. TypeInv'
  <2>1. raced' \subseteq 1..MaxLen
    BY <1>1 DEF IInv, TypeInv, Bytes
  <2>2. \A t \in tasks' : t.at + t.len <= MaxLen /\ t.id <= calls'
    BY <1>1 DEF IInv, TypeInv, Piece
  <2> QED BY <1>1, <2>1, <2>2 DEF IInv, TypeInv
<1>4. CallInv'
  <2>1. call' \in WriteCall
    BY <1>1 DEF IInv, TypeInv, WriteCall
  <2> QED BY <1>1, <1>2, <2>1 DEF CallInv, Changing
<1>5. WriteInv'
  <2>1. ~InHand(calls + 1)
    BY <1>2 DEF IInv, TypeInv, InHand, Piece
  <2> QED BY <1>1, <2>1 DEF WriteInv, InHand
<1>6. DataInv'
  <2>1. Target = expected.content
    BY <1>1 DEF Target, Changing, None
  <2>2. Target' = expected.content
    <3>1. call'.op = "write" /\ call'.at - call'.from = 0
      BY <1>1
    <3>2. Target' = Written(expected.content, call'.from, call'.at - call'.from, call'.id)
      BY <1>1, <3>1 DEF Target
    <3> QED BY <3>1, <3>2 DEF Written
  <2> QED BY <1>1, <2>1, <2>2 DEF IInv, DataInv, Leads
<1>7. AttrInv'
  BY <1>1 DEF IInv, AttrInv, TargetMtime, TargetOf, Changing, None
<1> QED BY <1>3, <1>4, <1>5, <1>6, <1>7 DEF IInv

LEMMA ChangeInv ==
    ASSUME IInv, NEW o \in {"set_attr", "create"}, NEW req, RequestOK(req), Change(o, req)
    PROVE  IInv'
<1>1. /\ call.op = None /\ calls < MaxCalls /\ calls' = calls + 1
      /\ call' = [op |-> o, req |-> req, todo |-> DOMAIN req]
      /\ UNCHANGED <<content, attr, tasks, reply, expected, raced, late>>
  BY DEF Change, Idle, disk, history
<1>2. TypeInv'
  BY <1>1 DEF IInv, TypeInv, Piece
<1>3. CallInv'
  BY <1>1 DEF CallInv, Changing
<1>4. WriteInv'
  BY <1>1 DEF WriteInv
<1>5. /\ Target = expected.content
      /\ TargetMtime = expected.attr.mtime
      /\ \A f : TargetOf(f) = expected.attr[f]
  BY <1>1 DEF Target, TargetMtime, TargetOf, Changing, None
<1>6. Changing' /\ DOMAIN Done' = {}
  BY <1>1 DEF Changing, Done
<1>7. /\ Target' = expected.content
      /\ TargetMtime' = expected.attr.mtime
      /\ \A f \in {"permissions", "owner"} : TargetOf(f)' = expected.attr[f]
  <2>1. Changed(expected, Done)'.content = expected.content
    BY <1>1, <1>6 DEF Changed
  <2>2. \A f \in DOMAIN expected.attr : Changed(expected, Done)'.attr[f] = expected.attr[f]
    BY <1>1, <1>6 DEF Changed
  <2>3. DOMAIN expected.attr = {"mtime", "permissions", "owner"}
    BY DEF IInv, TypeInv, ExpectedAttr
  <2>4. call'.op # "write"
    BY <1>1
  <2> QED BY <1>1, <1>6, <2>1, <2>2, <2>3, <2>4 DEF Target, TargetMtime, TargetOf
<1>8. DataInv'
  BY <1>1, <1>5, <1>7 DEF IInv, DataInv, Leads
<1>9. AttrInv'
  BY <1>1, <1>5, <1>7 DEF IInv, AttrInv
<1> QED BY <1>2, <1>3, <1>4, <1>8, <1>9 DEF IInv

-----------------------------------------------------------------------------
(* A write goes on.                                                        *)

\* A piece is handed over, and the target grows by it.
LEMMA WritePieceInv == IInv /\ WritePiece => IInv'
<1> SUFFICES ASSUME IInv, WritePiece PROVE IInv'
  OBVIOUS
<1> DEFINE n == Min2(call.rest, MaxBuf)
           new == [id |-> call.id, at |-> call.at, len |-> n]
<1>1. /\ call.op = "write" /\ call.rest > 0
      /\ tasks' = tasks \cup {new}
      /\ call' = [call EXCEPT !.at = @ + n, !.rest = @ - n]
      /\ UNCHANGED <<content, attr, calls, reply, expected, raced, late>>
  BY DEF WritePiece, disk, history
<1>2. /\ call \in WriteCall
      /\ call.id \in 1..MaxCalls /\ call.id <= calls
      /\ call.from \in Nat /\ call.at \in Nat /\ call.rest \in Nat /\ call.len \in Nat
      /\ call.from <= call.at
      /\ call.at + call.rest = call.from + call.len
      /\ call.from + call.len <= MaxLen
  BY <1>1 DEF IInv, CallInv, WriteCall
<1>3. n \in Nat /\ n > 0 /\ n <= call.rest /\ call.at + n <= MaxLen
  BY <1>1, <1>2 DEF Min2
<1> HIDE DEF n
<1>4. /\ call'.op = "write" /\ call'.id = call.id /\ call'.from = call.from /\ call'.len = call.len
      /\ call'.at = call.at + n /\ call'.rest = call.rest - n
      /\ call' \in WriteCall
  <2>1. call.at + n \in 0..MaxLen /\ call.rest - n \in 0..MaxLen
    BY <1>2, <1>3 DEF WriteCall
  <2>2. call' \in WriteCall
    BY <1>1, <1>2, <2>1 DEF WriteCall
  <2> QED BY <1>1, <1>2, <2>2 DEF WriteCall
<1>5. new \in Piece /\ new.id = call.id /\ new.at = call.at /\ new.len = n
  BY <1>2, <1>3 DEF Piece
<1> HIDE DEF new
<1>6. TypeInv'
  BY <1>1, <1>2, <1>3, <1>5 DEF IInv, TypeInv
<1>7. CallInv'
  BY <1>1, <1>2, <1>3, <1>4 DEF CallInv, Changing
<1>8. WriteInv'
  <2>1. \A p \in Bytes(call.at + n, call.rest - n) :
          p \in Bytes(call.at, call.rest) /\ p \notin Bytes(call.at, n)
    BY <1>2, <1>3 DEF Bytes
  <2>2. ASSUME NEW t \in tasks', NEW p \in Bytes(call.at + n, call.rest - n), p \in Bytes(t.at, t.len)
        PROVE  p \in raced
    BY <1>1, <1>5, <2>1, <2>2 DEF IInv, WriteInv
  <2>3. call'.from < call'.at
    BY <1>2, <1>3, <1>4
  <2> QED BY <1>1, <1>4, <2>2, <2>3 DEF WriteInv
<1>9. DataInv'
  <2> DEFINE k == call.at - call.from
  <2>1. /\ k \in Nat /\ call'.at - call'.from = k + n /\ call.from + k = call.at
        /\ call.from + k + n <= MaxLen
    BY <1>2, <1>3, <1>4
  <2>2. Target = Written(expected.content, call.from, k, call.id)
    BY <1>1 DEF Target
  <2>3. Target' = Written(expected.content, call.from, k + n, call.id)
    BY <1>1, <1>4, <2>1 DEF Target
  <2>4. expected.content \in Content /\ call.id \in Value /\ call.id # -1
    BY <1>2 DEF IInv, TypeInv, Value
  <2> HIDE DEF k
  <2>5. ASSUME NEW p \in 1..MaxLen
        PROVE  ByteOf(Target', p) =
                 IF p \in Bytes(call.at, n) THEN call.id
                 ELSE IF ByteOf(Target, p) # -1 THEN ByteOf(Target, p)
                 ELSE IF p <= call.at THEN 0 ELSE -1
    <3>1. ByteOf(Written(expected.content, call.from, k + n, call.id), p) =
            IF p \in Bytes(call.from + k, n) THEN call.id
            ELSE IF ByteOf(Written(expected.content, call.from, k, call.id), p) # -1
                 THEN ByteOf(Written(expected.content, call.from, k, call.id), p)
                 ELSE IF p <= call.from + k THEN 0 ELSE -1
      BY <1>2, <1>3, <2>1, <2>4, WrittenTwice, SMTT(30)
    <3> QED BY <2>1, <2>2, <2>3, <3>1
  <2>6. ASSUME NEW p \in 1..MaxLen, p \notin raced
        PROVE  Leads(Target, p)'
    <3>1. Leads(Target, p)
      BY <2>6 DEF IInv, DataInv
    <3>2. ASSUME NEW t \in tasks, p \in Bytes(t.at, t.len)
          PROVE  p \notin Bytes(call.at, n) /\ t.id # -1
      <4>1. \A q \in Bytes(call.at, n) : q \in Bytes(call.at, call.rest)
        BY <1>2, <1>3 DEF Bytes
      <4>2. t.id # -1
        BY DEF IInv, TypeInv, Piece
      <4> QED BY <1>1, <2>6, <3>2, <4>1, <4>2 DEF IInv, WriteInv
    <3>3. \A t \in tasks' : p \in Bytes(t.at, t.len) => ByteOf(Target', p) = t.id
      BY <1>1, <1>5, <2>5, <3>1, <3>2 DEF Leads
    <3>4. ASSUME \A t \in tasks' : p \notin Bytes(t.at, t.len)
          PROVE  ByteOf(Target', p) = IF ByteOf(content, p) # -1 THEN ByteOf(content, p)
                                      ELSE IF \E t \in tasks' : p <= t.at THEN 0 ELSE -1
      <4>1. ByteOf(Target, p) = IF ByteOf(content, p) # -1 THEN ByteOf(content, p)
                                ELSE IF \E t \in tasks : p <= t.at THEN 0 ELSE -1
        BY <1>1, <3>1, <3>4 DEF Leads
      <4>2. p \notin Bytes(call.at, n)
        BY <1>1, <1>5, <3>4
      <4>3. (\E t \in tasks' : p <= t.at) <=> (\E t \in tasks : p <= t.at) \/ p <= call.at
        BY <1>1, <1>5
      <4> QED BY <2>5, <4>1, <4>2, <4>3
    <3> QED BY <1>1, <3>3, <3>4 DEF Leads
  <2> QED BY <1>1, <2>6 DEF DataInv
<1>10. AttrInv'
  <2>1. tasks' # {}
    BY <1>1
  <2>2. ~Changing /\ ~Changing'
    BY <1>1, <1>4 DEF Changing
  <2> QED BY <1>1, <2>1, <2>2 DEF IInv, AttrInv, TargetOf
<1> QED BY <1>6, <1>7, <1>8, <1>9, <1>10 DEF IInv

\* The target is what is expected from now on.
LEMMA WriteReturnInv == IInv /\ WriteReturn => IInv'
<1> SUFFICES ASSUME IInv, WriteReturn PROVE IInv'
  OBVIOUS
<1>1. /\ call.op = "write" /\ call.rest = 0
      /\ call' = [op |-> None] /\ reply' = "Ok"
      /\ expected' = [content |-> Written(expected.content, call.from, call.len, call.id),
                      attr |-> IF call.len = 0 THEN expected.attr
                               ELSE [expected.attr EXCEPT !.mtime = Now]]
      /\ UNCHANGED <<content, attr, tasks, calls, raced, late>>
  BY DEF WriteReturn, Return, disk
<1>2. /\ call.id \in Value
      /\ call.from \in Nat /\ call.at \in Nat /\ call.len \in Nat
      /\ call.at - call.from = call.len
      /\ call.from + call.len <= MaxLen
  BY <1>1 DEF IInv, CallInv, WriteCall, Value
<1>3. expected'.content = Target
  BY <1>1, <1>2 DEF Target
<1>4. expected'.content \in Content
  BY <1>1, <1>2, WrittenBytes DEF IInv, TypeInv
<1>5. /\ expected'.attr \in ExpectedAttr
      /\ expected'.attr.permissions = expected.attr.permissions
      /\ expected'.attr.owner = expected.attr.owner
      /\ expected'.attr.mtime = IF call.len = 0 THEN expected.attr.mtime ELSE Now
  BY <1>1, NowSeen DEF IInv, TypeInv, ExpectedAttr
<1>6. expected' = [content |-> expected'.content, attr |-> expected'.attr]
  BY <1>1
<1>7. call'.op = None /\ ~Changing /\ ~Changing'
  BY <1>1 DEF Changing, None
<1>8. TypeInv'
  BY <1>1, <1>4, <1>5, <1>6 DEF IInv, TypeInv
<1>9. CallInv' /\ WriteInv'
  BY <1>7 DEF CallInv, WriteInv, None
<1>10. DataInv'
  <2>1. Target' = Target
    BY <1>3, <1>7 DEF Target, None
  <2> QED BY <1>1, <2>1 DEF IInv, DataInv, Leads
<1>11. AttrInv'
  <2>1. TargetMtime' = TargetMtime
    BY <1>1, <1>2, <1>5, <1>7 DEF TargetMtime, None
  <2> QED BY <1>1, <1>5, <1>7, <2>1 DEF IInv, AttrInv, TargetOf
<1> QED BY <1>8, <1>9, <1>10, <1>11 DEF IInv

\* What the failed write has touched is in doubt.
LEMMA WriteFailInv == IInv /\ WriteFail => IInv'
<1> SUFFICES ASSUME IInv, WriteFail PROVE IInv'
  OBVIOUS
<1> DEFINE first == 1 + Min2(call.from, Len(expected.content))
<1>1. /\ call.op = "write"
      /\ call' = [op |-> None] /\ reply' = "Err"
      /\ raced' = raced \cup first..(call.from + call.len)
      /\ late' = TRUE
      /\ UNCHANGED <<content, attr, tasks, calls, expected>>
  BY DEF WriteFail, Return, disk
<1>2. /\ call.id \in Value /\ call.from \in Nat /\ call.at \in Nat /\ call.len \in Nat
      /\ call.from <= call.at /\ call.at <= call.from + call.len
      /\ call.from + call.len <= MaxLen
  BY <1>1 DEF IInv, CallInv, WriteCall, Value
<1>3. expected.content \in Content /\ Len(expected.content) \in Nat
  BY DEF IInv, TypeInv, Content
<1>4. first \in Nat /\ first >= 1
  BY <1>2, <1>3 DEF Min2
<1>5. call'.op = None /\ ~Changing /\ ~Changing'
  BY <1>1 DEF Changing, None
<1>6. TypeInv'
  BY <1>1, <1>2, <1>4, SMTT(30) DEF IInv, TypeInv
<1>7. CallInv' /\ WriteInv'
  BY <1>5 DEF CallInv, WriteInv, None
<1>8. DataInv'
  <2>1. Target' = expected.content
    BY <1>1, <1>5 DEF Target, None
  <2>2. ASSUME NEW p \in 1..MaxLen, p \notin raced'
        PROVE  ByteOf(Target, p) = ByteOf(expected.content, p)
    <3> DEFINE k == call.at - call.from
    <3>1. Target = Written(expected.content, call.from, k, call.id)
      BY <1>1 DEF Target
    <3>2. k \in Nat /\ call.from + k <= MaxLen /\ call.from + k <= call.from + call.len
      BY <1>2
    <3> HIDE DEF k
    <3>3. ByteOf(Target, p) = IF p \in Bytes(call.from, k) THEN call.id
            ELSE IF ByteOf(expected.content, p) # -1 THEN ByteOf(expected.content, p)
            ELSE IF k > 0 /\ p <= call.from THEN 0 ELSE -1
      BY <1>2, <1>3, <3>1, <3>2, WrittenBytes, SMTT(30)
    <3>4. p < first \/ p > call.from + call.len
      BY <1>1, <1>2, <1>4, <2>2
    <3>5. p \notin Bytes(call.from, k)
      BY <1>2, <1>3, <3>2, <3>4 DEF Bytes, Min2
    <3>6. ByteOf(expected.content, p) # -1 \/ p > call.from
      BY <1>2, <1>3, <3>4, ByteOfContent DEF Min2
    <3> QED BY <1>2, <3>3, <3>5, <3>6
  <2>3. ASSUME NEW p \in 1..MaxLen, p \notin raced'
        PROVE  Leads(Target, p)'
    <3>1. Leads(Target, p)
      BY <1>1, <2>3 DEF IInv, DataInv
    <3> QED BY <1>1, <2>1, <2>2, <2>3, <3>1 DEF Leads
  <2> QED BY <2>3 DEF DataInv
<1>9. AttrInv'
  BY <1>1, <1>5 DEF IInv, AttrInv, TargetOf
<1> QED BY <1>6, <1>7, <1>8, <1>9 DEF IInv

-----------------------------------------------------------------------------
(* A blocking thread.                                                      *)

\* The piece gets where the target has it already.
LEMMA PerformInv ==
    ASSUME IInv, NEW t \in tasks, Perform(t)
    PROVE  IInv'
<1>1. /\ content' = Written(content, t.at, t.len, t.id)
      /\ attr' = [attr EXCEPT !.mtime = Now]
      /\ tasks' = tasks \ {t}
      /\ late' = (late \/ call.op # "write" \/ t.id # call.id)
      /\ UNCHANGED <<calls, call, reply, expected, raced>>
  BY DEF Perform
<1>2. /\ t.at \in Nat /\ t.len \in Nat /\ t.len > 0 /\ t.id \in Value /\ t.id # -1
      /\ t.at + t.len <= MaxLen /\ content \in Content
  BY DEF IInv, TypeInv, Piece, Value
<1>3. /\ content' \in Content
      /\ \A p \in 1..MaxLen :
           ByteOf(content', p) = IF p \in Bytes(t.at, t.len) THEN t.id
                                 ELSE IF ByteOf(content, p) # -1 THEN ByteOf(content, p)
                                 ELSE IF p <= t.at THEN 0 ELSE -1
  BY <1>1, <1>2, WrittenBytes
<1>4. /\ attr' \in [mtime : Nat, permissions : 0..1, owner : 0..1]
      /\ attr'.mtime = Now /\ attr'.permissions = attr.permissions /\ attr'.owner = attr.owner
  BY <1>1, NowSeen DEF IInv, TypeInv
<1>5. TypeInv'
  BY <1>1, <1>3, <1>4 DEF IInv, TypeInv
<1>6. Target' = Target /\ TargetMtime' = TargetMtime /\ \A f : TargetOf(f)' = TargetOf(f)
  BY <1>1 DEF Target, TargetMtime, TargetOf, Changing, Changed, Done
<1>7. CallInv'
  BY <1>1 DEF IInv, CallInv, Changing
<1>8. WriteInv'
  BY <1>1 DEF IInv, WriteInv, InHand
<1>9. DataInv'
  <2>1. ASSUME NEW p \in 1..MaxLen, p \notin raced
        PROVE  Leads(Target, p)'
    <3>1. Leads(Target, p)
      BY <2>1 DEF IInv, DataInv
    <3>2. \A u \in tasks' : p \in Bytes(u.at, u.len) => ByteOf(Target, p) = u.id
      BY <1>1, <3>1 DEF Leads
    <3>3. ASSUME \A u \in tasks' : p \notin Bytes(u.at, u.len)
          PROVE  ByteOf(Target, p) = IF ByteOf(content', p) # -1 THEN ByteOf(content', p)
                                     ELSE IF \E u \in tasks' : p <= u.at THEN 0 ELSE -1
      <4>1. CASE p \in Bytes(t.at, t.len)
        BY <1>2, <1>3, <3>1, <4>1 DEF Leads
      <4>2. CASE p \notin Bytes(t.at, t.len)
        <5>1. ByteOf(Target, p) = IF ByteOf(content, p) # -1 THEN ByteOf(content, p)
                                  ELSE IF \E u \in tasks : p <= u.at THEN 0 ELSE -1
          BY <1>1, <3>1, <3>3, <4>2 DEF Leads
        <5>2. ByteOf(content', p) = IF ByteOf(content, p) # -1 THEN ByteOf(content, p)
                                    ELSE IF p <= t.at THEN 0 ELSE -1
          BY <1>3, <4>2
        <5>3. (\E u \in tasks : p <= u.at) <=> p <= t.at \/ \E u \in tasks' : p <= u.at
          BY <1>1
        <5> QED BY <5>1, <5>2, <5>3
      <4> QED BY <4>1, <4>2
    <3> QED BY <1>6, <3>2, <3>3 DEF Leads
  <2> QED BY <1>1, <2>1 DEF DataInv
<1>10. AttrInv'
  <2>1. CASE call.op = "write" /\ t.id = call.id
    <3>1. TargetMtime = Now
      BY <2>1 DEF IInv, WriteInv, InHand, TargetMtime
    <3> QED BY <1>4, <1>6, <3>1, NowSeen DEF IInv, AttrInv
  <2>2. CASE ~(call.op = "write" /\ t.id = call.id)
    <3>1. late' = TRUE
      BY <1>1, <2>2
    <3> QED BY <1>4, <1>6, <3>1 DEF IInv, AttrInv
  <2> QED BY <2>1, <2>2
<1> QED BY <1>5, <1>7, <1>8, <1>9, <1>10 DEF IInv

\* A piece that fails, half written or not at all, leaves its bytes in doubt.
LEMMA PerformFailsInv ==
    ASSUME IInv, NEW t \in tasks, PerformFails(t)
    PROVE  IInv'
<1>0. PICK n \in 0..(t.len - 1) : content' = Written(content, t.at, n, t.id)
  BY DEF PerformFails
<1>1. /\ attr' \in {attr, [attr EXCEPT !.mtime = Now]}
      /\ tasks' = tasks \ {t}
      /\ call' = IF call.op = "write" /\ t.id = call.id
                 THEN [call EXCEPT !.failed = TRUE] ELSE call
      /\ raced' = raced \cup Covered(content, t)
      /\ late' = TRUE
      /\ UNCHANGED <<calls, reply, expected>>
  BY DEF PerformFails
<1>2. /\ t.at \in Nat /\ t.len \in Nat /\ t.id \in Value /\ t.id # -1
      /\ t.at + t.len <= MaxLen /\ content \in Content /\ Len(content) \in Nat
      /\ n \in Nat /\ n < t.len
  BY DEF IInv, TypeInv, Piece, Value, Content
<1>3. /\ content' \in Content
      /\ \A p \in 1..MaxLen :
           ByteOf(content', p) = IF p \in Bytes(t.at, n) THEN t.id
                                 ELSE IF ByteOf(content, p) # -1 THEN ByteOf(content, p)
                                 ELSE IF n > 0 /\ p <= t.at THEN 0 ELSE -1
  <2>1. t.at + n <= MaxLen
    BY <1>2
  <2>2. content \in Content /\ t.at \in Nat /\ n \in Nat /\ t.id \in Value
    BY <1>2
  <2>3. Written(content, t.at, n, t.id) \in Content
    BY <2>1, <2>2, WrittenBytes
  <2>4. ASSUME NEW p \in 1..MaxLen
        PROVE  ByteOf(Written(content, t.at, n, t.id), p) =
                 IF p \in Bytes(t.at, n) THEN t.id
                 ELSE IF ByteOf(content, p) # -1 THEN ByteOf(content, p)
                 ELSE IF n > 0 /\ p <= t.at THEN 0 ELSE -1
    BY <2>1, <2>2, WrittenBytes
  <2> QED BY <1>0, <2>3, <2>4
<1>4. /\ attr' \in [mtime : Nat, permissions : 0..1, owner : 0..1]
      /\ attr'.permissions = attr.permissions /\ attr'.owner = attr.owner
  BY <1>1, NowSeen DEF IInv, TypeInv
<1>5. Covered(content, t) \subseteq 1..MaxLen
  BY <1>2 DEF Covered, Bytes
<1>6. TypeInv'
  BY <1>1, <1>3, <1>4, <1>5 DEF IInv, TypeInv
<1>7. /\ call'.op = call.op
      /\ Changing => call' = call
      /\ call.op = "write" =>
           /\ call' \in WriteCall
           /\ call'.id = call.id /\ call'.from = call.from /\ call'.at = call.at
           /\ call'.rest = call.rest /\ call'.len = call.len
  <2>1. CASE call.op = "write"
    <3>1. call \in WriteCall
      BY <2>1 DEF IInv, CallInv
    <3> QED BY <1>1, <2>1, <3>1 DEF WriteCall, Changing
  <2>2. CASE call.op # "write"
    BY <1>1, <2>2
  <2> QED BY <2>1, <2>2
<1>8. Target' = Target /\ TargetMtime' = TargetMtime /\ \A f : TargetOf(f)' = TargetOf(f)
  <2>1. CASE call.op = "write"
    BY <1>1, <1>7, <2>1 DEF Target, TargetMtime, TargetOf, Changing
  <2>2. CASE call.op # "write"
    <3>1. call' = call /\ expected' = expected
      BY <1>1, <2>2
    <3> QED BY <3>1 DEF Target, TargetMtime, TargetOf, Changing, Changed, Done
  <2> QED BY <2>1, <2>2
<1>9. CallInv'
  BY <1>1, <1>7 DEF IInv, CallInv, Changing
<1>10. WriteInv'
  BY <1>1, <1>7 DEF IInv, WriteInv, InHand
<1>11. DataInv'
  <2>1. ASSUME NEW p \in 1..MaxLen, p \notin raced'
        PROVE  Leads(Target, p)'
    <3>1. Leads(Target, p)
      BY <1>1, <2>1 DEF IInv, DataInv
    <3>2. /\ p \notin Bytes(t.at, t.len) /\ p \notin Bytes(t.at, n)
          /\ p <= Len(content) \/ p > t.at + t.len
      BY <1>1, <1>2, <2>1, SMTT(30) DEF Covered, Bytes
    <3>3. ByteOf(content', p) = ByteOf(content, p)
      BY <1>2, <1>3, <3>2, ByteOfContent
    <3>4. ByteOf(content, p) # -1 \/ p > t.at
      BY <1>2, <3>2, ByteOfContent
    <3>5. \A u \in tasks' : p \in Bytes(u.at, u.len) => ByteOf(Target, p) = u.id
      BY <1>1, <3>1 DEF Leads
    <3>6. ASSUME \A u \in tasks' : p \notin Bytes(u.at, u.len)
          PROVE  ByteOf(Target, p) = IF ByteOf(content', p) # -1 THEN ByteOf(content', p)
                                     ELSE IF \E u \in tasks' : p <= u.at THEN 0 ELSE -1
      <4>1. ByteOf(Target, p) = IF ByteOf(content, p) # -1 THEN ByteOf(content, p)
                                ELSE IF \E u \in tasks : p <= u.at THEN 0 ELSE -1
        BY <1>1, <3>1, <3>2, <3>6 DEF Leads
      <4>2. (\E u \in tasks : p <= u.at) <=> p <= t.at \/ \E u \in tasks' : p <= u.at
        BY <1>1
      <4>3. p > t.at => ~(p <= t.at)
        BY <1>2
      <4> QED BY <3>3, <3>4, <4>1, <4>2, <4>3
    <3> QED BY <1>8, <3>5, <3>6 DEF Leads
  <2> QED BY <2>1 DEF DataInv
<1>12. AttrInv'
  BY <1>1, <1>4, <1>8 DEF IInv, AttrInv
<1> QED BY <1>6, <1>9, <1>10, <1>11, <1>12 DEF IInv

-----------------------------------------------------------------------------
(* set_attr and create_file go on.                                         *)

\* What a request, or the part of it that has been applied, makes of a file.
LEMMA ChangedProperties ==
    ASSUME NEW e, e.content \in Content, e.attr \in ExpectedAttr, NEW req, RequestOK(req)
    PROVE  LET c == Changed(e, req) IN
           /\ c = [content |-> c.content, attr |-> c.attr]
           /\ c.content = IF "size" \in DOMAIN req THEN Resized(e.content, req.size) ELSE e.content
           /\ c.content \in Content
           /\ c.attr \in ExpectedAttr
           /\ c.attr.mtime = IF "mtime" \in DOMAIN req THEN req.mtime
                             ELSE IF "size" \in DOMAIN req THEN Now ELSE e.attr.mtime
           /\ \A f \in {"permissions", "owner"} :
                c.attr[f] = IF f \in DOMAIN req THEN req[f] ELSE e.attr[f]
<1> DEFINE c == Changed(e, req)
<1>1. DOMAIN e.attr = {"mtime", "permissions", "owner"}
  BY DEF ExpectedAttr
<1>2. c = [content |-> c.content, attr |-> c.attr]
  BY DEF Changed
<1>3. c.content = IF "size" \in DOMAIN req THEN Resized(e.content, req.size) ELSE e.content
  BY DEF Changed
<1>4. c.content \in Content
  BY <1>3, ResizedBytes DEF RequestOK
<1>5. /\ c.attr.mtime = IF "mtime" \in DOMAIN req THEN req.mtime
                        ELSE IF "size" \in DOMAIN req THEN Now ELSE e.attr.mtime
      /\ \A f \in {"permissions", "owner"} :
           c.attr[f] = IF f \in DOMAIN req THEN req[f] ELSE e.attr[f]
  BY <1>1 DEF Changed
<1>6. c.attr \in ExpectedAttr
  <2>1. c.attr = [f \in {"mtime", "permissions", "owner"} |-> c.attr[f]]
    BY <1>1 DEF Changed
  <2>2. e.attr.mtime \in Int /\ e.attr.permissions \in 0..1 /\ e.attr.owner \in 0..1
    BY DEF ExpectedAttr
  <2>3. c.attr.mtime \in Int /\ c.attr.permissions \in 0..1 /\ c.attr.owner \in 0..1
    BY <1>5, <2>2 DEF RequestOK, Now
  <2> HIDE DEF c
  <2> QED BY <2>1, <2>3 DEF ExpectedAttr
<1> QED BY <1>2, <1>3, <1>4, <1>5, <1>6

LEMMA DoneProperties ==
    ASSUME IInv, Changing
    PROVE  /\ RequestOK(Done)
           /\ DOMAIN Done = DOMAIN call.req \ call.todo
           /\ \A f \in DOMAIN Done : Done[f] = call.req[f]
<1>1. DOMAIN Done = DOMAIN call.req \ call.todo /\ \A f \in DOMAIN Done : Done[f] = call.req[f]
  BY DEF Done
<1>2. RequestOK(call.req)
  BY DEF IInv, CallInv
<1> HIDE DEF Done
<1> QED BY <1>1, <1>2 DEF RequestOK

LEMMA SetAttrEndsInv == IInv /\ (SetAttrReturn \/ SetAttrFail) => IInv'
<1> SUFFICES ASSUME IInv, SetAttrReturn \/ SetAttrFail PROVE IInv'
  OBVIOUS
<1>1. /\ Changing
      /\ call' = [op |-> None] /\ reply' \in {"Ok", "Err"}
      /\ expected' = Changed(expected, Done)
      /\ UNCHANGED <<content, attr, tasks, calls, raced, late>>
  BY DEF SetAttrReturn, SetAttrFail, Return, disk
<1>2. expected.content \in Content /\ expected.attr \in ExpectedAttr
  BY DEF IInv, TypeInv
<1>3. /\ expected' = [content |-> expected'.content, attr |-> expected'.attr]
      /\ expected'.content \in Content
      /\ expected'.attr \in ExpectedAttr
  <2>1. RequestOK(Done)
    BY <1>1, DoneProperties
  <2> DEFINE c == Changed(expected, Done)
  <2>2. c = [content |-> c.content, attr |-> c.attr] /\ c.content \in Content /\ c.attr \in ExpectedAttr
    BY <1>2, <2>1, ChangedProperties
  <2> HIDE DEF c
  <2> QED BY <1>1, <2>2 DEF c
<1>4. call'.op = None /\ ~Changing' /\ call.op # "write"
  BY <1>1 DEF Changing, None
<1>5. TypeInv'
  BY <1>1, <1>3 DEF IInv, TypeInv
<1>6. CallInv' /\ WriteInv'
  BY <1>4 DEF CallInv, WriteInv, None
<1>7. Target' = Target /\ TargetMtime' = TargetMtime /\ \A f : TargetOf(f)' = TargetOf(f)
  BY <1>1, <1>4 DEF Target, TargetMtime, TargetOf, None
<1>8. DataInv'
  BY <1>1, <1>7 DEF IInv, DataInv, Leads
<1>9. AttrInv'
  BY <1>1, <1>7 DEF IInv, AttrInv
<1> QED BY <1>5, <1>6, <1>8, <1>9 DEF IInv

\* A time that set_attr is given, cut to seconds on the way, is seen as itself.
LEMMA TimeSeen ==
    ASSUME NEW v \in Int
    PROVE  /\ from_unix(to_unix(v)) \in Nat
           /\ SeenAs(v, from_unix(to_unix(from_unix(to_unix(v)))))
<1> DEFINE s == to_unix(v)
<1>1. s \in Nat /\ (v < 0 => s = 0) /\ (v >= 0 => s = v \div 2)
  BY DEF to_unix, Max2
<1> HIDE DEF s
<1>2. from_unix(s) = 2 * s /\ (2 * s) \div 2 = s
  BY <1>1 DEF from_unix
<1>3. to_unix(from_unix(s)) = s
  BY <1>1, <1>2 DEF to_unix, Max2
<1>4. v >= 0 => 2 * s \in (v - 1)..v
  BY <1>1
<1>5. (2 * s) % 2 = 0
  BY <1>1
<1>6. SeenAs(v, from_unix(to_unix(from_unix(s))))
  BY <1>1, <1>2, <1>3, <1>4, <1>5 DEF SeenAs
<1> QED BY <1>1, <1>2, <1>6 DEF s

LEMMA SetFieldInv == IInv /\ SetField => IInv'
<1> SUFFICES ASSUME IInv, SetField PROVE IInv'
  OBVIOUS
<1>0. PICK f \in call.todo :
        /\ \A g \in call.todo : SetAttrOrder[f] <= SetAttrOrder[g]
        /\ IF f = "size"
           THEN /\ content' = Resized(content, call.req.size)
                /\ attr' = [attr EXCEPT !.mtime = Now]
                /\ raced' = raced \cup UNION {(call.req.size + 1)..(t.at + t.len) : t \in tasks}
           ELSE /\ attr' = [attr EXCEPT ![f] = OnDisk(f, call.req[f])]
                /\ UNCHANGED <<content, raced>>
        /\ late' = (late /\ f \notin {"size", "mtime"})
        /\ call' = [call EXCEPT !.todo = @ \ {f}]
  BY DEF SetField
<1>1. Changing /\ UNCHANGED <<tasks, calls, reply, expected>>
  BY DEF SetField
<1>2. /\ call = [op |-> call.op, req |-> call.req, todo |-> call.todo]
      /\ RequestOK(call.req) /\ call.todo \subseteq DOMAIN call.req
      /\ "size" \in call.todo => call.todo = DOMAIN call.req
  BY <1>1 DEF IInv, CallInv
<1>3. /\ call'.op = call.op /\ call'.req = call.req /\ call'.todo = call.todo \ {f}
      /\ call' = [op |-> call'.op, req |-> call'.req, todo |-> call'.todo]
  BY <1>0, <1>2
<1>4. Changing' /\ call.op # "write" /\ call'.op # "write"
  BY <1>1, <1>3 DEF Changing
<1>5. "size" \notin call'.todo
  <2>1. \A g \in Fields : SetAttrOrder[g] <= 1 => g = "size"
    BY DEF Fields, SetAttrOrder
  <2>2. SetAttrOrder["size"] = 1 /\ f \in Fields
    BY <1>2 DEF SetAttrOrder, RequestOK
  <2> QED BY <1>0, <1>3, <2>1, <2>2
<1>6. CallInv' /\ WriteInv'
  <2>1. CallInv'
    BY <1>1, <1>2, <1>3, <1>4, <1>5 DEF IInv, CallInv, Changing
  <2> QED BY <1>4, <2>1 DEF WriteInv
<1> DEFINE d == Done
           e == Done'
<1>7. /\ RequestOK(d) /\ DOMAIN d = DOMAIN call.req \ call.todo
      /\ \A g \in DOMAIN d : d[g] = call.req[g]
  BY <1>1, DoneProperties
<1>8. /\ DOMAIN e = DOMAIN d \cup {f}
      /\ \A g \in DOMAIN e : e[g] = call.req[g]
  BY <1>2, <1>3 DEF Done
<1>9. Changed(expected, Done)' = Changed(expected, e)
  BY <1>1 DEF Changed
<1> HIDE DEF d, e
<1>10. RequestOK(e)
  BY <1>2, <1>7, <1>8 DEF RequestOK
<1>11. expected.content \in Content /\ expected.attr \in ExpectedAttr
  BY DEF IInv, TypeInv
<1>12. /\ Target = IF "size" \in DOMAIN d THEN Resized(expected.content, d.size) ELSE expected.content
       /\ TargetMtime = IF "mtime" \in DOMAIN d THEN d.mtime
                        ELSE IF "size" \in DOMAIN d THEN Now ELSE expected.attr.mtime
       /\ \A g \in {"permissions", "owner"} :
            TargetOf(g) = IF g \in DOMAIN d THEN d[g] ELSE expected.attr[g]
  <2>1. /\ Target = Changed(expected, d).content
        /\ TargetMtime = Changed(expected, d).attr.mtime
        /\ \A g : TargetOf(g) = Changed(expected, d).attr[g]
    BY <1>1, <1>4 DEF Target, TargetMtime, TargetOf, d
  <2> QED BY <1>7, <1>11, <2>1, ChangedProperties
<1>13. /\ Target' = IF "size" \in DOMAIN e THEN Resized(expected.content, e.size) ELSE expected.content
       /\ TargetMtime' = IF "mtime" \in DOMAIN e THEN e.mtime
                         ELSE IF "size" \in DOMAIN e THEN Now ELSE expected.attr.mtime
       /\ \A g \in {"permissions", "owner"} :
            TargetOf(g)' = IF g \in DOMAIN e THEN e[g] ELSE expected.attr[g]
  <2>1. /\ Target' = Changed(expected, e).content
        /\ TargetMtime' = Changed(expected, e).attr.mtime
        /\ \A g : TargetOf(g)' = Changed(expected, e).attr[g]
    BY <1>4, <1>9 DEF Target, TargetMtime, TargetOf
  <2> QED BY <1>10, <1>11, <2>1, ChangedProperties
<1>14. CASE f = "size"
  <2> DEFINE size == call.req.size
  <2>1. size \in 0..MaxLen /\ DOMAIN d = {} /\ DOMAIN e = {"size"} /\ e.size = size
    BY <1>2, <1>7, <1>8, <1>14 DEF RequestOK
  <2>2. /\ content' = Resized(content, size)
        /\ attr' = [attr EXCEPT !.mtime = Now]
        /\ raced' = raced \cup UNION {(size + 1)..(t.at + t.len) : t \in tasks}
    BY <1>0, <1>14
  <2> HIDE DEF size
  <2>3. /\ content \in Content /\ content' \in Content
        /\ \A p \in 1..MaxLen :
             ByteOf(content', p) =
               IF p > size THEN -1 ELSE IF ByteOf(content, p) # -1 THEN ByteOf(content, p) ELSE 0
    <3>1. content \in Content
      BY DEF IInv, TypeInv
    <3> QED BY <2>1, <2>2, <3>1, ResizedBytes
  <2>4. /\ attr' \in [mtime : Nat, permissions : 0..1, owner : 0..1]
        /\ attr'.mtime = Now /\ attr'.permissions = attr.permissions /\ attr'.owner = attr.owner
    BY <2>2, NowSeen DEF IInv, TypeInv
  <2>5. raced' \subseteq 1..MaxLen
    <3>1. \A t \in tasks : t.at \in Nat /\ t.len \in Nat /\ t.at + t.len <= MaxLen
      BY DEF IInv, TypeInv, Piece
    <3>2. \A t \in tasks : (size + 1)..(t.at + t.len) \subseteq 1..MaxLen
      BY <2>1, <3>1
    <3> QED BY <2>2, <3>2 DEF IInv, TypeInv
  <2>6. TypeInv'
    BY <1>0, <1>1, <2>3, <2>4, <2>5 DEF IInv, TypeInv
  <2>7. /\ Target = expected.content
        /\ Target' = Resized(expected.content, size)
        /\ TargetMtime' = Now
        /\ \A g \in {"permissions", "owner"} : TargetOf(g)' = TargetOf(g)
    BY <1>12, <1>13, <2>1
  <2>8. \A p \in 1..MaxLen :
          ByteOf(Target', p) =
            IF p > size THEN -1 ELSE IF ByteOf(Target, p) # -1 THEN ByteOf(Target, p) ELSE 0
    BY <1>11, <2>1, <2>7, ResizedBytes
  <2>9. ASSUME NEW p \in 1..MaxLen, p \notin raced'
        PROVE  Leads(Target, p)'
    <3>1. Leads(Target, p) /\ p \notin raced
      BY <2>2, <2>9 DEF IInv, DataInv
    <3>2. ASSUME NEW t \in tasks, p <= t.at + t.len
          PROVE  p <= size
      BY <2>1, <2>2, <2>9, <3>2 DEF IInv, TypeInv, Piece
    <3>3. ASSUME NEW t \in tasks', p \in Bytes(t.at, t.len)
          PROVE  ByteOf(Target', p) = t.id
      <4>1. ByteOf(Target, p) = t.id /\ t.id # -1
        BY <1>1, <3>1, <3>3 DEF Leads, IInv, TypeInv, Piece
      <4>2. p <= size
        BY <1>1, <3>2, <3>3 DEF Bytes
      <4> QED BY <2>1, <2>8, <4>1, <4>2
    <3>4. ASSUME \A t \in tasks' : p \notin Bytes(t.at, t.len)
          PROVE  ByteOf(Target', p) = IF ByteOf(content', p) # -1 THEN ByteOf(content', p)
                                      ELSE IF \E t \in tasks' : p <= t.at THEN 0 ELSE -1
      <4>1. ByteOf(Target, p) = IF ByteOf(content, p) # -1 THEN ByteOf(content, p)
                                ELSE IF \E t \in tasks : p <= t.at THEN 0 ELSE -1
        BY <1>1, <3>1, <3>4 DEF Leads
      <4>2. ASSUME NEW t \in tasks, p <= t.at PROVE p <= size
        BY <3>2, <4>2 DEF IInv, TypeInv, Piece
      <4>3. CASE p <= size
        BY <2>1, <2>3, <2>8, <4>1, <4>3
      <4>4. CASE ~(p <= size)
        <5>1. ~\E t \in tasks' : p <= t.at
          BY <1>1, <4>2, <4>4
        <5>2. ByteOf(content', p) = -1 /\ ByteOf(Target', p) = -1
          BY <2>1, <2>3, <2>8, <4>4
        <5> QED BY <5>1, <5>2
      <4> QED BY <4>3, <4>4
    <3> QED BY <3>3, <3>4 DEF Leads
  <2>10. DataInv'
    BY <2>9 DEF DataInv
  <2>11. AttrInv'
    BY <2>4, <2>7, NowSeen DEF IInv, AttrInv
  <2> QED BY <1>6, <2>6, <2>10, <2>11 DEF IInv
<1>15. CASE f # "size"
  <2> DEFINE v == OnDisk(f, call.req[f])
  <2>1. attr' = [attr EXCEPT ![f] = v] /\ UNCHANGED <<content, raced>>
    BY <1>0, <1>15
  <2>2. f \in {"mtime", "permissions", "owner"} /\ f \in DOMAIN call.req
    BY <1>2, <1>15 DEF RequestOK, Fields
  <2>3. f = "mtime" => call.req.mtime \in Int /\ v = from_unix(to_unix(call.req.mtime)) /\ v \in Nat
    BY <1>2, <2>2, TimeSeen DEF OnDisk, RequestOK
  <2>4. f # "mtime" => v = call.req[f] /\ v = 1
    BY <1>2, <2>2 DEF OnDisk, RequestOK
  <2> HIDE DEF v
  <2>5. /\ attr' \in [mtime : Nat, permissions : 0..1, owner : 0..1]
        /\ attr'[f] = v /\ \A g \in {"mtime", "permissions", "owner"} \ {f} : attr'[g] = attr[g]
    <3>1. attr \in [mtime : Nat, permissions : 0..1, owner : 0..1]
      BY DEF IInv, TypeInv
    <3>2. CASE f = "mtime"
      BY <2>1, <2>3, <3>1, <3>2
    <3>3. CASE f = "permissions"
      BY <2>1, <2>4, <3>1, <3>3
    <3>4. CASE f = "owner"
      BY <2>1, <2>4, <3>1, <3>4
    <3> QED BY <2>2, <3>2, <3>3, <3>4
  <2>6. TypeInv'
    BY <1>0, <1>1, <2>1, <2>5 DEF IInv, TypeInv
  <2>7. Target' = Target
    BY <1>7, <1>8, <1>12, <1>13, <1>15
  <2>8. DataInv'
    BY <1>1, <2>1, <2>7 DEF IInv, DataInv, Leads
  <2>9. \A g \in {"permissions", "owner"} : attr'[g] = TargetOf(g)'
    <3>1. ASSUME NEW g \in {"permissions", "owner"} PROVE attr'[g] = TargetOf(g)'
      <4>1. CASE g = f
        BY <1>8, <1>13, <2>4, <2>5, <4>1
      <4>2. CASE g # f
        <5>1. TargetOf(g)' = TargetOf(g)
          BY <1>7, <1>8, <1>12, <1>13, <4>2
        <5> QED BY <2>5, <4>2, <5>1 DEF IInv, AttrInv
      <4> QED BY <4>1, <4>2
    <3> QED BY <3>1
  <2>10. SeenAs(TargetMtime', from_unix(to_unix(attr'.mtime))) \/ late' \/ tasks' # {}
    <3>1. CASE f = "mtime"
      <4>1. TargetMtime' = call.req.mtime /\ attr'.mtime = from_unix(to_unix(call.req.mtime))
        BY <1>8, <1>13, <2>3, <2>5, <3>1
      <4> QED BY <2>3, <3>1, <4>1, TimeSeen
    <3>2. CASE f # "mtime"
      <4>1. TargetMtime' = TargetMtime /\ attr'.mtime = attr.mtime /\ (late' <=> late)
        BY <1>0, <1>7, <1>8, <1>12, <1>13, <1>15, <2>5, <3>2
      <4> QED BY <1>1, <4>1 DEF IInv, AttrInv
    <3> QED BY <3>1, <3>2
  <2>11. AttrInv'
    BY <2>9, <2>10 DEF AttrInv
  <2> QED BY <1>6, <2>6, <2>8, <2>11 DEF IInv
<1> QED BY <1>14, <1>15

-----------------------------------------------------------------------------
(* All steps.                                                              *)

LEMMA RequestsOK ==
    /\ \A req \in SetAttrRequest : RequestOK(req)
    /\ \A trunc \in BOOLEAN :
         RequestOK(IF trunc THEN [size |-> 0, permissions |-> 1] ELSE [permissions |-> 1])
<1>1. ASSUME NEW req \in SetAttrRequest PROVE RequestOK(req)
  <2>1. PICK fs \in SUBSET DOMAIN Field :
          /\ req \in [fs -> UNION {Field[f] : f \in fs}]
          /\ \A f \in fs : req[f] \in Field[f]
    BY DEF SetAttrRequest
  <2>2. DOMAIN req = fs /\ fs \subseteq Fields
    BY <2>1 DEF Field, Fields
  <2>3. Field.size = Sizes /\ Field.mtime = Times /\ Field.permissions = {1} /\ Field.owner = {1}
    BY DEF Field
  <2> QED BY <2>1, <2>2, <2>3 DEF RequestOK
<1>2. RequestOK([size |-> 0, permissions |-> 1])
  BY DEF RequestOK, Fields
<1>3. RequestOK([permissions |-> 1])
  BY DEF RequestOK, Fields
<1> QED BY <1>1, <1>2, <1>3

LEMMA NextInv == IInv /\ [Next]_vars => IInv'
<1> SUFFICES ASSUME IInv, [Next]_vars PROVE IInv'
  OBVIOUS
<1>1. CASE UNCHANGED vars
  <2>1. UNCHANGED <<content, attr, tasks, calls, call, reply, expected, raced, late>>
    BY <1>1 DEF vars, disk, history
  <2>2. TypeInv' /\ CallInv' /\ WriteInv'
    BY <2>1 DEF IInv, TypeInv, CallInv, WriteInv, Changing, InHand
  <2>3. Target' = Target /\ TargetMtime' = TargetMtime /\ \A f : TargetOf(f)' = TargetOf(f)
    BY <2>1 DEF Target, TargetMtime, TargetOf, Changing, Changed, Done
  <2>4. DataInv' /\ AttrInv'
    BY <2>1, <2>3 DEF IInv, DataInv, AttrInv, Leads
  <2> QED BY <2>2, <2>4 DEF IInv
<1>2. CASE \E req \in SetAttrRequest : SetAttr(req)
  BY <1>2, ChangeInv, RequestsOK DEF SetAttr
<1>3. CASE \E trunc \in BOOLEAN : CreateExisting(trunc)
  BY <1>3, ChangeInv, RequestsOK DEF CreateExisting
<1>4. CASE Step
  BY <1>4, WritePieceInv, WriteReturnInv, WriteFailInv, SetFieldInv, SetAttrEndsInv DEF Step
<1>5. CASE RunTask
  BY <1>5, PerformInv, PerformFailsInv DEF RunTask
<1> QED BY <1>1, <1>2, <1>3, <1>4, <1>5, FailAtOpenInv, WriteStartInv DEF Next

LEMMA SpecInv == Spec => []IInv
BY InitInv, NextInv, PTL DEF Spec

\* The file, its attributes and the pieces in the hands of blocking threads
\* keep their bounds, and no time before the epoch gets onto the disk, whatever
\* times clients send (fs/mod.rs, to_unix and from_unix).
THEOREM TypeCorrect == Spec => []TypeOK
<1>1. IInv => TypeOK
  BY DEF IInv, TypeInv, CallInv, TypeOK, Content
<1> QED BY <1>1, SpecInv, PTL

LEMMA IInvDataSettled == IInv => DataSettled
<1> SUFFICES ASSUME IInv, call.op = None, NEW p \in 1..MaxLen, p \notin raced, p \notin Pending
             PROVE  ByteOf(content, p) = ByteOf(expected.content, p)
  BY DEF DataSettled
<1>1. Target = expected.content
  BY DEF Target, Changing, None
<1>2. Leads(Target, p)
  BY DEF IInv, DataInv
<1>3. ASSUME NEW t \in tasks
      PROVE  p \notin Bytes(t.at, t.len) /\ (p <= Len(content) \/ ~(p <= t.at))
  <2>1. p \notin Covered(content, t)
    BY DEF Pending
  <2>2. t.at \in Nat /\ t.len \in Nat /\ Len(content) \in Nat
    BY DEF IInv, TypeInv, Piece, Content
  <2> QED BY <2>1, <2>2 DEF Covered
<1>4. content \in Content
  BY DEF IInv, TypeInv
<1>5. ByteOf(content, p) # -1 \/ \A t \in tasks : ~(p <= t.at)
  BY <1>3, <1>4, ByteOfContent
<1> QED BY <1>1, <1>2, <1>3, <1>5 DEF Leads

\* For files and writes of any length, any buffer size and any number of calls:
\* between calls every byte is that of the last call which set it, unless it is
\* in a piece that a write left behind (disk.rs:208) or in doubt because two
\* calls had it in hand at once or a piece of it was lost.
THEOREM DataSettles == Spec => []DataSettled
BY SpecInv, IInvDataSettled, PTL

\* Between calls, permissions and owner are those last set and mtime is the
\* last time set or that of the last change, as set_attr sets the size before
\* the times (disk.rs:92-117), unless a write left behind has moved it.
THEOREM AttrSettles == Spec => []AttrSettled
<1>1. IInv => AttrSettled
  <2> SUFFICES ASSUME IInv, call.op = None
               PROVE  /\ GetAttr.permissions = expected.attr.permissions
                      /\ GetAttr.owner = expected.attr.owner
                      /\ SeenAs(expected.attr.mtime, GetAttr.mtime) \/ late \/ tasks # {}
    BY DEF AttrSettled
  <2>1. ~Changing /\ call.op # "write"
    BY DEF Changing, None
  <2> QED BY <2>1 DEF IInv, AttrInv, TargetOf, TargetMtime, GetAttr
<1> QED BY <1>1, SpecInv, PTL

LEMMA IInvReadReturnsFile == IInv => ReadReturnsFile
<1> SUFFICES ASSUME IInv, call.op = None, NEW at \in 0..MaxLen, NEW len \in 0..MaxLen
             PROVE  LET data == Read(at, len) IN
                    /\ Len(data) <= len
                    /\ \A k \in DOMAIN data :
                         at + k \in raced \cup Pending \/ data[k] = ByteOf(expected.content, at + k)
                    /\ len <= MaxBuf /\ Len(data) < len => at + Len(data) >= Len(content)
                    /\ len > MaxBuf /\ at + MaxBuf < Len(content) => Len(data) = MaxBuf
  BY DEF ReadReturnsFile
<1> DEFINE end == Min2(at + Min2(len, MaxBuf), Len(content))
           data == SubSeq(content, at + 1, end)
<1>1. content \in Content /\ Len(content) \in Nat /\ Len(content) <= MaxLen
  BY DEF IInv, TypeInv, Content
<1>2. /\ end \in Nat /\ end <= Len(content) /\ end <= at + len /\ end <= at + MaxBuf
      /\ end = Len(content) \/ end = at + len \/ (end = at + MaxBuf /\ MaxBuf < len)
      /\ end = Len(content) => at + MaxBuf >= Len(content) \/ at + len >= Len(content)
  BY <1>1, FileAssumption DEF Min2
<1> HIDE DEF end
<1>3. at + 1 \in Int /\ end \in Int /\ \A k \in (at + 1)..end : content[k] \in Value
  BY <1>1, <1>2 DEF Content
<1>4. /\ data \in Seq(Value)
      /\ Len(data) = IF at + 1 <= end THEN end - (at + 1) + 1 ELSE 0
      /\ \A k \in 1..(end - (at + 1) + 1) : data[k] = content[at + 1 + k - 1]
  BY <1>3, SubSeqProperties
<1> HIDE DEF data
<1>5. Len(data) <= len
  BY <1>2, <1>4
<1>6. /\ len <= MaxBuf /\ Len(data) < len => at + Len(data) >= Len(content)
      /\ len > MaxBuf /\ at + MaxBuf < Len(content) => Len(data) = MaxBuf
  BY <1>1, <1>2, <1>4, FileAssumption
<1>7. ASSUME NEW k \in DOMAIN data
      PROVE  at + k \in raced \cup Pending \/ data[k] = ByteOf(expected.content, at + k)
  <2>1. k \in 1..Len(data)
    BY <1>4
  <2>2. k \in 1..(end - (at + 1) + 1) /\ at + 1 + k - 1 = at + k /\ at + k \in 1..MaxLen /\ at + k <= Len(content)
    <3>1. at + 1 <= end /\ Len(data) = end - at /\ k \in Nat /\ 1 <= k /\ k <= end - at
      BY <1>2, <1>4, <2>1
    <3> QED BY <1>1, <1>2, <3>1
  <2>3. data[k] = content[at + k]
    BY <1>4, <2>2
  <2>4. data[k] = ByteOf(content, at + k)
    BY <1>1, <2>2, <2>3, ByteOfContent
  <2> QED BY <2>2, <2>4, IInvDataSettled DEF DataSettled
<1> QED BY <1>5, <1>6, <1>7 DEF Read, data, end

\* A read returns the bytes of the file as the calls before it left them,
\* except those in doubt; if it asks for no more than the buffer holds and gets
\* less it has met the end of the file, and if it asks for more it gets no more
\* than the buffer holds (disk.rs:190-193).
THEOREM ReadsReturnFile == Spec => []ReadReturnsFile
BY SpecInv, IInvReadReturnsFile, PTL

=============================================================================
