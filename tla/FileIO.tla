------------------------------- MODULE FileIO -------------------------------
(***************************************************************************)
(* The contents and attributes of one file of DiskFs (fs/disk.rs): read,    *)
(* write, set_attr, get_attr and create_file of a file that exists.        *)
(*                                                                         *)
(* tokio's File does its work on blocking threads.  A write copies at most *)
(* MaxBuf bytes, hands them to a thread and returns; the next operation on *)
(* the same File waits for that thread and gets its error.  DiskFs::write  *)
(* drops the File after write_all, without a flush, so nobody waits for    *)
(* the last piece of a write: it is left behind, and other calls run       *)
(* before, during and after it.                                            *)
(*                                                                         *)
(* Calls run one at a time, under the server's Mutex.  The bytes that call *)
(* n writes all have the value n, and 0 is the byte of a hole.  A set_attr *)
(* is taken with the conversions that bring it to DiskFs and get_attr with *)
(* those that bring its answer back.  Of the two times mtime is kept (reads *)
(* move atime), and owner stands for uid and gid, which one chown sets.    *)
(***************************************************************************)
EXTENDS Integers, Sequences, FiniteSets

CONSTANTS
    MaxBuf,    \* longest piece a File takes at once: 2 MiB in tokio
    MaxLen,    \* bound: length of the file
    MaxCalls,  \* bound: writing calls made
    Sizes,     \* the sizes clients set
    Times      \* the times clients set, in half seconds from the epoch

ASSUME FileAssumption ==
    /\ MaxBuf \in Nat \ {0}
    /\ MaxLen \in Nat
    /\ MaxCalls \in Nat
    /\ Sizes \subseteq 0..MaxLen
    /\ Times \subseteq Int

VARIABLES
    content,   \* the bytes of the file
    attr,      \* its other attributes
    tasks,     \* pieces of writes in the hands of blocking threads
    calls,     \* number of writing calls made so far
    call,      \* the call that is running
    reply,     \* history: what the last call returned
    expected,  \* history: the file if every call took effect when it returned
    raced,     \* history: bytes two calls had in hand at once, or that were lost
    late       \* history: a write was left behind since mtime was last set

disk == <<content, attr>>
history == <<expected, raced, late>>
vars == <<disk, tasks, calls, call, reply, history>>

Value == 0..MaxCalls
Piece == [id : 1..MaxCalls, at : 0..MaxLen, len : 1..MaxLen]
Now == 5   \* what the disk stamps a change with: 2.5 s
None == "None"

Max2(a, b) == IF a > b THEN a ELSE b
Min2(a, b) == IF a < b THEN a ELSE b

-----------------------------------------------------------------------------
(* Times on the wire are whole seconds from the epoch.                     *)

\* Mutant: times before the epoch are not caught.
to_unix_signed(t) == t \div 2

\* duration_since(UNIX_EPOCH).unwrap_or_default().as_secs()
to_unix(t) == Max2(0, t \div 2)
from_unix(s) == 2 * s

-----------------------------------------------------------------------------
(* The disk, as system calls change it.                                    *)

Bytes(at, len) == (at + 1)..(at + len)

Written(c, at, len, v) ==
    IF len = 0 THEN c
    ELSE [p \in 1..Max2(Len(c), at + len) |->
            CASE p \in Bytes(at, len)                     -> v
              [] p \notin Bytes(at, len) /\ p <= Len(c) -> c[p]
              [] p \notin Bytes(at, len) /\ p > Len(c)  -> 0]

\* ftruncate
Resized(c, size) == [p \in 1..size |-> IF p <= Len(c) THEN c[p] ELSE 0]

\* The bytes that a piece sets, and those between the end of the file and it.
Covered(c, t) == Bytes(t.at, t.len) \cup ((Len(c) + 1)..(t.at + t.len))

Pending == UNION {Covered(content, t) : t \in tasks}

-----------------------------------------------------------------------------
Init ==
    /\ content = <<>>
    /\ attr = [mtime |-> Now, permissions |-> 0, owner |-> 0]
    /\ tasks = {}
    /\ calls = 0
    /\ call = [op |-> None]
    /\ reply = None
    /\ expected = [content |-> <<>>, attr |-> attr]
    /\ raced = {}
    /\ late = FALSE

Idle == call.op = None /\ calls < MaxCalls

\* The call returns.
Return(res) == call' = [op |-> None] /\ reply' = res

\* A call fails before it has changed anything: no such inode, or open fails.
FailAtOpen ==
    /\ Idle
    /\ calls' = calls + 1
    /\ reply' = "Err"
    /\ UNCHANGED <<disk, tasks, call, history>>

-----------------------------------------------------------------------------
(* DiskFs::write.                                                          *)

\* Mutant: the seek is left out.
WriteAtStart(at, len) ==
    /\ Idle
    /\ at + len <= MaxLen
    /\ calls' = calls + 1
    /\ call' = [op |-> "write", id |-> calls + 1, from |-> at, at |-> 0,
                rest |-> len, len |-> len, failed |-> FALSE]
    /\ raced' = raced \cup {p \in Bytes(at, len) : \E t \in tasks : p \in Bytes(t.at, t.len)}
    /\ UNCHANGED <<disk, tasks, reply, expected, late>>

\* open and seek
Write(at, len) ==
    /\ Idle
    /\ at + len <= MaxLen
    /\ calls' = calls + 1
    /\ call' = [op |-> "write", id |-> calls + 1, from |-> at, at |-> at,
                rest |-> len, len |-> len, failed |-> FALSE]
    /\ raced' = raced \cup {p \in Bytes(at, len) : \E t \in tasks : p \in Bytes(t.at, t.len)}
    /\ UNCHANGED <<disk, tasks, reply, expected, late>>

InHand(id) == \E t \in tasks : t.id = id

\* Mutant: what has been handed over stays to be written.
WritePieceForever ==
    /\ call.op = "write" /\ call.rest > 0
    /\ ~InHand(call.id) /\ ~call.failed
    /\ tasks' = tasks \cup {[id |-> call.id, at |-> call.at, len |-> Min2(call.rest, MaxBuf)]}
    /\ UNCHANGED <<disk, calls, call, reply, history>>

\* write_all: the previous piece is written, so the File takes the next.
WritePiece ==
    /\ call.op = "write" /\ call.rest > 0
    /\ ~InHand(call.id) /\ ~call.failed
    /\ LET n == Min2(call.rest, MaxBuf) IN
         /\ tasks' = tasks \cup {[id |-> call.id, at |-> call.at, len |-> n]}
         /\ call' = [call EXCEPT !.at = @ + n, !.rest = @ - n]
    /\ UNCHANGED <<disk, calls, reply, history>>

\* Nothing is left to hand over: Ok, whatever becomes of the last piece.
WriteReturn ==
    /\ call.op = "write" /\ call.rest = 0
    /\ Return("Ok")
    /\ expected' = [content |-> Written(expected.content, call.from, call.len, call.id),
                    attr |-> IF call.len = 0 THEN expected.attr
                             ELSE [expected.attr EXCEPT !.mtime = Now]]
    /\ UNCHANGED <<disk, tasks, calls, raced, late>>

\* The previous piece failed: the next poll_write returns its error.
WriteFail ==
    /\ call.op = "write" /\ call.rest > 0
    /\ ~InHand(call.id) /\ call.failed
    /\ Return("Err")
    /\ raced' = raced \cup (1 + Min2(call.from, Len(expected.content)))..(call.from + call.len)
    /\ late' = TRUE
    /\ UNCHANGED <<disk, tasks, calls, expected>>

-----------------------------------------------------------------------------
(* A blocking thread.                                                      *)

\* The piece reaches the disk.
Perform(t) ==
    /\ content' = Written(content, t.at, t.len, t.id)
    /\ attr' = [attr EXCEPT !.mtime = Now]
    /\ tasks' = tasks \ {t}
    /\ late' = (late \/ call.op # "write" \/ t.id # call.id)
    /\ UNCHANGED <<calls, call, reply, expected, raced>>

\* The disk is full, say: the first n bytes are written.  The error is kept in
\* the File, and gone if the call has returned.
PerformFails(t) ==
    /\ \E n \in 0..(t.len - 1) : content' = Written(content, t.at, n, t.id)
    /\ attr' \in {attr, [attr EXCEPT !.mtime = Now]}
    /\ tasks' = tasks \ {t}
    /\ call' = IF call.op = "write" /\ t.id = call.id
               THEN [call EXCEPT !.failed = TRUE]
               ELSE call
    /\ raced' = raced \cup Covered(content, t)
    /\ late' = TRUE
    /\ UNCHANGED <<calls, reply, expected>>

-----------------------------------------------------------------------------
(* DiskFs::set_attr, and create_file where the file exists.                *)

\* Mutant: the times are set before the size.
SetAttrOrderTimesFirst == [mtime |-> 1, size |-> 2, permissions |-> 3, owner |-> 4]

\* The order in which set_attr applies the fields it is given.
SetAttrOrder == [size |-> 1, mtime |-> 2, permissions |-> 3, owner |-> 4]

\* req maps the fields that the request has to their values.
Change(op, req) ==
    /\ Idle
    /\ calls' = calls + 1
    /\ call' = [op |-> op, req |-> req, todo |-> DOMAIN req]
    /\ UNCHANGED <<disk, tasks, reply, history>>

\* The fields and values a SET_ATTR_REQ can ask for.
Field == [size |-> Sizes, mtime |-> Times, permissions |-> {1}, owner |-> {1}]
SetAttrRequest ==
    UNION {{r \in [fs -> UNION {Field[f] : f \in fs}] : \A f \in fs : r[f] \in Field[f]} :
             fs \in SUBSET DOMAIN Field}

SetAttr(req) == Change("set_attr", req)

\* The client sends mtime in seconds, and the server turns it into a time.
OnDisk(f, v) == IF f = "mtime" THEN from_unix(to_unix(v)) ELSE v

\* open with O_CREAT finds the file, and truncates it if O_TRUNC is set; then
\* set_permissions.
CreateExisting(trunc) ==
    Change("create", IF trunc THEN [size |-> 0, permissions |-> 1] ELSE [permissions |-> 1])

Changing == call.op \in {"set_attr", "create"}

\* One system call of set_attr: set_len, set_times, chmod or chown.
SetField ==
    /\ Changing
    /\ \E f \in call.todo :
         /\ \A g \in call.todo : SetAttrOrder[f] <= SetAttrOrder[g]
         /\ IF f = "size"
            THEN /\ content' = Resized(content, call.req.size)
                 /\ attr' = [attr EXCEPT !.mtime = Now]
                 /\ raced' = raced \cup UNION {(call.req.size + 1)..(t.at + t.len) : t \in tasks}
            ELSE /\ attr' = [attr EXCEPT ![f] = OnDisk(f, call.req[f])]
                 /\ UNCHANGED <<content, raced>>
         /\ late' = (late /\ f \notin {"size", "mtime"})
         /\ call' = [call EXCEPT !.todo = @ \ {f}]
    /\ UNCHANGED <<tasks, calls, reply, expected>>

\* What a request with these fields makes of a file.
Changed(file, req) ==
    [content |-> IF "size" \in DOMAIN req THEN Resized(file.content, req.size) ELSE file.content,
     attr |-> [f \in DOMAIN file.attr |->
       CASE f \in DOMAIN req -> req[f]
         [] f \notin DOMAIN req /\ f = "mtime" /\ "size" \in DOMAIN req -> Now
         [] f \notin DOMAIN req /\ ~(f = "mtime" /\ "size" \in DOMAIN req) -> file.attr[f]]]

Done == [f \in DOMAIN call.req \ call.todo |-> call.req[f]]

SetAttrReturn ==
    /\ Changing /\ call.todo = {}
    /\ Return("Ok")
    /\ expected' = Changed(expected, Done)
    /\ UNCHANGED <<disk, tasks, calls, raced, late>>

\* A system call fails: set_attr returns its error and undoes nothing.
SetAttrFail ==
    /\ Changing /\ call.todo # {}
    /\ Return("Err")
    /\ expected' = Changed(expected, Done)
    /\ UNCHANGED <<disk, tasks, calls, raced, late>>

-----------------------------------------------------------------------------
(* DiskFs::read and get_attr change nothing.                               *)

\* Mutant: the buffer is not cut to what was read.
ReadUncut(at, len) ==
    [k \in 1..len |-> IF at + k <= Len(content) THEN content[at + k] ELSE 0]

\* One read(2), of no more than the File's buffer holds.
Read(at, len) == SubSeq(content, at + 1, Min2(at + Min2(len, MaxBuf), Len(content)))

\* get_attr, as the client gets it.
GetAttr == [size |-> Len(content), mtime |-> from_unix(to_unix(attr.mtime)),
            permissions |-> attr.permissions, owner |-> attr.owner]

\* A blocking thread finishes a piece, well or not.
RunTask == \E t \in tasks : Perform(t) \/ PerformFails(t)

Step == WritePiece \/ WriteReturn \/ WriteFail \/ SetField \/ SetAttrReturn \/ SetAttrFail

Next ==
    \/ FailAtOpen
    \/ \E at, len \in 0..MaxLen : Write(at, len)
    \/ \E req \in SetAttrRequest : SetAttr(req)
    \/ \E trunc \in BOOLEAN : CreateExisting(trunc)
    \/ Step
    \/ RunTask

\* The runtime runs the server's tasks and its blocking threads.
Spec == Init /\ [][Next]_vars /\ WF_vars(Step) /\ WF_vars(RunTask)

-----------------------------------------------------------------------------
\* The file and the pieces in hand keep their bounds, and no time before the
\* epoch gets onto the disk.
TypeOK ==
    /\ content \in Seq(Value) /\ Len(content) <= MaxLen
    /\ attr \in [mtime : Nat, permissions : 0..1, owner : 0..1]
    /\ tasks \subseteq Piece
    /\ calls \in 0..MaxCalls
    /\ call.op \in {None, "write", "set_attr", "create"}
    /\ reply \in {None, "Ok", "Err"}
    /\ raced \subseteq 1..MaxLen
    /\ late \in BOOLEAN

\* The byte at p, or -1 beyond the end of the file.
ByteOf(c, p) == IF p \in DOMAIN c THEN c[p] ELSE -1

\* While nothing runs, every byte is that of the last call which set it, except
\* where a piece that a write left behind (disk.rs:208) is still to come, came
\* after a later call, or failed.  So pieces of one write fall into place in
\* any interleaving, and writes that do not overlap do not disturb each other.
DataSettled ==
    call.op = None =>
      \A p \in 1..MaxLen :
        p \in raced \cup Pending \/ ByteOf(content, p) = ByteOf(expected.content, p)

\* A client sees time t: cut to the second, and not before the epoch.
SeenAs(t, seen) == IF t < 0 THEN seen = 0 ELSE seen \in (t - 1)..t /\ seen % 2 = 0

\* While nothing runs, permissions and owner are those last set, and mtime as
\* clients see it is the last one set (disk.rs:92-117 sets the size first, as
\* that moves mtime) or that of the last change, unless a write left behind
\* has moved it since.
AttrSettled ==
    call.op = None =>
      /\ GetAttr.permissions = expected.attr.permissions
      /\ GetAttr.owner = expected.attr.owner
      /\ SeenAs(expected.attr.mtime, GetAttr.mtime) \/ late \/ tasks # {}

\* A read gives the bytes of the file as the calls before it left them, except
\* those in doubt (disk.rs:190-193).  messages.rs:164 says "a short read
\* (data.len() < requested length) means EOF was reached": that is so of requests
\* that the File's buffer has room for.  It is not of longer ones, which get the
\* buffer full and no more, although more follows.
ReadReturnsFile ==
    call.op = None =>
      \A at, len \in 0..MaxLen :
        LET data == Read(at, len) IN
        /\ Len(data) <= len
        /\ \A k \in DOMAIN data :
             at + k \in raced \cup Pending \/ data[k] = ByteOf(expected.content, at + k)
        /\ len <= MaxBuf /\ Len(data) < len => at + Len(data) >= Len(content)
        /\ len > MaxBuf /\ at + MaxBuf < Len(content) => Len(data) = MaxBuf

\* write and set_attr return: each piece they wait for is written or fails.
IoReturns == call.op # None ~> call.op = None

-----------------------------------------------------------------------------
(* A statement of the repository that the code does not live up to.        *)

\* Protocol.md:279-281: "The server must write all data in the `WRITE_REQ` and
\* return a `SUCCESS_RES`.  If the server was unable to write all the data, the
\* operation must instead fail".  Then the data is in the file when write
\* returns Ok.
SuccessMeansWritten ==
    [][call.op = "write" /\ call'.op = None /\ reply' = "Ok" =>
         \A p \in Bytes(call.from, call.len) : ByteOf(content', p) = call.id]_vars

=============================================================================
