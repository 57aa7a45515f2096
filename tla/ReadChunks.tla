----------------------------- MODULE ReadChunks -----------------------------
(***************************************************************************)
(* One READ (or READDIR) reply on its way from the server to the caller:   *)
(* assemble_read_res_chunks cuts the payload into READ_RES messages, a     *)
(* JoinSet of tasks sends them in whatever order the scheduler picks, and  *)
(* combine_read_chunks puts them together again on the client.             *)
(*                                                                         *)
(* A byte of the payload is represented by its position, so a chunk is an  *)
(* interval of positions and no data has to be carried around.             *)
(***************************************************************************)
EXTENDS Integers, Sequences, SequencesExt, FiniteSets

CONSTANTS
    MaxLen,             \* longest payload the file system returns
    MAX_READ_RES_CHUNK, \* messages.rs: u16::MAX
    LenMod              \* 2^16: chunk_length is encoded as a u16

ASSUME ChunkAssumption ==
    /\ MaxLen \in Nat
    /\ MAX_READ_RES_CHUNK \in Nat \ {0}
    /\ LenMod \in Nat
    /\ MAX_READ_RES_CHUNK < LenMod

VARIABLES
    total,    \* data.len() on the server
    head,     \* assemble_read_res_chunks: first byte not yet in a chunk
    pc,       \* server: "assemble", then "send"
    unsent,   \* chunks whose sending task has not run yet
    wire,     \* reply channel, socket and listener: FIFO
    received, \* combine_read_chunks: bytes received so far
    chunks,   \* combine_read_chunks: BTreeMap from chunk_offset to data
    returned  \* combine_read_chunks has returned Ok

vars == <<total, head, pc, unsent, wire, received, chunks, returned>>

Chunk == [total : 0..MaxLen, offset : 0..MaxLen, len : 0..MaxLen]

\* The positions a chunk carries.
Bytes(offset, len) == offset .. (offset + len - 1)

MinOf(a, b) == IF a <= b THEN a ELSE b

-----------------------------------------------------------------------------
Init ==
    /\ total \in 0..MaxLen
    /\ head = 0
    /\ pc = "assemble"
    /\ unsent = {}
    /\ wire = <<>>
    /\ received = 0
    /\ chunks = [o \in {} |-> 0]
    /\ returned = FALSE

\* Mutant: the loop alone, so that an empty payload is never answered.
AssembleEmptyNothing ==
    /\ pc = "assemble"
    /\ total = 0
    /\ unsent' = {}
    /\ pc' = "send"
    /\ UNCHANGED <<total, head, wire, received, chunks, returned>>

\* An empty payload is answered by one empty chunk, before the loop.
AssembleEmpty ==
    /\ pc = "assemble"
    /\ total = 0
    /\ unsent' = {[total |-> 0, offset |-> 0, len |-> 0]}
    /\ pc' = "send"
    /\ UNCHANGED <<total, head, wire, received, chunks, returned>>

\* Mutant: the last chunk is not cut off at the end of the payload.
ChunkLenUncut == MAX_READ_RES_CHUNK

\* The length of the chunk that starts at head.
ChunkLen == MinOf(total - head, MAX_READ_RES_CHUNK)

\* Mutant: head is advanced one byte too little, so chunks overlap.
AssembleNextOverlap ==
    /\ pc = "assemble"
    /\ head < total
    /\ unsent' = unsent \cup
                   {[total |-> total, offset |-> head, len |-> ChunkLen]}
    /\ head' = head + (IF ChunkLen > 1 THEN ChunkLen - 1 ELSE 1)
    /\ UNCHANGED <<total, pc, wire, received, chunks, returned>>

\* One iteration of the loop.
AssembleNext ==
    /\ pc = "assemble"
    /\ head < total
    /\ unsent' = unsent \cup
                   {[total |-> total, offset |-> head, len |-> ChunkLen]}
    /\ head' = head + ChunkLen
    /\ UNCHANGED <<total, pc, wire, received, chunks, returned>>

\* The loop ends and the chunks are handed to the JoinSet.
AssembleDone ==
    /\ pc = "assemble"
    /\ total > 0
    /\ head >= total
    /\ pc' = "send"
    /\ UNCHANGED <<total, head, unsent, wire, received, chunks, returned>>

\* Encoding writes data.len() as u16; the reader takes that many bytes.
Encode(m) == [m EXCEPT !.len = @ % LenMod]

\* Any of the sending tasks may be the next to get its message through.
SendChunk ==
    /\ pc = "send"
    /\ \E m \in unsent :
         /\ unsent' = unsent \ {m}
         /\ wire' = Append(wire, Encode(m))
    /\ UNCHANGED <<total, head, pc, received, chunks, returned>>

\* BTreeMap::insert: the later chunk replaces one at the same offset.
Insert(map, offset, len) ==
    [o \in DOMAIN map \cup {offset} |-> IF o = offset THEN len ELSE map[o]]

\* Mutant: the call returns at the chunk that ends the payload, as if the
\* chunks arrived in order.
ReceiveChunkInOrder ==
    /\ ~returned
    /\ wire # <<>>
    /\ LET m == Head(wire) IN
         /\ received' = received + m.len
         /\ chunks' = Insert(chunks, m.offset, m.len)
         /\ returned' = (m.offset + m.len = m.total)
    /\ wire' = Tail(wire)
    /\ UNCHANGED <<total, head, pc, unsent>>

\* One message taken from the listener.
ReceiveChunk ==
    /\ ~returned
    /\ wire # <<>>
    /\ LET m == Head(wire) IN
         /\ received' = received + m.len
         /\ chunks' = Insert(chunks, m.offset, m.len)
         /\ returned' = (received + m.len = m.total)
    /\ wire' = Tail(wire)
    /\ UNCHANGED <<total, head, pc, unsent>>

\* The keys of the BTreeMap, in the order in which it is iterated.
Offsets ==
    LET keys == DOMAIN chunks IN
    CHOOSE s \in [1..Cardinality(keys) -> keys] :
      \A i, j \in 1..Cardinality(keys) : i < j => s[i] < s[j]

\* chunks.into_iter().map(|(_, v)| v).flatten().collect()
Collected ==
    FlattenSeq([k \in DOMAIN Offsets |->
                  [j \in 1..chunks[Offsets[k]] |-> Offsets[k] + j - 1]])

Next ==
    \/ AssembleEmpty
    \/ AssembleNext
    \/ AssembleDone
    \/ SendChunk
    \/ ReceiveChunk

\* Loop, tasks and listener all keep running as long as they have work.
Fairness == WF_vars(Next)

Spec == Init /\ [][Next]_vars /\ Fairness

-----------------------------------------------------------------------------
TypeOK ==
    /\ total \in 0..MaxLen
    /\ head \in 0..MaxLen
    /\ pc \in {"assemble", "send"}
    /\ unsent \subseteq Chunk
    /\ wire \in Seq(Chunk)
    /\ received \in 0..MaxLen
    /\ DOMAIN chunks \subseteq 0..MaxLen
    /\ chunks \in [DOMAIN chunks -> 0..MaxLen]
    /\ returned \in BOOLEAN

\* combine_read_chunks (handler.rs:85) stops at received == total_length, a
\* count that says nothing about WHICH bytes arrived.  Whatever the order of
\* the chunks, when it returns every byte of the payload is held by exactly
\* one chunk of the map, and no chunk reaches outside the payload.
EveryByteOnce ==
    returned =>
      /\ \A o \in DOMAIN chunks : Bytes(o, chunks[o]) \subseteq 0..(total - 1)
      /\ \A i \in 0..(total - 1) :
           \E o \in DOMAIN chunks :
             /\ i \in Bytes(o, chunks[o])
             /\ \A p \in DOMAIN chunks : i \in Bytes(p, chunks[p]) => p = o

\* The caller of read / read_dir gets the payload the file system returned,
\* byte for byte, in every order in which the chunks can arrive.
CallerGetsPayload ==
    returned => Collected = [i \in 1..total |-> i - 1]

\* No chunk of the reply is still on its way when the call returns: a late
\* one would find the listener gone (handler.rs:37).
NoStrayChunk ==
    returned => unsent = {} /\ wire = <<>>

\* Every read returns: the loop of assemble_read_res_chunks ends, and the
\* count of combine_read_chunks hits total_length exactly, never past it.
ReadCompletes == <>returned

=============================================================================
