-------------------------- MODULE ReadChunks_proofs --------------------------
(***************************************************************************)
(* For every payload length, every chunk size whose length fits the length *)
(* field and every order of arrival: when combine_read_chunks returns, the *)
(* chunks it holds tile the payload and none is left behind.               *)
(*                                                                         *)
(* The client counts bytes, so the argument is a count: the chunks in the  *)
(* tasks, on the wire and in the map never overlap (Disjoint) and stay     *)
(* inside the payload (Inside), hence `received' is the number of payload  *)
(* bytes the map covers (Counted), and `total' of them is all of them.     *)
(***************************************************************************)
EXTENDS ReadChunks, Induction_proofs, SequenceTheorems

-----------------------------------------------------------------------------
(* The inductive invariant.                                                *)

\* Two intervals, given by offset and length, have no byte in common.
Apart(o1, l1, o2, l2) == o1 + l1 <= o2 \/ o2 + l2 <= o1

\* A chunk message lies inside the part of the payload cut so far and, unless
\* the payload is empty, carries at least one byte.
WellCut(m) ==
    /\ m.total = total
    /\ m.offset + m.len <= head
    /\ m.len <= MAX_READ_RES_CHUNK
    /\ total > 0 => m.len > 0

Inside ==
    /\ head <= total
    /\ \A m \in unsent : WellCut(m)
    /\ \A i \in 1..Len(wire) : WellCut(wire[i])
    /\ \A o \in DOMAIN chunks : o + chunks[o] <= head

Disjoint ==
    /\ \A m, n \in unsent : m # n => Apart(m.offset, m.len, n.offset, n.len)
    /\ \A m \in unsent, i \in 1..Len(wire) :
         Apart(m.offset, m.len, wire[i].offset, wire[i].len)
    /\ \A i, j \in 1..Len(wire) :
         i # j => Apart(wire[i].offset, wire[i].len,
                        wire[j].offset, wire[j].len)
    /\ \A m \in unsent, o \in DOMAIN chunks :
         Apart(m.offset, m.len, o, chunks[o])
    /\ \A i \in 1..Len(wire), o \in DOMAIN chunks :
         Apart(wire[i].offset, wire[i].len, o, chunks[o])
    /\ \A o, p \in DOMAIN chunks :
         o # p => Apart(o, chunks[o], p, chunks[p])

\* The payload bytes the client holds.
Covered(map) == UNION {Bytes(o, map[o]) : o \in DOMAIN map}

Counted ==
    /\ IsFiniteSet(Covered(chunks))
    /\ Cardinality(Covered(chunks)) = received
    /\ returned => received = total

\* The single chunk of an empty payload is in exactly one place.
EmptyOnce ==
    total = 0 =>
      \/ pc = "assemble" /\ unsent = {} /\ wire = <<>> /\ ~returned
      \/ pc = "send" /\ wire = <<>> /\ ~returned
           /\ unsent = {[total |-> 0, offset |-> 0, len |-> 0]}
      \/ pc = "send" /\ unsent = {} /\ Len(wire) = 1 /\ ~returned
      \/ pc = "send" /\ unsent = {} /\ wire = <<>> /\ returned

IInv == TypeOK /\ Inside /\ Disjoint /\ Counted /\ EmptyOnce

-----------------------------------------------------------------------------
(* Lemmas.                                                                 *)

\* What one step of the client's count does: adding a chunk that overlaps no
\* chunk of the map adds exactly its length to the covered bytes.
LEMMA InsertCounts ==
    ASSUME NEW map, NEW off \in Nat, NEW len \in Nat,
           DOMAIN map \subseteq Nat, map \in [DOMAIN map -> Nat],
           IsFiniteSet(Covered(map)),
           \A o \in DOMAIN map : Apart(off, len, o, map[o]),
           off \in DOMAIN map => len > 0 \/ map[off] = 0
    PROVE  /\ Covered(Insert(map, off, len)) = Covered(map) \cup Bytes(off, len)
           /\ IsFiniteSet(Covered(Insert(map, off, len)))
           /\ Cardinality(Covered(Insert(map, off, len)))
                = Cardinality(Covered(map)) + len
<1> DEFINE new == Insert(map, off, len)
<1>1. off \in DOMAIN map => Bytes(off, map[off]) = {}
  BY DEF Bytes, Apart
<1>2. Covered(new) = Covered(map) \cup Bytes(off, len)
  <2>1. DOMAIN new = DOMAIN map \cup {off} /\ new[off] = len
        /\ \A o \in DOMAIN map : o # off => new[o] = map[o]
    BY DEF Insert
  <2>2. Covered(new) \subseteq Covered(map) \cup Bytes(off, len)
    BY <2>1 DEF Covered
  <2>3. Covered(map) \subseteq Covered(new)
    <3> SUFFICES ASSUME NEW o \in DOMAIN map, NEW i \in Bytes(o, map[o])
                 PROVE  i \in Covered(new)
      BY DEF Covered
    <3>1. o # off
      BY <1>1
    <3> QED BY <2>1, <3>1 DEF Covered
  <2>4. Bytes(off, len) \subseteq Covered(new)
    BY <2>1 DEF Covered
  <2> QED BY <2>2, <2>3, <2>4
<1>3. Covered(map) \cap Bytes(off, len) = {}
  <2> SUFFICES ASSUME NEW o \in DOMAIN map, NEW i \in Bytes(o, map[o]),
                      i \in Bytes(off, len)
               PROVE  FALSE
    BY DEF Covered
  <2>1. o \in Nat /\ map[o] \in Nat
    OBVIOUS
  <2> QED BY <2>1 DEF Bytes, Apart
<1>4. IsFiniteSet(Bytes(off, len)) /\ Cardinality(Bytes(off, len)) = len
  BY FS_Interval DEF Bytes
<1>5. /\ IsFiniteSet(Covered(map) \cup Bytes(off, len))
      /\ Cardinality(Covered(map) \cup Bytes(off, len))
           = Cardinality(Covered(map)) + Cardinality(Bytes(off, len))
               - Cardinality(Covered(map) \cap Bytes(off, len))
  BY <1>4, FS_Union
<1>6. Cardinality(Covered(map)) \in Nat
  BY FS_CardinalityType
<1>7. Cardinality(Covered(map) \cap Bytes(off, len)) = 0
  BY <1>3, FS_EmptySet
<1>8. Cardinality(Covered(map) \cup Bytes(off, len)) = Cardinality(Covered(map)) + len
  BY <1>4, <1>5, <1>6, <1>7
<1> QED
  BY <1>2, <1>5, <1>8

\* The covered bytes are bytes of the payload.
LEMMA CoveredInside ==
    ASSUME TypeOK, Inside
    PROVE  Covered(chunks) \subseteq 0..(total - 1)
<1> SUFFICES ASSUME NEW o \in DOMAIN chunks, NEW i \in Bytes(o, chunks[o])
             PROVE  i \in 0..(total - 1)
  BY DEF Covered
<1>1. o \in 0..MaxLen /\ chunks[o] \in 0..MaxLen
  BY DEF TypeOK
<1>2. o + chunks[o] <= total
  BY <1>1, ChunkAssumption DEF Inside, TypeOK
<1> QED BY <1>1, <1>2, ChunkAssumption DEF Bytes, TypeOK

\* Hence `received' never passes total_length.
LEMMA ReceivedBounded ==
    ASSUME TypeOK, Inside, Counted
    PROVE  /\ received \in 0..total
           /\ received = total => Covered(chunks) = 0..(total - 1)
<1>1. total \in Nat
  BY ChunkAssumption DEF TypeOK
<1>2. IsFiniteSet(0..(total - 1)) /\ Cardinality(0..(total - 1)) = total
  BY <1>1, FS_Interval
<1>3. Covered(chunks) \in SUBSET (0..(total - 1))
  BY CoveredInside
<1>4. /\ Cardinality(Covered(chunks)) <= Cardinality(0..(total - 1))
      /\ Cardinality(0..(total - 1)) = Cardinality(Covered(chunks))
           => 0..(total - 1) = Covered(chunks)
  BY <1>2, <1>3, FS_Subset
<1>5. Cardinality(Covered(chunks)) \in Nat
  BY FS_CardinalityType DEF Counted
<1> QED BY <1>1, <1>2, <1>4, <1>5 DEF Counted

-----------------------------------------------------------------------------
(* The invariant holds initially and every action keeps it.                *)

\* The invariant holds before the first chunk is cut.
LEMMA InitIInv == Init => IInv
<1> SUFFICES ASSUME Init PROVE IInv
  OBVIOUS
<1> USE ChunkAssumption
<1>1. chunks \in [{} -> 0..MaxLen] /\ DOMAIN chunks = {}
  BY DEF Init
<1>2. Covered(chunks) = {}
  BY <1>1 DEF Covered
<1>3. Len(wire) = 0
  BY DEF Init
<1>4. TypeOK
  <2>1. wire \in Seq(Chunk)
    BY DEF Init
  <2>2. chunks \in [DOMAIN chunks -> 0..MaxLen]
    BY <1>1
  <2>3. /\ total \in 0..MaxLen /\ head \in 0..MaxLen /\ received \in 0..MaxLen
        /\ pc \in {"assemble", "send"} /\ unsent \subseteq Chunk
    BY DEF Init
  <2>4. returned \in BOOLEAN
    BY Zenon DEF Init
  <2> QED BY <1>1, <2>1, <2>2, <2>3, <2>4 DEF TypeOK
<1>5. Inside /\ Disjoint
  BY <1>1, <1>3 DEF Init, Inside, Disjoint
<1>6. Counted
  BY <1>2, FS_EmptySet DEF Init, Counted
<1>7. EmptyOnce
  BY DEF Init, EmptyOnce
<1> QED BY <1>4, <1>5, <1>6, <1>7 DEF IInv

\* Every step keeps the invariant; the client's step is where the count is
\* tied to the covered bytes.
LEMMA NextIInv == IInv /\ [Next]_vars => IInv'
<1> SUFFICES ASSUME IInv, [Next]_vars PROVE IInv'
  OBVIOUS
<1> USE ChunkAssumption
<1>t. /\ total \in Nat /\ head \in Nat /\ received \in Nat
      /\ head <= total /\ total <= MaxLen
  BY DEF IInv, TypeOK, Inside
<1>1. CASE AssembleEmpty
  <2>1. /\ head = 0 /\ total = 0 /\ wire = <<>> /\ unsent = {} /\ ~returned
        /\ Len(wire) = 0
    BY <1>1, <1>t DEF AssembleEmpty, IInv, EmptyOnce
  <2>2. TypeOK'
    BY <1>1, <2>1 DEF AssembleEmpty, IInv, TypeOK, Chunk
  <2>3. Inside'
    BY <1>1, <2>1 DEF AssembleEmpty, IInv, TypeOK, Inside, WellCut
  <2>4. \A o \in DOMAIN chunks : o \in Nat /\ chunks[o] \in Nat /\ o + chunks[o] <= 0
    BY <2>1 DEF IInv, TypeOK, Inside
  <2>5. Disjoint'
    BY <1>1, <2>1, <2>4 DEF AssembleEmpty, IInv, Disjoint, Apart
  <2>6. Counted'
    BY <1>1 DEF AssembleEmpty, IInv, Counted, Covered
  <2>7. EmptyOnce'
    BY <1>1, <2>1 DEF AssembleEmpty, EmptyOnce
  <2> QED BY <2>2, <2>3, <2>5, <2>6, <2>7 DEF IInv
<1>2. CASE AssembleNext
  <2> DEFINE new == [total |-> total, offset |-> head, len |-> ChunkLen]
  <2>1. /\ ChunkLen \in Nat /\ ChunkLen > 0 /\ ChunkLen <= MAX_READ_RES_CHUNK
        /\ head + ChunkLen <= total
    BY <1>2, <1>t DEF AssembleNext, ChunkLen, MinOf
  <2>2. new \in Chunk
    BY <2>1, <1>t DEF Chunk
  <2>3. unsent' = unsent \cup {new} /\ head' = head + ChunkLen
        /\ UNCHANGED <<total, pc, wire, received, chunks, returned>>
    BY <1>2 DEF AssembleNext
  <2>4. TypeOK'
    BY <2>1, <2>2, <2>3, <1>t DEF IInv, TypeOK
  <2>5. \A m \in unsent : m.offset \in Nat /\ m.len \in Nat /\ m.offset + m.len <= head
    BY DEF IInv, TypeOK, Chunk, Inside, WellCut
  <2>6. \A i \in 1..Len(wire) : /\ wire[i].offset \in Nat /\ wire[i].len \in Nat
                                /\ wire[i].offset + wire[i].len <= head
    <3>1. \A i \in 1..Len(wire) : wire[i] \in Chunk /\ WellCut(wire[i])
      BY DEF IInv, TypeOK, Inside
    <3> QED BY <3>1 DEF Chunk, WellCut
  <2>7. \A o \in DOMAIN chunks : o \in Nat /\ chunks[o] \in Nat /\ o + chunks[o] <= head
    BY DEF IInv, TypeOK, Inside
  <2>8. Inside'
    <3>1. (head <= total)'
      BY <2>1, <2>3
    <3>2. (\A m \in unsent : WellCut(m))'
      BY <2>1, <2>3, <2>5, <1>t DEF IInv, Inside, WellCut
    <3>3. (\A i \in 1..Len(wire) : WellCut(wire[i]))'
      BY <2>1, <2>3, <2>6, <1>t DEF IInv, Inside, WellCut
    <3>4. (\A o \in DOMAIN chunks : o + chunks[o] <= head)'
      BY <2>1, <2>3, <2>7, <1>t
    <3> QED BY <3>1, <3>2, <3>3, <3>4 DEF Inside
  <2>9. Disjoint'
    BY <2>1, <2>3, <2>5, <2>6, <2>7, <1>t DEF IInv, Disjoint, Apart
  <2>10. Counted'
    BY <2>3 DEF IInv, Counted, Covered
  <2>11. EmptyOnce'
    BY <2>1, <2>3, <1>t DEF EmptyOnce
  <2> QED BY <2>4, <2>8, <2>9, <2>10, <2>11 DEF IInv
<1>3. CASE AssembleDone
  <2>1. TypeOK' /\ Inside' /\ Disjoint' /\ Counted'
    BY <1>3 DEF AssembleDone, IInv, TypeOK, Inside, WellCut, Disjoint, Counted, Covered
  <2>2. EmptyOnce'
    BY <1>3, <1>t DEF AssembleDone, EmptyOnce
  <2> QED BY <2>1, <2>2 DEF IInv
<1>4. CASE SendChunk
  <2>1. PICK m \in unsent : /\ unsent' = unsent \ {m}
                            /\ wire' = Append(wire, Encode(m))
    BY <1>4 DEF SendChunk
  <2>2. UNCHANGED <<total, head, pc, received, chunks, returned>> /\ pc = "send"
    BY <1>4 DEF SendChunk
  <2>3. m \in Chunk /\ WellCut(m)
    BY DEF IInv, TypeOK, Inside
  <2>4. Encode(m) = m
    BY <2>3 DEF Encode, Chunk, WellCut
  <2>5. /\ wire \in Seq(Chunk) /\ wire' \in Seq(Chunk)
        /\ Len(wire) \in Nat /\ Len(wire') = Len(wire) + 1
        /\ wire'[Len(wire) + 1] = m
        /\ \A i \in 1..Len(wire) : wire'[i] = wire[i]
    BY <2>1, <2>3, <2>4, AppendProperties, LenProperties DEF IInv, TypeOK
  <2>6. \A i \in 1..Len(wire') : i = Len(wire) + 1 \/ i \in 1..Len(wire)
    BY <2>5
  <2>7. TypeOK'
    BY <2>1, <2>2, <2>5 DEF IInv, TypeOK
  <2>8. Inside'
    BY <2>1, <2>2, <2>3, <2>5, <2>6 DEF IInv, Inside, WellCut
  <2>9. Disjoint'
    <3>1. (\A k, n \in unsent : k # n => Apart(k.offset, k.len, n.offset, n.len))'
      BY <2>1 DEF IInv, Disjoint
    <3>2. (\A k \in unsent, i \in 1..Len(wire) :
             Apart(k.offset, k.len, wire[i].offset, wire[i].len))'
      BY <2>1, <2>5, <2>6 DEF IInv, Disjoint
    <3>3. (\A i, j \in 1..Len(wire) :
             i # j => Apart(wire[i].offset, wire[i].len,
                            wire[j].offset, wire[j].len))'
      BY <2>1, <2>5, <2>6 DEF IInv, Disjoint, Apart
    <3>4. (\A k \in unsent, o \in DOMAIN chunks :
             Apart(k.offset, k.len, o, chunks[o]))'
      BY <2>1, <2>2 DEF IInv, Disjoint
    <3>5. (\A i \in 1..Len(wire), o \in DOMAIN chunks :
             Apart(wire[i].offset, wire[i].len, o, chunks[o]))'
      BY <2>2, <2>5, <2>6 DEF IInv, Disjoint
    <3>6. (\A o, p \in DOMAIN chunks : o # p => Apart(o, chunks[o], p, chunks[p]))'
      BY <2>2 DEF IInv, Disjoint
    <3> QED BY <3>1, <3>2, <3>3, <3>4, <3>5, <3>6 DEF Disjoint
  <2>10. Counted'
    BY <2>2 DEF IInv, Counted, Covered
  <2>11. EmptyOnce'
    <3> SUFFICES ASSUME total = 0
                 PROVE  pc = "send" /\ unsent' = {} /\ Len(wire') = 1 /\ ~returned
      BY <2>2 DEF EmptyOnce
    <3>1. wire = <<>> /\ ~returned /\ unsent = {m}
      BY <2>1, <2>2 DEF IInv, EmptyOnce
    <3>2. Len(wire) = 0
      BY <3>1
    <3> QED BY <2>1, <2>2, <2>5, <3>1, <3>2
  <2> QED BY <2>7, <2>8, <2>9, <2>10, <2>11 DEF IInv
<1>5. CASE ReceiveChunk
  <2> DEFINE m == Head(wire)
  <2>1. /\ ~returned /\ wire # <<>>
        /\ received' = received + m.len
        /\ chunks' = Insert(chunks, m.offset, m.len)
        /\ returned' = (received + m.len = m.total)
        /\ wire' = Tail(wire)
        /\ UNCHANGED <<total, head, pc, unsent>>
    BY <1>5 DEF ReceiveChunk
  <2>2. /\ wire \in Seq(Chunk) /\ Len(wire) \in Nat /\ Len(wire) > 0
        /\ m = wire[1] /\ m \in Chunk /\ WellCut(m)
    BY <2>1, LenProperties, EmptySeq DEF IInv, TypeOK, Inside
  <2>3. /\ m.offset \in Nat /\ m.len \in Nat /\ m.total = total
        /\ m.offset + m.len <= head /\ (total > 0 => m.len > 0)
    BY <2>2 DEF Chunk, WellCut
  <2>4. /\ wire' \in Seq(Chunk) /\ Len(wire') = Len(wire) - 1
        /\ \A i \in 1..Len(wire') : i + 1 \in 2..Len(wire) /\ wire'[i] = wire[i + 1]
    BY <2>1, <2>2, HeadTailProperties
  <2>5. /\ DOMAIN chunks \subseteq 0..MaxLen
        /\ \A o \in DOMAIN chunks : o \in Nat /\ chunks[o] \in 0..MaxLen
        /\ \A o \in DOMAIN chunks : Apart(m.offset, m.len, o, chunks[o])
        /\ \A o \in DOMAIN chunks : o + chunks[o] <= head
    BY <2>2, SMTT(30) DEF IInv, TypeOK, Disjoint, Inside
  <2>6. m.offset \in DOMAIN chunks => m.len > 0 \/ chunks[m.offset] = 0
    BY <2>3, <2>5, <1>t
  <2>7. /\ DOMAIN chunks' = DOMAIN chunks \cup {m.offset}
        /\ chunks'[m.offset] = m.len
        /\ \A o \in DOMAIN chunks : o # m.offset => chunks'[o] = chunks[o]
        /\ chunks' = [o \in DOMAIN chunks' |-> chunks'[o]]
    BY <2>1 DEF Insert
  <2>8. Inside'
    <3>1. (\A k \in unsent : WellCut(k))'
      BY <2>1 DEF IInv, Inside, WellCut
    <3>2. (\A i \in 1..Len(wire) : WellCut(wire[i]))'
      BY <2>1, <2>2, <2>4 DEF IInv, Inside, WellCut
    <3>3. (\A o \in DOMAIN chunks : o + chunks[o] <= head)'
      BY <2>1, <2>3, <2>5, <2>7
    <3> QED BY <1>t, <2>1, <3>1, <3>2, <3>3 DEF Inside
  <2>9. Counted'
    <3>1. /\ IsFiniteSet(Covered(chunks)) /\ Cardinality(Covered(chunks)) = received
      BY DEF IInv, Counted
    <3>2. chunks \in [DOMAIN chunks -> Nat] /\ DOMAIN chunks \subseteq Nat
      BY <2>5 DEF IInv, TypeOK
    <3>3. /\ IsFiniteSet(Covered(Insert(chunks, m.offset, m.len)))
          /\ Cardinality(Covered(Insert(chunks, m.offset, m.len)))
               = Cardinality(Covered(chunks)) + m.len
      BY <2>3, <2>5, <2>6, <3>1, <3>2, InsertCounts
    <3>4. Covered(chunks') = Covered(Insert(chunks, m.offset, m.len))
      BY <2>1
    <3>5. Covered(chunks)' = Covered(chunks')
      BY DEF Covered
    <3>6. returned' => received' = total'
      BY <2>1, <2>3
    <3> QED BY <2>1, <3>1, <3>3, <3>4, <3>5, <3>6 DEF Counted
  <2>10. TypeOK'
    <3>1. \A o \in DOMAIN chunks' : o \in 0..MaxLen /\ chunks'[o] \in 0..MaxLen
      BY <2>3, <2>5, <2>7, <1>t
    <3>2. (DOMAIN chunks \subseteq 0..MaxLen)' /\ chunks' \in [DOMAIN chunks' -> 0..MaxLen]
      BY <2>7, <3>1
    <3>3. Covered(chunks') \subseteq 0..(total - 1)
      <4> SUFFICES ASSUME NEW o \in DOMAIN chunks', NEW i \in Bytes(o, chunks'[o])
                   PROVE  i \in 0..(total - 1)
        BY DEF Covered
      <4>1. o + chunks'[o] <= total /\ o \in Nat /\ chunks'[o] \in Nat
        BY <2>1, <2>3, <2>8, <3>1, <1>t DEF Inside
      <4> QED BY <4>1, <1>t DEF Bytes
    <3>4. IsFiniteSet(0..(total - 1)) /\ Cardinality(0..(total - 1)) = total
      BY <1>t, FS_Interval
    <3>5. Cardinality(Covered(chunks')) = received'
      BY <2>9 DEF Counted, Covered
    <3>6. Cardinality(Covered(chunks')) <= total
      BY <3>3, <3>4, FS_Subset
    <3>7. received' \in 0..MaxLen
      BY <2>1, <2>3, <3>5, <3>6, <1>t
    <3>8. returned' \in BOOLEAN
      BY <2>1
    <3> QED BY <2>1, <2>4, <3>2, <3>7, <3>8 DEF IInv, TypeOK
  <2>11. Disjoint'
    <3>1. (\A k, n \in unsent : k # n => Apart(k.offset, k.len, n.offset, n.len))'
      BY <2>1 DEF IInv, Disjoint
    <3>2. (\A k \in unsent, i \in 1..Len(wire) :
             Apart(k.offset, k.len, wire[i].offset, wire[i].len))'
      BY <2>1, <2>2, <2>4 DEF IInv, Disjoint
    <3>3. (\A i, j \in 1..Len(wire) :
             i # j => Apart(wire[i].offset, wire[i].len,
                            wire[j].offset, wire[j].len))'
      BY <2>1, <2>2, <2>4 DEF IInv, Disjoint
    <3>4. (\A k \in unsent, o \in DOMAIN chunks :
             Apart(k.offset, k.len, o, chunks[o]))'
      <4>1. \A k \in unsent : Apart(k.offset, k.len, m.offset, m.len)
        BY <2>2 DEF IInv, Disjoint
      <4>2. \A k \in unsent, o \in DOMAIN chunks : Apart(k.offset, k.len, o, chunks[o])
        BY DEF IInv, Disjoint
      <4> QED BY <2>1, <2>7, <4>1, <4>2
    <3>5. (\A i \in 1..Len(wire), o \in DOMAIN chunks :
             Apart(wire[i].offset, wire[i].len, o, chunks[o]))'
      BY <2>1, <2>2, <2>4, <2>7, SMTT(30) DEF IInv, Disjoint
    <3>6. (\A o, p \in DOMAIN chunks : o # p => Apart(o, chunks[o], p, chunks[p]))'
      BY <2>3, <2>5, <2>7 DEF IInv, Disjoint, Apart
    <3> QED BY <3>1, <3>2, <3>3, <3>4, <3>5, <3>6 DEF Disjoint
  <2>12. EmptyOnce'
    <3> SUFFICES ASSUME total = 0
                 PROVE  pc = "send" /\ unsent' = {} /\ wire' = <<>> /\ returned'
      BY <2>1 DEF EmptyOnce
    <3>1. pc = "send" /\ unsent = {} /\ Len(wire) = 1
      BY <2>1 DEF IInv, EmptyOnce
    <3>2. Len(wire') = 0 /\ wire' = <<>>
      BY <2>4, <3>1, EmptySeq
    <3>3. received + m.len = 0
      <4>1. m.len = 0
        BY <2>3, <1>t
      <4>2. received = 0
        BY ReceivedBounded DEF IInv
      <4> QED BY <4>1, <4>2
    <3> QED BY <2>1, <2>3, <3>1, <3>2, <3>3
  <2> QED BY <2>8, <2>9, <2>10, <2>11, <2>12 DEF IInv
<1>6. CASE UNCHANGED vars
  <2>1. TypeOK' /\ Inside' /\ Disjoint' /\ EmptyOnce'
    BY <1>6 DEF vars, IInv, TypeOK, Inside, WellCut, Disjoint, EmptyOnce
  <2>2. Counted'
    BY <1>6 DEF vars, IInv, Counted, Covered
  <2> QED BY <2>1, <2>2 DEF IInv
<1> QED BY <1>1, <1>2, <1>3, <1>4, <1>5, <1>6 DEF Next

-----------------------------------------------------------------------------
(* The theorems.                                                           *)

\* The invariant holds throughout the read.
LEMMA Invariance == Spec => []IInv
BY InitIInv, NextIInv, PTL DEF Spec

\* Every variable of a read in progress keeps its type; in particular the
\* count of combine_read_chunks never exceeds the payload's length.
THEOREM TypeCorrect == Spec => []TypeOK
<1>1. IInv => TypeOK
  BY DEF IInv
<1> QED BY <1>1, Invariance, PTL

\* When combine_read_chunks returns, every byte of the payload is held by
\* exactly one chunk of its map, whatever the payload, the chunk size and the
\* order of arrival.
THEOREM Reassembly == Spec => []EveryByteOnce
<1>1. ASSUME IInv PROVE EveryByteOnce
  <2> SUFFICES ASSUME returned PROVE EveryByteOnce!2
    BY DEF EveryByteOnce
  <2>1. Covered(chunks) = 0..(total - 1)
    BY <1>1, ReceivedBounded DEF IInv, Counted
  <2>2. \A o \in DOMAIN chunks : Bytes(o, chunks[o]) \subseteq 0..(total - 1)
    BY <2>1 DEF Covered
  <2>3. ASSUME NEW i \in 0..(total - 1)
        PROVE  \E o \in DOMAIN chunks :
                 /\ i \in Bytes(o, chunks[o])
                 /\ \A p \in DOMAIN chunks : i \in Bytes(p, chunks[p]) => p = o
    <3>1. PICK o \in DOMAIN chunks : i \in Bytes(o, chunks[o])
      BY <2>1 DEF Covered
    <3>2. ASSUME NEW p \in DOMAIN chunks, i \in Bytes(p, chunks[p]), p # o
          PROVE  FALSE
      <4>1. Apart(o, chunks[o], p, chunks[p])
        BY <1>1, <3>2 DEF IInv, Disjoint
      <4>2. /\ o \in Nat /\ p \in Nat /\ chunks[o] \in Nat /\ chunks[p] \in Nat
        BY <1>1 DEF IInv, TypeOK
      <4> QED BY <3>1, <3>2, <4>1, <4>2 DEF Apart, Bytes
    <3> QED BY <3>1, <3>2
  <2> QED BY <2>2, <2>3
<1> QED BY <1>1, Invariance, PTL

\* A read that has returned has no chunk left in a task or on the wire: the
\* listener can be dropped without a stray message finding it gone.
THEOREM NothingLeftBehind == Spec => []NoStrayChunk
<1>1. ASSUME IInv PROVE NoStrayChunk
  <2> SUFFICES ASSUME returned PROVE unsent = {} /\ wire = <<>>
    BY DEF NoStrayChunk
  <2>1. CASE total = 0
    BY <1>1, <2>1 DEF IInv, EmptyOnce
  <2>2. CASE total > 0
    <3>1. Covered(chunks) = 0..(total - 1)
      BY <1>1, ReceivedBounded DEF IInv, Counted
    <3>2. ASSUME NEW m \in Chunk, WellCut(m),
                 \A o \in DOMAIN chunks : Apart(m.offset, m.len, o, chunks[o])
          PROVE  FALSE
      <4>1. m.offset \in 0..(total - 1) /\ m.len \in Nat /\ m.len > 0
        BY <1>1, <2>2, <3>2, ChunkAssumption DEF IInv, TypeOK, Inside, WellCut, Chunk
      <4>2. PICK o \in DOMAIN chunks : m.offset \in Bytes(o, chunks[o])
        BY <3>1, <4>1 DEF Covered
      <4>3. o \in Nat /\ chunks[o] \in Nat
        BY <1>1 DEF IInv, TypeOK
      <4> QED BY <3>2, <4>1, <4>2, <4>3 DEF Apart, Bytes
    <3>3. unsent = {}
      BY <1>1, <3>2 DEF IInv, TypeOK, Inside, Disjoint
    <3>4. Len(wire) = 0
      <4> SUFFICES ASSUME Len(wire) # 0 PROVE FALSE
        OBVIOUS
      <4>1. 1 \in 1..Len(wire) /\ wire[1] \in Chunk
        BY <1>1, LenProperties DEF IInv, TypeOK
      <4> QED BY <1>1, <3>2, <4>1 DEF IInv, Inside, Disjoint
    <3> QED BY <1>1, <3>3, <3>4, EmptySeq DEF IInv, TypeOK
  <2> QED BY <1>1, <2>1, <2>2, ChunkAssumption DEF IInv, TypeOK
<1> QED BY <1>1, Invariance, PTL

-----------------------------------------------------------------------------
(* The bytes collected.                                                    *)

\* The offsets of the chunks can be listed in ascending order, and Offsets
\* lists them all.
LEMMA OffsetsList ==
    ASSUME TypeOK
    PROVE  \E n \in Nat :
             /\ n = Cardinality(DOMAIN chunks)
             /\ Offsets \in [1..n -> DOMAIN chunks]
             /\ \A i, j \in 1..n : i < j => Offsets[i] < Offsets[j]
             /\ \A o \in DOMAIN chunks : \E i \in 1..n : Offsets[i] = o
<1>1. PICK keys : keys = DOMAIN chunks
  OBVIOUS
<1>2. keys \in SUBSET Nat /\ IsFiniteSet(keys)
  <2>1. keys \in SUBSET (0..MaxLen)
    BY <1>1 DEF TypeOK
  <2>2. IsFiniteSet(0..MaxLen)
    BY ChunkAssumption, FS_Interval
  <2>3. IsFiniteSet(keys)
    BY <2>1, <2>2, FS_Subset
  <2> QED BY <2>1, <2>3
<1>3. PICK n \in Nat : n = Cardinality(keys)
  BY <1>2, FS_CardinalityType
<1> DEFINE Sorted(s) == s \in [1..n -> keys] /\ \A i, j \in 1..n : i < j => s[i] < s[j]
<1>4. \E s : Sorted(s)
  BY <1>2, <1>3, AscendingExists
<1>5. Offsets = CHOOSE s \in [1..n -> keys] : \A i, j \in 1..n : i < j => s[i] < s[j]
  BY <1>1, <1>3 DEF Offsets
<1>6. Sorted(Offsets)
  BY <1>4, <1>5
<1>7. \A o \in keys : \E i \in 1..n : Offsets[i] = o
  BY <1>2, <1>3, <1>6, AscendingOnto
<1> QED BY <1>1, <1>3, <1>6, <1>7

\* The chunks in ascending order tile the payload once the call has returned.
LEMMA OffsetsTile ==
    ASSUME IInv, returned, NEW n \in Nat,
           Offsets \in [1..n -> DOMAIN chunks],
           \A i, j \in 1..n : i < j => Offsets[i] < Offsets[j],
           \A o \in DOMAIN chunks : \E i \in 1..n : Offsets[i] = o
    PROVE  Tiling(n, total, Offsets, [i \in 1..n |-> chunks[Offsets[i]]])
<1>1. PICK l : l = [i \in 1..n |-> chunks[Offsets[i]]]
  OBVIOUS
<1>2. \A o \in DOMAIN chunks : o \in Nat /\ chunks[o] \in Nat /\ o + chunks[o] <= total
  BY ChunkAssumption DEF IInv, TypeOK, Inside
<1>3. Covered(chunks) = 0..(total - 1)
  BY ReceivedBounded DEF IInv, Counted
<1>4. Offsets \in [1..n -> Nat] /\ l \in [1..n -> Nat]
  BY <1>1, <1>2
<1>5. \A i \in 1..n : Offsets[i] + l[i] <= total
  BY <1>1, <1>2
<1>6. ASSUME NEW i \in 1..n, NEW j \in 1..n, i < j
      PROVE  Offsets[i] < Offsets[j] /\ Offsets[i] + l[i] <= Offsets[j]
  <2>1. PICK a \in Nat : a = Offsets[i]
    BY <1>4
  <2>2. PICK b \in Nat : b = Offsets[j]
    BY <1>4
  <2>3. a < b /\ a \in DOMAIN chunks /\ b \in DOMAIN chunks
    BY <2>1, <2>2, <1>6
  <2>4. Apart(a, chunks[a], b, chunks[b])
    BY <2>3 DEF IInv, Disjoint
  <2>5. chunks[a] \in Nat /\ chunks[b] \in Nat
    BY <2>3, <1>2
  <2>6. a + chunks[a] <= b
    BY <2>3, <2>4, <2>5 DEF Apart
  <2> QED BY <2>1, <2>2, <2>3, <2>6, <1>1
<1>7. ASSUME NEW b \in 0..(total - 1)
      PROVE  \E i \in 1..n : Offsets[i] <= b /\ b < Offsets[i] + l[i]
  <2>1. PICK o \in DOMAIN chunks : b \in Bytes(o, chunks[o])
    BY <1>3 DEF Covered
  <2>2. PICK i \in 1..n : Offsets[i] = o
    OBVIOUS
  <2>3. o <= b /\ b < o + chunks[o]
    BY <2>1, <1>2 DEF Bytes
  <2> QED BY <2>2, <2>3, <1>1
<1>8. Tiling(n, total, Offsets, l)
  BY <1>4, <1>5, <1>6, <1>7 DEF Tiling
<1> QED BY <1>1, <1>8

\* The caller of read and read_dir gets the payload byte for byte: the values
\* of the map in the order of its keys, end to end, are the payload, whatever
\* its length, the chunk size and the order of arrival.
THEOREM PayloadReturned == Spec => []CallerGetsPayload
<1>1. ASSUME IInv PROVE CallerGetsPayload
  <2> SUFFICES ASSUME returned PROVE Collected = [i \in 1..total |-> i - 1]
    BY DEF CallerGetsPayload
  <2>1. PICK n \in Nat :
          /\ Offsets \in [1..n -> DOMAIN chunks]
          /\ \A i, j \in 1..n : i < j => Offsets[i] < Offsets[j]
          /\ \A o \in DOMAIN chunks : \E i \in 1..n : Offsets[i] = o
    BY <1>1, OffsetsList DEF IInv
  <2>2. PICK s : s = Offsets
    OBVIOUS
  <2>3. PICK l : l = [i \in 1..n |-> chunks[s[i]]]
    OBVIOUS
  <2>4. Tiling(n, total, s, l)
    BY <1>1, <2>1, <2>2, <2>3, OffsetsTile
  <2>5. PICK ss : ss = [k \in DOMAIN s |-> [j \in 1..chunks[s[k]] |-> s[k] + j - 1]]
    OBVIOUS
  <2>6. Collected = FlattenSeq(ss)
    BY <2>2, <2>5 DEF Collected
  <2>7. total \in Nat /\ s \in [1..n -> Nat] /\ l \in [1..n -> Nat] /\ DOMAIN s = 1..n
    BY <1>1, <2>4, ChunkAssumption DEF IInv, TypeOK, Tiling
  <2>8. ASSUME NEW k \in 1..n
        PROVE  /\ ss[k] \in Seq(Int) /\ Len(ss[k]) = l[k]
               /\ \A j \in 1..l[k] : ss[k][j] = s[k] + j - 1
    <3>1. PICK a \in Nat : a = s[k]
      BY <2>7
    <3>2. PICK c \in Nat : c = l[k] /\ c = chunks[s[k]]
      BY <2>3, <2>7
    <3>3. ss[k] = [j \in 1..c |-> a + j - 1]
      BY <2>5, <2>7, <3>1, <3>2
    <3> QED BY <3>1, <3>2, <3>3
  <2>9. ss \in Seq(Seq(Int)) /\ Len(ss) = n
    BY <2>5, <2>7, <2>8
  <2>10. PICK all \in Seq(Int) : all = FlattenSeq(ss)
    BY <2>9, FlattenBlocks
  <2>11. PICK pos \in [0..n -> Nat] :
           /\ pos[0] = 0
           /\ pos[n] = Len(all)
           /\ \A k \in 1..n :
                /\ pos[k] = pos[k - 1] + Len(ss[k])
                /\ \A j \in 1..Len(ss[k]) : all[pos[k - 1] + j] = ss[k][j]
    <3>1. LaidOut(ss, all)
      BY <2>9, <2>10, FlattenBlocks
    <3> QED BY <2>9, <3>1 DEF LaidOut
  <2>12. EndToEnd(n, l, pos)
    BY <2>8, <2>11 DEF EndToEnd
  <2>13. /\ \A k \in 1..n : s[k] = pos[k - 1]
         /\ Len(all) = total
    <3>1. PICK t \in Nat : t = total
      BY <2>7
    <3>2. Tiling(n, t, s, l)
      BY <3>1, <2>4
    <3>3. (\A k \in 1..n : s[k] = pos[k - 1]) /\ pos[n] = t
      BY <3>2, <2>12, Tiles
    <3> QED BY <3>1, <3>3, <2>11
  <2>14. ASSUME NEW i \in 1..total PROVE all[i] = i - 1
    <3>1. i - 1 \in 0..(total - 1)
      BY <2>7
    <3>2. PICK k \in 1..n : s[k] <= i - 1 /\ i - 1 < s[k] + l[k]
      BY <2>4, <3>1 DEF Tiling
    <3>3. PICK a \in Nat : a = s[k]
      BY <2>7
    <3>4. PICK c \in Nat : c = l[k]
      BY <2>7
    <3>5. PICK j : j = i - a
      OBVIOUS
    <3>6. j \in 1..c /\ a + j = i /\ a + j - 1 = i - 1
      <4>1. i \in Nat /\ a <= i - 1 /\ i - 1 < a + c
        BY <2>7, <3>2, <3>3, <3>4
      <4> QED BY <4>1, <3>5
    <3>7. all[pos[k - 1] + j] = ss[k][j]
      BY <2>8, <2>11, <3>4, <3>6
    <3>8. ss[k][j] = a + j - 1
      BY <2>8, <3>3, <3>4, <3>6
    <3>9. pos[k - 1] = a
      BY <2>13, <3>3
    <3> QED BY <3>6, <3>7, <3>8, <3>9
  <2>15. all = [i \in 1..total |-> all[i]]
    BY <2>10, <2>13
  <2>16. all = [i \in 1..total |-> i - 1]
    BY <2>14, <2>15
  <2> QED BY <2>6, <2>10, <2>16
<1> QED BY <1>1, Invariance, PTL

=============================================================================
