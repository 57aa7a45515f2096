---------------------------- MODULE Codec_proofs -----------------------------
(***************************************************************************)
(* However TCP cuts the stream, the receiver decodes the messages that were *)
(* sent and fails only for cause, for names, bytes and numbers of messages *)
(* of any kind.                                                            *)
(*                                                                         *)
(* The inductive invariant lays the messages sent out on the stream of all *)
(* bytes ever written: message k is at the bytes from pos[k - 1] + 1 on.   *)
(* While every name has fitted, the buffer starts where the next message   *)
(* to be decoded does.                                                     *)
(***************************************************************************)
EXTENDS Codec, Induction_proofs, SequenceTheorems

\* The bytes W hold the messages sent, one after the other.
Layout(W, pos) ==
    /\ pos[Len(sent)] = Len(W)
    /\ \A k \in 1..Len(sent) :
         /\ pos[k] = pos[k - 1] + Len(Encode(sent[k]))
         /\ pos[k] <= Len(W)
         /\ \A j \in 1..Len(Encode(sent[k])) : W[pos[k - 1] + j] = Encode(sent[k])[j]

\* The receiver has decoded what was sent; the buffer and the wire hold the
\* bytes after it, and all of them unless the connection has broken.
InStep(W, pos) ==
    LET at == pos[Len(decoded)] IN
    /\ Len(decoded) <= Len(sent)
    /\ \A k \in 1..Len(decoded) : decoded[k] = sent[k]
    /\ at + Len(buf) + Len(wire) <= Len(W)
    /\ link # "broken" => at + Len(buf) + Len(wire) = Len(W)
    /\ \A k \in 1..Len(buf) : buf[k] = W[at + k]
    /\ \A k \in 1..Len(wire) : wire[k] = W[at + Len(buf) + k]

\* The receiver has taken a message whose name did not fit for another one.
Strayed ==
    \E f \in 1..Len(sent) :
      /\ f <= Len(decoded) /\ ~Fits(sent[f])
      /\ \A k \in 1..(f - 1) : decoded[k] = sent[k]

InStepOrStrayed ==
    Strayed \/ \E W \in Seq(Byte) : \E pos \in [0..Len(sent) -> Nat] : Layout(W, pos) /\ InStep(W, pos)

IInv == TypeOK /\ FailsOnlyForCause /\ InStepOrStrayed

-----------------------------------------------------------------------------
(* What encoding writes.                                                   *)

DecodedMessage ==
    [kind : {"bare"}] \cup [kind : {"tagged"}, tag : Tags]
      \cup [kind : {"masked"}, size : Seq(Byte), mtime : Seq(Byte)]
      \cup [kind : {"named"}, name : Seq(Byte)]

\* The headers and the tags are bytes.
LEMMA SmallBytes ==
    ASSUME NEW n \in Nat, n <= 4
    PROVE  n \in Byte
  BY CodecAssumption DEF Byte

\* Every length byte is a byte, and the length itself if it fits.
LEMMA LengthBytes ==
    ASSUME NEW s \in Seq(Byte)
    PROVE  /\ LengthByte(s) \in Byte
           /\ Len(s) < ByteValues => LengthByte(s) = Len(s)
<1>1. Len(s) \in Nat /\ ByteValues \in Nat /\ ByteValues > 0
  BY CodecAssumption
<1>2. Len(s) % ByteValues \in Nat /\ Len(s) % ByteValues <= ByteValues - 1
  BY <1>1, SMT
<1>3. Len(s) < ByteValues => Len(s) % ByteValues = Len(s)
  BY <1>1, SMT
<1> QED BY <1>1, <1>2, <1>3 DEF LengthByte, Byte

LEMMA SmallNumbers ==
    ASSUME NEW n \in Nat
    PROVE  /\ n = 0 \/ n = 1 \/ n >= 2
           /\ n < 1 => n = 0
           /\ n < 2 => n = 0 \/ n = 1
  OBVIOUS

\* Bytes written one after the other.
LEMMA Joined ==
    ASSUME NEW s \in Seq(Byte), NEW t \in Seq(Byte)
    PROVE  /\ s \o t \in Seq(Byte)
           /\ Len(s \o t) = Len(s) + Len(t)
           /\ \A i \in 1..Len(s) : (s \o t)[i] = s[i]
           /\ \A i \in 1..Len(t) : (s \o t)[Len(s) + i] = t[i]
  BY Len(s) \in Nat, Len(t) \in Nat

\* Bytes cut out of others.
LEMMA Cut ==
    ASSUME NEW s \in Seq(Byte), NEW a \in Nat, NEW b \in Nat, 1 <= a, a <= b + 1, b <= Len(s)
    PROVE  /\ SubSeq(s, a, b) \in Seq(Byte)
           /\ Len(SubSeq(s, a, b)) = b - a + 1
           /\ \A i \in 1..(b - a + 1) : SubSeq(s, a, b)[i] = s[a + i - 1]
<1>1. \A i \in a..b : s[i] \in Byte
  BY Len(s) \in Nat
<1> QED BY <1>1, SubSeqProperties

\* LookupReq and the others with a name (messages.rs:41): the header, the
\* length byte and the name.
LEMMA NamedBytes ==
    ASSUME NEW m \in Message, m.kind = "named"
    PROVE  /\ m = [kind |-> "named", name |-> m.name]
           /\ m.name \in Seq(Byte)
           /\ Encode(m) \in Seq(Byte)
           /\ Len(Encode(m)) = 2 + Len(m.name)
           /\ Encode(m)[1] = NamedHeader
           /\ Encode(m)[2] = LengthByte(m.name)
           /\ \A j \in 1..Len(m.name) : Encode(m)[2 + j] = m.name[j]
<1>1. m = [kind |-> "named", name |-> m.name] /\ m.name \in Names
  BY DEF Message
<1>2. m.name \in Seq(Byte) /\ Len(m.name) \in Nat
  BY <1>1, CodecAssumption
<1>3. LengthByte(m.name) \in Byte /\ NamedHeader \in Byte
  BY <1>2, LengthBytes, SmallBytes DEF NamedHeader
<1> DEFINE head == <<NamedHeader, LengthByte(m.name)>>
<1>4. head \in Seq(Byte) /\ Len(head) = 2 /\ head[1] = NamedHeader /\ head[2] = LengthByte(m.name)
  BY <1>3
<1>5. Encode(m) = head \o m.name
  BY DEF Encode
<1> HIDE DEF head
<1>6. /\ Encode(m) \in Seq(Byte)
      /\ Len(Encode(m)) = 2 + Len(m.name)
      /\ \A i \in 1..2 : Encode(m)[i] = head[i]
      /\ \A j \in 1..Len(m.name) : Encode(m)[2 + j] = m.name[j]
  <2>1. /\ head \o m.name \in Seq(Byte)
        /\ Len(head \o m.name) = Len(head) + Len(m.name)
        /\ \A i \in 1..Len(head) : (head \o m.name)[i] = head[i]
        /\ \A i \in 1..Len(m.name) : (head \o m.name)[Len(head) + i] = m.name[i]
    BY <1>2, <1>4, Joined
  <2> QED BY <1>4, <1>5, <2>1
<1> QED BY <1>1, <1>2, <1>4, <1>6

LEMMA BareBytes ==
    ASSUME NEW m \in Message, m.kind = "bare"
    PROVE  /\ m = [kind |-> "bare"]
           /\ Encode(m) \in Seq(Byte) /\ Len(Encode(m)) = 1 /\ Encode(m)[1] = BareHeader
<1>1. m = [kind |-> "bare"]
  BY DEF Message
<1>2. BareHeader \in Byte
  BY SmallBytes DEF BareHeader
<1>3. Encode(m) = <<BareHeader>>
  BY DEF Encode
<1>4. <<BareHeader>> \in Seq(Byte) /\ Len(<<BareHeader>>) = 1 /\ <<BareHeader>>[1] = BareHeader
  BY <1>2
<1> QED BY <1>1, <1>3, <1>4

LEMMA TaggedBytes ==
    ASSUME NEW m \in Message, m.kind = "tagged"
    PROVE  /\ m = [kind |-> "tagged", tag |-> m.tag] /\ m.tag \in Tags
           /\ Encode(m) \in Seq(Byte) /\ Len(Encode(m)) = 2
           /\ Encode(m)[1] = TaggedHeader /\ Encode(m)[2] = m.tag
<1>1. m = [kind |-> "tagged", tag |-> m.tag] /\ m.tag \in Tags
  BY DEF Message
<1>2. TaggedHeader \in Byte /\ m.tag \in Byte
  BY <1>1, SmallBytes DEF TaggedHeader, Tags
<1>3. Encode(m) = <<TaggedHeader, m.tag>>
  BY DEF Encode
<1> QED BY <1>1, <1>2, <1>3

\* SetAttrReq (messages.rs:84): the header, the mask and the fields that are
\* there.
LEMMA MaskedBytes ==
    ASSUME NEW m \in Message, m.kind = "masked"
    PROVE  /\ m = [kind |-> "masked", size |-> m.size, mtime |-> m.mtime]
           /\ m.size \in Seq(Byte) /\ Len(m.size) \in {0, 1}
           /\ m.mtime \in Seq(Byte) /\ Len(m.mtime) \in {0, 1}
           /\ Encode(m) \in Seq(Byte)
           /\ Len(Encode(m)) = 2 + Len(m.size) + Len(m.mtime)
           /\ Encode(m)[1] = MaskedHeader
           /\ Encode(m)[2] = field_mask(m)
           /\ \A j \in 1..Len(m.size) : Encode(m)[2 + j] = m.size[j]
           /\ \A j \in 1..Len(m.mtime) : Encode(m)[2 + Len(m.size) + j] = m.mtime[j]
<1>1. m = [kind |-> "masked", size |-> m.size, mtime |-> m.mtime] /\ m.size \in Option /\ m.mtime \in Option
  BY DEF Message
<1>2. ASSUME NEW o \in Option PROVE o \in Seq(Byte) /\ Len(o) \in {0, 1}
  <2>1. 2 \in Byte
    BY SmallBytes
  <2>2. <<2>> \in Seq(Byte) /\ Len(<<2>>) = 1
    BY <2>1
  <2>3. o = <<>> \/ o = <<2>>
    BY DEF Option
  <2>4. CASE o = <<>>
    BY <2>4, EmptySeq
  <2> QED BY <2>2, <2>3, <2>4
<1>3. m.size \in Seq(Byte) /\ Len(m.size) \in {0, 1} /\ m.mtime \in Seq(Byte) /\ Len(m.mtime) \in {0, 1}
  BY <1>1, <1>2
<1>4. field_mask(m) \in Byte /\ MaskedHeader \in Byte
  <2>1. ASSUME NEW a \in {0, 1}, NEW b \in {0, 1} PROVE a + 2 * b \in Nat /\ a + 2 * b <= 4
    OBVIOUS
  <2>2. field_mask(m) \in Nat /\ field_mask(m) <= 4
    BY <1>3, <2>1 DEF field_mask
  <2> QED BY <2>2, SmallBytes DEF MaskedHeader
<1> DEFINE head == <<MaskedHeader, field_mask(m)>>
<1>5. head \in Seq(Byte) /\ Len(head) = 2 /\ head[1] = MaskedHeader /\ head[2] = field_mask(m)
  BY <1>4
<1>6. Encode(m) = (head \o m.size) \o m.mtime
  BY DEF Encode
<1> HIDE DEF head
<1> DEFINE front == head \o m.size
<1>7. /\ front \in Seq(Byte) /\ Len(front) = 2 + Len(m.size)
      /\ front[1] = MaskedHeader /\ front[2] = field_mask(m)
      /\ \A j \in 1..Len(m.size) : front[2 + j] = m.size[j]
  BY <1>3, <1>5, Joined, SMTT(30)
<1> HIDE DEF front
<1>8. Encode(m) = front \o m.mtime
  BY <1>6 DEF front
<1>9. /\ Encode(m) \in Seq(Byte)
      /\ Len(Encode(m)) = 2 + Len(m.size) + Len(m.mtime)
      /\ \A j \in 1..Len(front) : Encode(m)[j] = front[j]
      /\ \A j \in 1..Len(m.mtime) : Encode(m)[Len(front) + j] = m.mtime[j]
  <2>1. /\ front \o m.mtime \in Seq(Byte)
        /\ Len(front \o m.mtime) = Len(front) + Len(m.mtime)
        /\ \A i \in 1..Len(front) : (front \o m.mtime)[i] = front[i]
        /\ \A i \in 1..Len(m.mtime) : (front \o m.mtime)[Len(front) + i] = m.mtime[i]
    BY <1>3, <1>7, Joined
  <2> QED BY <1>3, <1>7, <1>8, <2>1
<1>10. Encode(m)[1] = MaskedHeader /\ Encode(m)[2] = field_mask(m)
  <2>1. 1 \in 1..Len(front) /\ 2 \in 1..Len(front)
    BY <1>3, <1>7
  <2> QED BY <1>7, <1>9, <2>1
<1>11. ASSUME NEW j \in 1..Len(m.size) PROVE Encode(m)[2 + j] = m.size[j]
  <2>1. 2 + j \in 1..Len(front)
    BY <1>3, <1>7
  <2> QED BY <1>7, <1>9, <2>1
<1> QED BY <1>1, <1>3, <1>7, <1>9, <1>10, <1>11

LEMMA Kinds ==
    ASSUME NEW m \in Message
    PROVE  m.kind \in {"bare", "tagged", "masked", "named"}
  BY DEF Message

LEMMA EncodeBytes ==
    ASSUME NEW m \in Message
    PROVE  Encode(m) \in Seq(Byte) /\ Len(Encode(m)) >= 1
<1>1. CASE m.kind = "bare"
  BY <1>1, BareBytes
<1>2. CASE m.kind = "tagged"
  BY <1>2, TaggedBytes
<1>3. CASE m.kind = "masked"
  <2>1. Encode(m) \in Seq(Byte) /\ m.size \in Seq(Byte) /\ m.mtime \in Seq(Byte)
    BY <1>3, MaskedBytes
  <2>2. Len(Encode(m)) = 2 + Len(m.size) + Len(m.mtime)
    BY <1>3, MaskedBytes
  <2>3. Len(m.size) \in Nat /\ Len(m.mtime) \in Nat
    BY <2>1, LenProperties
  <2>4. ASSUME NEW a \in Nat, NEW b \in Nat PROVE 2 + a + b >= 1
    OBVIOUS
  <2> QED BY <2>1, <2>2, <2>3, <2>4
<1>4. CASE m.kind = "named"
  <2>1. m.name \in Seq(Byte) /\ Encode(m) \in Seq(Byte) /\ Len(Encode(m)) = 2 + Len(m.name)
    BY <1>4, NamedBytes
  <2> QED BY <2>1
<1> QED BY <1>1, <1>2, <1>3, <1>4, Kinds

-----------------------------------------------------------------------------
(* What parsing makes of it.                                               *)

\* The bytes b start with all that encodes m.
StartsWith(b, m) ==
    /\ Len(Encode(m)) <= Len(b)
    /\ \A j \in 1..Len(Encode(m)) : b[j] = Encode(m)[j]

\* The bytes b are the start of what encodes m, and not all of it.
PartOf(b, m) ==
    /\ Len(b) < Len(Encode(m))
    /\ \A j \in 1..Len(b) : b[j] = Encode(m)[j]

LEMMA EmptyIsEof ==
    ASSUME NEW b \in Seq(Byte), Len(b) = 0
    PROVE  Read(b) = UnexpectedEof /\ b = <<>>
<1>1. b = <<>>
  BY EmptySeq
<1> QED BY <1>1 DEF Read

\* The magic byte chooses the variant.
LEMMA ReadByHeader ==
    ASSUME NEW b \in Seq(Byte), Len(b) >= 1
    PROVE  /\ b[1] = BareHeader => Read(b) = Complete([kind |-> "bare"], 1)
           /\ b[1] = TaggedHeader => Read(b) = ReadTagged(b)
           /\ b[1] = MaskedHeader => Read(b) = ReadMasked(b)
           /\ b[1] = NamedHeader => Read(b) = ReadNamed(b)
           /\ b[1] \notin {BareHeader, TaggedHeader, MaskedHeader, NamedHeader} => Read(b) = BadData
<1>1. b # <<>>
  BY EmptySeq
<1> QED BY <1>1 DEF Read, BareHeader, TaggedHeader, MaskedHeader, NamedHeader

\* The two bits of a mask, as it is written and as it is read.
LEMMA MaskBits ==
    ASSUME NEW s \in {0, 1}, NEW t \in {0, 1}
    PROVE  (s + 2 * t) % 2 = s /\ ((s + 2 * t) \div 2) % 2 = t
  OBVIOUS

LEMMA BitValues ==
    ASSUME NEW n \in Nat
    PROVE  n % 2 \in {0, 1} /\ (n \div 2) % 2 \in {0, 1}
<1>1. n % 2 \in 0..1 /\ n \div 2 \in Nat
  OBVIOUS
<1>2. (n \div 2) % 2 \in 0..1
  BY <1>1
<1> QED BY <1>1, <1>2

LEMMA ReadNamedMessage ==
    ASSUME NEW m \in Message, m.kind = "named", NEW b \in Seq(Byte)
    PROVE  /\ StartsWith(b, m) /\ Fits(m) => Read(b) = Complete(m, Len(Encode(m)))
           /\ PartOf(b, m) /\ Fits(m) => Read(b) = UnexpectedEof
<1> DEFINE e == Encode(m)
           name == m.name
<1>1. /\ m = [kind |-> "named", name |-> name] /\ name \in Seq(Byte)
      /\ e \in Seq(Byte) /\ Len(e) = 2 + Len(name)
      /\ e[1] = NamedHeader /\ e[2] = LengthByte(name)
      /\ \A j \in 1..Len(name) : e[2 + j] = name[j]
  BY NamedBytes
<1>2. Fits(m) => e[2] = Len(name)
  BY <1>1, LengthBytes DEF Fits
<1>3. Len(name) \in Nat /\ Len(b) \in Nat
  BY <1>1
<1> HIDE DEF e, name
<1>4. ASSUME StartsWith(b, m), Fits(m) PROVE Read(b) = Complete(m, Len(e))
  <2>1. Len(e) <= Len(b) /\ \A j \in 1..Len(e) : b[j] = e[j]
    BY <1>4 DEF StartsWith, e
  <2>2. b[1] = NamedHeader /\ b[2] = Len(name) /\ Len(b) >= 2 + Len(name)
    BY <1>1, <1>2, <1>3, <1>4, <2>1
  <2>3. Read(b) = ReadNamed(b)
    BY <1>3, <2>2, ReadByHeader
  <2>4. NameAt(b, 2) = SubSeq(b, 3, 2 + Len(name)) /\ NameEnd(b, 2) = 2 + Len(name)
    BY <1>3, <2>2 DEF NameAt, NameEnd
  <2>5. SubSeq(b, 3, 2 + Len(name)) = name
    <3> DEFINE c == SubSeq(b, 3, 2 + Len(name))
    <3>1. /\ c \in Seq(Byte) /\ Len(c) = Len(name)
          /\ \A i \in 1..Len(name) : c[i] = b[2 + i]
      BY <1>3, <2>2, Cut
    <3>2. \A i \in 1..Len(name) : b[2 + i] = name[i]
      BY <1>1, <1>3, <2>1
    <3> HIDE DEF c
    <3>3. c = name
      BY <1>1, <3>1, <3>2, SeqEqual
    <3> QED BY <3>3 DEF c
  <2>6. ReadNamed(b) = Complete([kind |-> "named", name |-> name], 2 + Len(name))
    <3>1. ~(Len(b) < 2 \/ Len(b) < NameEnd(b, 2))
      BY <1>3, <2>2, <2>4
    <3> QED BY <2>4, <2>5, <3>1 DEF ReadNamed
  <2> QED BY <1>1, <2>3, <2>6
<1>5. ASSUME PartOf(b, m), Fits(m) PROVE Read(b) = UnexpectedEof
  <2>1. Len(b) < Len(e) /\ \A j \in 1..Len(b) : b[j] = e[j]
    BY <1>5 DEF PartOf, e
  <2>2. CASE Len(b) = 0
    BY <2>2, EmptyIsEof
  <2>3. CASE Len(b) >= 1
    <3>1. b[1] = NamedHeader
      BY <1>1, <1>3, <2>1, <2>3
    <3>2. Read(b) = ReadNamed(b)
      BY <2>3, <3>1, ReadByHeader
    <3>3. Len(b) < 2 \/ (b[2] = Len(name) /\ Len(b) < 2 + Len(name))
      BY <1>1, <1>2, <1>3, <1>5, <2>1
    <3> QED BY <1>3, <3>2, <3>3 DEF ReadNamed, NameEnd
  <2> QED BY <1>3, <2>2, <2>3
<1> QED BY <1>4, <1>5 DEF e

LEMMA ReadBareMessage ==
    ASSUME NEW m \in Message, m.kind = "bare", NEW b \in Seq(Byte)
    PROVE  /\ StartsWith(b, m) => Read(b) = Complete(m, Len(Encode(m)))
           /\ PartOf(b, m) => Read(b) = UnexpectedEof
<1>1. m = [kind |-> "bare"] /\ Len(Encode(m)) = 1 /\ Encode(m)[1] = BareHeader
  BY BareBytes
<1>2. ASSUME StartsWith(b, m) PROVE Read(b) = Complete(m, 1)
  <2>1. Len(b) >= 1 /\ b[1] = BareHeader
    BY <1>1, <1>2 DEF StartsWith
  <2> QED BY <1>1, <2>1, ReadByHeader
<1>3. ASSUME PartOf(b, m) PROVE Read(b) = UnexpectedEof
  <2>1. Len(b) = 0
    <3>1. Len(b) < Len(Encode(m))
      BY <1>3 DEF PartOf
    <3>2. Len(b) \in Nat
      OBVIOUS
    <3> QED BY <1>1, <3>1, <3>2, SmallNumbers
  <2> QED BY <2>1, EmptyIsEof
<1> QED BY <1>1, <1>2, <1>3

LEMMA ReadTaggedMessage ==
    ASSUME NEW m \in Message, m.kind = "tagged", NEW b \in Seq(Byte)
    PROVE  /\ StartsWith(b, m) => Read(b) = Complete(m, Len(Encode(m)))
           /\ PartOf(b, m) => Read(b) = UnexpectedEof
<1>1. /\ m = [kind |-> "tagged", tag |-> m.tag] /\ m.tag \in Tags /\ Len(Encode(m)) = 2
      /\ Encode(m)[1] = TaggedHeader /\ Encode(m)[2] = m.tag
  BY TaggedBytes
<1>2. ASSUME StartsWith(b, m) PROVE Read(b) = Complete(m, 2)
  <2>1. Len(b) >= 2 /\ b[1] = TaggedHeader /\ b[2] = m.tag
    BY <1>1, <1>2 DEF StartsWith
  <2>2. Read(b) = ReadTagged(b)
    BY <2>1, ReadByHeader
  <2> QED BY <1>1, <2>1, <2>2 DEF ReadTagged
<1>3. ASSUME PartOf(b, m) PROVE Read(b) = UnexpectedEof
  <2>1. Len(b) \in Nat /\ Len(b) < 2 /\ (Len(b) = 1 => b[1] = TaggedHeader)
    BY <1>1, <1>3 DEF PartOf
  <2>2. CASE Len(b) = 0
    BY <2>2, EmptyIsEof
  <2>3. CASE Len(b) = 1
    <3>1. Read(b) = ReadTagged(b)
      BY <2>1, <2>3, ReadByHeader
    <3> QED BY <2>3, <3>1 DEF ReadTagged
  <2>4. Len(b) = 0 \/ Len(b) = 1
    BY <2>1, SmallNumbers
  <2> QED BY <2>2, <2>3, <2>4
<1> QED BY <1>1, <1>2, <1>3

LEMMA ReadMaskedMessage ==
    ASSUME NEW m \in Message, m.kind = "masked", NEW b \in Seq(Byte)
    PROVE  /\ StartsWith(b, m) => Read(b) = Complete(m, Len(Encode(m)))
           /\ PartOf(b, m) => Read(b) = UnexpectedEof
<1> DEFINE e == Encode(m)
           size == m.size
           mtime == m.mtime
           s == Len(size)
           t == Len(mtime)
<1>1. /\ m = [kind |-> "masked", size |-> size, mtime |-> mtime]
      /\ size \in Seq(Byte) /\ mtime \in Seq(Byte) /\ s \in {0, 1} /\ t \in {0, 1}
      /\ e \in Seq(Byte) /\ Len(e) = 2 + s + t
      /\ e[1] = MaskedHeader /\ e[2] = field_mask(m)
      /\ \A j \in 1..s : e[2 + j] = size[j]
      /\ \A j \in 1..t : e[2 + s + j] = mtime[j]
  BY MaskedBytes
<1>2. field_mask(m) = s + 2 * t
  BY DEF field_mask
<1>3. s \in Nat /\ t \in Nat /\ Len(b) \in Nat
  BY <1>1
<1> HIDE DEF e, size, mtime, s, t
<1>4. ASSUME Len(b) >= 2, b[1] = MaskedHeader, b[2] = field_mask(m)
      PROVE  Read(b) = IF Len(b) < 2 + s + t THEN UnexpectedEof
                       ELSE Complete([kind |-> "masked", size |-> SubSeq(b, 3, 2 + s),
                                      mtime |-> SubSeq(b, 3 + s, 2 + s + t)], 2 + s + t)
  <2>1. Read(b) = ReadMasked(b)
    BY <1>3, <1>4, ReadByHeader
  <2>2. b[2] % 2 = s /\ (b[2] \div 2) % 2 = t
    BY <1>1, <1>2, <1>4, MaskBits
  <2>3. ~(Len(b) < 2)
    BY <1>3, <1>4
  <2> QED BY <2>1, <2>2, <2>3 DEF ReadMasked
<1>5. ASSUME StartsWith(b, m) PROVE Read(b) = Complete(m, Len(e))
  <2>1. Len(e) <= Len(b) /\ \A j \in 1..Len(e) : b[j] = e[j]
    BY <1>5 DEF StartsWith, e
  <2>2. Len(b) >= 2 + s + t /\ b[1] = MaskedHeader /\ b[2] = field_mask(m)
    BY <1>1, <1>3, <2>1
  <2>3. SubSeq(b, 3, 2 + s) = size
    <3> DEFINE c == SubSeq(b, 3, 2 + s)
    <3>1. c \in Seq(Byte) /\ Len(c) = s /\ \A i \in 1..s : c[i] = b[2 + i]
      BY <1>3, <2>2, Cut, SMTT(30)
    <3>2. \A i \in 1..s : b[2 + i] = size[i]
      BY <1>1, <1>3, <2>1
    <3> HIDE DEF c
    <3>3. c = size
      BY <1>1, <3>1, <3>2, SeqEqual DEF s
    <3> QED BY <3>3 DEF c
  <2>4. SubSeq(b, 3 + s, 2 + s + t) = mtime
    <3> DEFINE c == SubSeq(b, 3 + s, 2 + s + t)
    <3>1. c \in Seq(Byte) /\ Len(c) = t /\ \A i \in 1..t : c[i] = b[2 + s + i]
      BY <1>3, <2>2, Cut
    <3>2. \A i \in 1..t : b[2 + s + i] = mtime[i]
      BY <1>1, <1>3, <2>1
    <3> HIDE DEF c
    <3>3. c = mtime
      BY <1>1, <3>1, <3>2, SeqEqual DEF t
    <3> QED BY <3>3 DEF c
  <2>5. Len(b) >= 2 /\ ~(Len(b) < 2 + s + t)
    BY <1>3, <2>2
  <2> QED BY <1>1, <1>4, <2>2, <2>3, <2>4, <2>5
<1>6. ASSUME PartOf(b, m) PROVE Read(b) = UnexpectedEof
  <2>1. Len(b) < 2 + s + t /\ \A j \in 1..Len(b) : b[j] = e[j]
    BY <1>1, <1>6 DEF PartOf, e
  <2>2. CASE Len(b) = 0
    BY <2>2, EmptyIsEof
  <2>3. CASE Len(b) = 1
    <3>1. b[1] = MaskedHeader
      BY <1>1, <2>1, <2>3
    <3>2. Read(b) = ReadMasked(b)
      BY <2>3, <3>1, ReadByHeader
    <3> QED BY <2>3, <3>2 DEF ReadMasked
  <2>4. CASE Len(b) >= 2
    <3>1. b[1] = MaskedHeader /\ b[2] = field_mask(m)
      BY <1>1, <1>3, <2>1, <2>4
    <3> QED BY <1>4, <2>1, <2>4, <3>1
  <2>5. Len(b) = 0 \/ Len(b) = 1 \/ Len(b) >= 2
    BY <1>3, SmallNumbers
  <2> QED BY <2>2, <2>3, <2>4, <2>5
<1> QED BY <1>5, <1>6 DEF e

\* A message is read back as it was written, and a part of it is never taken
\* for a message or for an error (codec.rs:14, is_eof).
LEMMA ReadMessage ==
    ASSUME NEW m \in Message, Fits(m), NEW b \in Seq(Byte)
    PROVE  /\ StartsWith(b, m) => Read(b) = Complete(m, Len(Encode(m)))
           /\ PartOf(b, m) => Read(b) = UnexpectedEof
  BY Kinds, ReadBareMessage, ReadTaggedMessage, ReadMaskedMessage, ReadNamedMessage

\* Whatever the bytes are, what the parser takes for a message has the form of
\* one and lies within them.
LEMMA ReadType ==
    ASSUME NEW b \in Seq(Byte), Read(b).res = "ok"
    PROVE  Read(b).msg \in DecodedMessage /\ Read(b).used \in 1..Len(b)
<1>1. Len(b) \in Nat
  OBVIOUS
<1>2. Len(b) >= 1
  <2>1. CASE Len(b) = 0
    <3>1. Read(b) = UnexpectedEof
      BY <2>1, EmptyIsEof
    <3> QED BY <3>1 DEF UnexpectedEof
  <2> QED BY <1>1, <2>1, SmallNumbers
<1>3. ASSUME NEW i \in 1..Len(b) PROVE b[i] \in Nat
  BY CodecAssumption DEF Byte
<1>4. CASE b[1] = BareHeader
  <2>1. Read(b) = Complete([kind |-> "bare"], 1)
    BY <1>2, <1>4, ReadByHeader
  <2> QED BY <1>1, <1>2, <2>1 DEF Complete, DecodedMessage
<1>5. CASE b[1] = TaggedHeader
  <2>1. Read(b) = ReadTagged(b)
    BY <1>2, <1>5, ReadByHeader
  <2>2. Len(b) >= 2 /\ b[2] \in Tags
    BY <1>1, <2>1 DEF ReadTagged, UnexpectedEof, BadData
  <2>3. Read(b) = Complete([kind |-> "tagged", tag |-> b[2]], 2)
    BY <1>1, <2>1, <2>2 DEF ReadTagged
  <2> QED BY <1>1, <2>2, <2>3 DEF Complete, DecodedMessage
<1>6. CASE b[1] = MaskedHeader
  <2> DEFINE s == b[2] % 2
             t == (b[2] \div 2) % 2
  <2>1. Read(b) = ReadMasked(b)
    BY <1>2, <1>6, ReadByHeader
  <2>2. Len(b) >= 2 /\ ~(Len(b) < 2 + s + t)
    BY <1>1, <2>1 DEF ReadMasked, UnexpectedEof
  <2>3. b[2] \in Nat
    BY <1>1, <1>3, <2>2
  <2>4. s \in {0, 1} /\ t \in {0, 1}
    BY <2>3, BitValues
  <2>5. Read(b) = Complete([kind |-> "masked", size |-> SubSeq(b, 3, 2 + s),
                            mtime |-> SubSeq(b, 3 + s, 2 + s + t)], 2 + s + t)
    BY <1>1, <2>1, <2>2 DEF ReadMasked
  <2> HIDE DEF s, t
  <2>6. s \in Nat /\ t \in Nat
    BY <2>4
  <2>7. SubSeq(b, 3, 2 + s) \in Seq(Byte) /\ SubSeq(b, 3 + s, 2 + s + t) \in Seq(Byte)
    BY <1>1, <2>2, <2>6, Cut
  <2>8. 2 + s + t \in 1..Len(b)
    BY <1>1, <2>2, <2>6
  <2> QED BY <2>5, <2>7, <2>8 DEF Complete, DecodedMessage
<1>7. CASE b[1] = NamedHeader
  <2>1. Read(b) = ReadNamed(b)
    BY <1>2, <1>7, ReadByHeader
  <2>2. Len(b) >= 2 /\ ~(Len(b) < NameEnd(b, 2))
    BY <1>1, <2>1 DEF ReadNamed, UnexpectedEof
  <2>3. b[2] \in Nat
    BY <1>1, <1>3, <2>2
  <2>4. Read(b) = Complete([kind |-> "named", name |-> SubSeq(b, 3, 2 + b[2])], 2 + b[2])
    BY <1>1, <2>1, <2>2 DEF ReadNamed, NameAt, NameEnd
  <2>5. 2 + b[2] \in 1..Len(b)
    BY <1>1, <2>2, <2>3 DEF NameEnd
  <2>6. SubSeq(b, 3, 2 + b[2]) \in Seq(Byte)
    BY <1>1, <2>3, <2>5, Cut
  <2> QED BY <2>4, <2>5, <2>6 DEF Complete, DecodedMessage
<1>8. CASE b[1] \notin {BareHeader, TaggedHeader, MaskedHeader, NamedHeader}
  <2>1. Read(b) = BadData
    BY <1>2, <1>8, ReadByHeader
  <2> QED BY <2>1 DEF BadData
<1> QED BY <1>4, <1>5, <1>6, <1>7, <1>8

-----------------------------------------------------------------------------
(* The invariant.                                                          *)

\* t continues s.
Continues(s, t) == Len(s) <= Len(t) /\ \A k \in 1..Len(s) : t[k] = s[k]

LEMMA AppendContinues ==
    ASSUME NEW S, NEW s \in Seq(S), NEW x \in S
    PROVE  /\ Append(s, x) \in Seq(S) /\ Len(Append(s, x)) = Len(s) + 1
           /\ Append(s, x)[Len(s) + 1] = x
           /\ Continues(s, Append(s, x))
  BY AppendProperties, LenProperties DEF Continues

\* A receiver that has strayed does not find back.
LEMMA StrayedForever ==
    ASSUME TypeOK, Strayed, Continues(sent, sent'), Continues(decoded, decoded'), Len(sent') \in Nat, Len(decoded') \in Nat
    PROVE  Strayed'
<1>1. PICK f \in 1..Len(sent) : /\ f <= Len(decoded) /\ ~Fits(sent[f])
                                /\ \A k \in 1..(f - 1) : decoded[k] = sent[k]
  BY DEF Strayed
<1>2. Len(sent) \in Nat /\ Len(decoded) \in Nat
  BY DEF TypeOK
<1>3. f \in 1..Len(sent') /\ f <= Len(decoded') /\ sent'[f] = sent[f]
  BY <1>1, <1>2 DEF Continues
<1>4. ASSUME NEW k \in 1..(f - 1) PROVE decoded'[k] = sent'[k]
  <2>1. k \in 1..Len(sent) /\ k \in 1..Len(decoded)
    BY <1>1, <1>2
  <2> QED BY <1>1, <2>1 DEF Continues
<1>5. ~Fits(sent'[f])
  BY <1>1, <1>3
<1> QED BY <1>3, <1>4, <1>5 DEF Strayed

\* A message that did not fit has been sent if the receiver has strayed.
LEMMA StrayedNotFit ==
    ASSUME Strayed
    PROVE  ~AllFit(Len(sent))
  BY DEF Strayed, AllFit

\* The buffer holds the next message, or the start of it, and all of it if
\* everything written has been received.
LEMMA NextInBuffer ==
    ASSUME TypeOK, NEW W \in Seq(Byte), NEW pos \in [0..Len(sent) -> Nat],
           Layout(W, pos), InStep(W, pos), Len(decoded) < Len(sent)
    PROVE  LET m == sent[Len(decoded) + 1] IN
           /\ m \in Message
           /\ pos[Len(decoded) + 1] = pos[Len(decoded)] + Len(Encode(m))
           /\ StartsWith(buf, m) \/ PartOf(buf, m)
           /\ link # "broken" /\ Len(wire) = 0 => StartsWith(buf, m)
<1> DEFINE n == Len(decoded)
           m == sent[n + 1]
           e == Encode(m)
<1>1. n \in Nat /\ Len(sent) \in Nat /\ n + 1 \in 1..Len(sent) /\ n \in 0..Len(sent) /\ n + 1 \in 0..Len(sent)
  BY DEF TypeOK
<1>2. m \in Message
  BY <1>1 DEF TypeOK
<1>3. Len(e) \in Nat
  BY <1>2, EncodeBytes
<1>4. Len(buf) \in Nat /\ Len(wire) \in Nat /\ Len(W) \in Nat /\ pos[n] \in Nat /\ pos[n + 1] \in Nat
  BY <1>1 DEF TypeOK
<1>5. /\ pos[n + 1] = pos[n] + Len(e) /\ pos[n + 1] <= Len(W)
      /\ \A j \in 1..Len(e) : W[pos[n] + j] = e[j]
  <2>1. \A k \in 1..Len(sent) :
          /\ pos[k] = pos[k - 1] + Len(Encode(sent[k]))
          /\ pos[k] <= Len(W)
          /\ \A j \in 1..Len(Encode(sent[k])) : W[pos[k - 1] + j] = Encode(sent[k])[j]
    BY DEF Layout
  <2>2. (n + 1) - 1 = n
    BY <1>1
  <2> QED BY <1>1, <2>1, <2>2
<1>6. /\ link # "broken" => pos[n] + Len(buf) + Len(wire) = Len(W)
      /\ \A k \in 1..Len(buf) : buf[k] = W[pos[n] + k]
  BY DEF InStep
<1> HIDE DEF n, m, e
<1>7. ASSUME Len(e) <= Len(buf) PROVE StartsWith(buf, m)
  <2>1. ASSUME NEW j \in 1..Len(e) PROVE buf[j] = e[j]
    BY <1>3, <1>4, <1>5, <1>6, <1>7
  <2> QED BY <1>7, <2>1 DEF StartsWith, e
<1>8. ASSUME ~(Len(e) <= Len(buf)) PROVE PartOf(buf, m)
  <2>1. ASSUME NEW j \in 1..Len(buf) PROVE buf[j] = e[j]
    BY <1>3, <1>4, <1>5, <1>6, <1>8
  <2>2. Len(buf) < Len(e)
    BY <1>3, <1>4, <1>8
  <2> QED BY <2>1, <2>2 DEF PartOf, e
<1>9. link # "broken" /\ Len(wire) = 0 => Len(e) <= Len(buf)
  BY <1>3, <1>4, <1>5, <1>6
<1> QED BY <1>2, <1>5, <1>7, <1>8, <1>9 DEF n, m, e

\* With every message decoded, there is nothing in the buffer.
LEMMA NothingLeft ==
    ASSUME TypeOK, NEW W \in Seq(Byte), NEW pos \in [0..Len(sent) -> Nat],
           Layout(W, pos), InStep(W, pos), ~(Len(decoded) < Len(sent))
    PROVE  Read(buf) = UnexpectedEof /\ buf = <<>>
<1>1. Len(decoded) \in Nat /\ Len(sent) \in Nat /\ Len(buf) \in Nat /\ Len(wire) \in Nat /\ Len(W) \in Nat /\ buf \in Seq(Byte)
  BY DEF TypeOK
<1>2. Len(decoded) = Len(sent)
  BY <1>1 DEF InStep
<1>3. pos[Len(decoded)] = Len(W) /\ pos[Len(decoded)] + Len(buf) + Len(wire) <= Len(W)
  BY <1>2 DEF Layout, InStep
<1>4. Len(buf) = 0
  BY <1>1, <1>3
<1> QED BY <1>1, <1>4, EmptyIsEof

\* A step that leaves sent, link and decoded alone keeps the layout.
LEMMA SameLayout ==
    ASSUME NEW W, NEW pos, sent' = sent, Layout(W, pos)
    PROVE  Layout(W, pos)'
  BY DEF Layout

\* Nothing moves on the stream.
LEMMA SameBytes ==
    ASSUME InStepOrStrayed, UNCHANGED <<sent, wire, link, buf, decoded>>
    PROVE  InStepOrStrayed'
<1>1. CASE Strayed
  BY <1>1 DEF Strayed, InStepOrStrayed
<1>2. ASSUME NEW W \in Seq(Byte), NEW pos \in [0..Len(sent) -> Nat], Layout(W, pos), InStep(W, pos)
      PROVE  InStepOrStrayed'
  <2>1. Layout(W, pos)'
    BY <1>2, SameLayout
  <2>2. InStep(W, pos)'
    BY <1>2 DEF InStep
  <2> QED BY <2>1, <2>2 DEF InStepOrStrayed
<1> QED BY <1>1, <1>2 DEF InStepOrStrayed

LEMMA InitInv == Init => IInv
<1> SUFFICES ASSUME Init PROVE IInv
  OBVIOUS
<1> DEFINE W == <<>>
           pos == [k \in 0..0 |-> 0]
<1>1. /\ sent = <<>> /\ wire = <<>> /\ buf = <<>> /\ decoded = <<>>
      /\ link = "open" /\ status = "open"
      /\ Len(sent) = 0 /\ Len(wire) = 0 /\ Len(buf) = 0 /\ Len(decoded) = 0
  BY EmptySeq DEF Init
<1>2. TypeOK
  BY <1>1, EmptySeq DEF TypeOK
<1>3. W \in Seq(Byte) /\ Len(W) = 0
  BY EmptySeq
<1>4. pos \in [0..Len(sent) -> Nat] /\ pos[0] = 0
  BY <1>1
<1> HIDE DEF W, pos
<1>5. Layout(W, pos)
  BY <1>1, <1>3, <1>4 DEF Layout
<1>6. InStep(W, pos)
  BY <1>1, <1>3, <1>4 DEF InStep
<1>7. InStepOrStrayed
  BY <1>3, <1>4, <1>5, <1>6 DEF InStepOrStrayed
<1> QED BY <1>1, <1>2, <1>7 DEF IInv, FailsOnlyForCause

LEMMA SendStep ==
    ASSUME IInv, NEW m \in Message, Send(m)
    PROVE  IInv'
<1> DEFINE e == Encode(m)
<1>1. TypeOK /\ FailsOnlyForCause /\ InStepOrStrayed
  BY DEF IInv
<1>2. /\ sent \in Seq(Message) /\ wire \in Seq(Byte) /\ buf \in Seq(Byte)
      /\ Len(sent) \in Nat /\ Len(wire) \in Nat /\ Len(buf) \in Nat /\ Len(decoded) \in Nat
  BY <1>1 DEF TypeOK
<1>3. /\ link = "open" /\ sent' = Append(sent, m) /\ wire' = wire \o e
      /\ link' = link /\ buf' = buf /\ status' = status /\ decoded' = decoded
  BY DEF Send
<1>4. e \in Seq(Byte) /\ Len(e) \in Nat
  BY EncodeBytes
<1> HIDE DEF e
<1>5. /\ sent' \in Seq(Message) /\ Len(sent') = Len(sent) + 1 /\ sent'[Len(sent) + 1] = m
      /\ \A k \in 1..Len(sent) : sent'[k] = sent[k]
      /\ Continues(sent, sent')
  BY <1>2, <1>3, AppendContinues DEF Continues
<1>6. /\ wire' \in Seq(Byte) /\ Len(wire') = Len(wire) + Len(e)
      /\ \A i \in 1..Len(wire) : wire'[i] = wire[i]
      /\ \A i \in 1..Len(e) : wire'[Len(wire) + i] = e[i]
  BY <1>2, <1>3, <1>4, Joined
<1>7. TypeOK'
  BY <1>1, <1>3, <1>5, <1>6 DEF TypeOK
<1>8. FailsOnlyForCause'
  <2>1. ASSUME ~AllFit(Len(sent)) PROVE ~AllFit(Len(sent))'
    <3>1. PICK k \in 1..Len(sent) : ~Fits(sent[k])
      BY <2>1 DEF AllFit
    <3>2. k \in 1..Len(sent') /\ ~Fits(sent'[k])
      BY <1>2, <1>5, <3>1
    <3> QED BY <3>2 DEF AllFit
  <2> QED BY <1>1, <1>3, <2>1 DEF FailsOnlyForCause
<1>9. CASE Strayed
  <2>1. Continues(decoded, decoded')
    BY <1>3 DEF Continues
  <2>2. Strayed'
    BY <1>1, <1>2, <1>3, <1>5, <1>9, <2>1, StrayedForever
  <2> QED BY <1>7, <1>8, <2>2 DEF IInv, InStepOrStrayed
<1>10. ASSUME NEW W \in Seq(Byte), NEW pos \in [0..Len(sent) -> Nat], Layout(W, pos), InStep(W, pos)
       PROVE  IInv'
  <2> DEFINE w == Len(W)
             end == w + Len(e)
  <2>1. PICK V \in Seq(Byte) : /\ Len(V) = end
                               /\ \A i \in 1..w : V[i] = W[i]
                               /\ \A i \in 1..Len(e) : V[w + i] = e[i]
    BY <1>4, Joined
  <2>2. w \in Nat /\ end \in Nat /\ w <= end /\ w = Len(W)
    BY <1>4
  <2> HIDE DEF w, end
  <2>3. PICK at \in [0..Len(sent') -> Nat] :
          (\A k \in 0..Len(sent) : at[k] = pos[k]) /\ at[Len(sent) + 1] = end
    <3> DEFINE a == [k \in 0..(Len(sent) + 1) |-> IF k <= Len(sent) THEN pos[k] ELSE end]
    <3>1. /\ a \in [0..Len(sent') -> Nat]
          /\ \A k \in 0..Len(sent) : a[k] = pos[k]
          /\ a[Len(sent) + 1] = end
      BY <1>2, <1>5, <2>2
    <3> HIDE DEF a
    <3> QED BY <3>1
  <2>4. /\ pos[Len(sent)] = w
        /\ \A k \in 1..Len(sent) :
             /\ pos[k] = pos[k - 1] + Len(Encode(sent[k]))
             /\ pos[k] <= w
             /\ \A j \in 1..Len(Encode(sent[k])) : W[pos[k - 1] + j] = Encode(sent[k])[j]
    BY <1>10 DEF Layout, w
  <2>5. at[Len(sent')] = Len(V)
    BY <1>5, <2>1, <2>3
  <2>6. ASSUME NEW k \in 1..Len(sent')
        PROVE  /\ at[k] = at[k - 1] + Len(Encode(sent'[k]))
               /\ at[k] <= Len(V)
               /\ \A j \in 1..Len(Encode(sent'[k])) : V[at[k - 1] + j] = Encode(sent'[k])[j]
    <3>1. CASE k <= Len(sent)
      <4> DEFINE c == Encode(sent[k])
      <4>1. k \in 1..Len(sent) /\ k \in 0..Len(sent) /\ k - 1 \in 0..Len(sent)
        BY <1>2, <1>5, <3>1
      <4>2. at[k] = pos[k] /\ at[k - 1] = pos[k - 1] /\ sent'[k] = sent[k]
        BY <1>5, <2>3, <4>1
      <4>3. /\ pos[k] = pos[k - 1] + Len(c) /\ pos[k] <= w
            /\ \A j \in 1..Len(c) : W[pos[k - 1] + j] = c[j]
        BY <2>4, <4>1
      <4>4. pos[k] \in Nat /\ pos[k - 1] \in Nat /\ Len(c) \in Nat
        <5>1. sent[k] \in Message
          BY <1>2, <4>1
        <5>2. Len(c) \in Nat
          BY <5>1, EncodeBytes
        <5> QED BY <4>1, <5>2
      <4> HIDE DEF c
      <4>5. ASSUME NEW j \in 1..Len(c) PROVE V[pos[k - 1] + j] = c[j]
        <5>1. pos[k - 1] + j \in 1..w
          BY <2>2, <4>3, <4>4, SMTT(30)
        <5> QED BY <2>1, <4>3, <5>1
      <4>6. pos[k] <= Len(V)
        BY <2>1, <2>2, <4>3, <4>4
      <4> QED BY <4>2, <4>3, <4>5, <4>6 DEF c
    <3>2. CASE k = Len(sent) + 1
      <4>1. at[k] = end /\ at[k - 1] = w /\ sent'[k] = m
        <5>1. k - 1 = Len(sent) /\ Len(sent) \in 0..Len(sent)
          BY <1>2, <3>2
        <5> QED BY <1>5, <2>3, <2>4, <3>2, <5>1
      <4>2. at[k] = at[k - 1] + Len(e) /\ at[k] <= Len(V)
        BY <2>1, <2>2, <4>1 DEF end
      <4>3. \A j \in 1..Len(e) : V[at[k - 1] + j] = e[j]
        BY <2>1, <2>2, <4>1
      <4> QED BY <4>1, <4>2, <4>3 DEF e
    <3> QED BY <1>2, <1>5, <3>1, <3>2
  <2>7. Layout(V, at)'
    BY <2>5, <2>6 DEF Layout
  <2> DEFINE p == pos[Len(decoded)]
  <2>8. /\ Len(decoded) <= Len(sent)
        /\ \A k \in 1..Len(decoded) : decoded[k] = sent[k]
        /\ p + Len(buf) + Len(wire) <= w
        /\ link # "broken" => p + Len(buf) + Len(wire) = w
        /\ \A k \in 1..Len(buf) : buf[k] = W[p + k]
        /\ \A k \in 1..Len(wire) : wire[k] = W[p + Len(buf) + k]
    BY <1>10 DEF InStep, w
  <2>9. at[Len(decoded)] = p /\ p \in Nat
    <3>1. Len(decoded) \in 0..Len(sent)
      BY <1>2, <2>8
    <3> QED BY <2>3, <3>1
  <2> HIDE DEF p
  <2>10. p + Len(buf) + Len(wire) = w
    BY <1>3, <2>8
  <2>11. ASSUME NEW k \in 1..Len(buf) PROVE buf[k] = V[p + k]
    <3>1. p + k \in 1..w
      BY <1>2, <2>2, <2>9, <2>10
    <3> QED BY <2>1, <2>8, <3>1
  <2>12. ASSUME NEW k \in 1..Len(wire') PROVE wire'[k] = V[p + Len(buf) + k]
    <3>1. CASE k <= Len(wire)
      <4>1. p + Len(buf) + k \in 1..w /\ k \in 1..Len(wire)
        BY <1>2, <2>2, <2>9, <2>10, <3>1
      <4> QED BY <1>6, <2>1, <2>8, <4>1
    <3>2. CASE k > Len(wire)
      <4>1. PICK i \in 1..Len(e) : k = Len(wire) + i
        <5>1. k - Len(wire) \in 1..Len(e) /\ k = Len(wire) + (k - Len(wire))
          BY <1>2, <1>4, <1>6, <3>2
        <5> QED BY <5>1
      <4>2. p + Len(buf) + k = w + i
        <5>1. i \in Nat
          BY <1>4
        <5>2. p + Len(buf) + (Len(wire) + i) = w + i
          <6> DEFINE b == Len(buf)
                     c == Len(wire)
                     d == w
          <6>1. p \in Nat /\ b \in Nat /\ c \in Nat /\ d \in Nat /\ p + b + c = d
            BY <1>2, <2>2, <2>9, <2>10
          <6> HIDE DEF b, c, d
          <6>2. p + b + (c + i) = d + i
            BY <5>1, <6>1
          <6> QED BY <6>2 DEF b, c, d
        <5> QED BY <4>1, <5>2
      <4>3. wire'[k] = e[i]
        BY <1>6, <4>1
      <4>4. V[p + Len(buf) + k] = e[i]
        BY <2>1, <2>2, <4>2
      <4> QED BY <4>3, <4>4
    <3> QED BY <1>2, <1>4, <1>6, <3>1, <3>2
  <2>13. p + Len(buf) + Len(wire') = Len(V)
    <3>1. Len(V) = w + Len(e) /\ Len(wire') = Len(wire) + Len(e)
      BY <1>6, <2>1 DEF end
    <3>2. p + Len(buf) + (Len(wire) + Len(e)) = w + Len(e)
      <4> DEFINE b == Len(buf)
                 c == Len(wire)
                 d == w
                 l == Len(e)
      <4>1. p \in Nat /\ b \in Nat /\ c \in Nat /\ d \in Nat /\ l \in Nat /\ p + b + c = d
        BY <1>2, <1>4, <2>2, <2>9, <2>10
      <4> HIDE DEF b, c, d, l
      <4>2. p + b + (c + l) = d + l
        BY <4>1
      <4> QED BY <4>2 DEF b, c, d, l
    <3> QED BY <3>1, <3>2
  <2>14. Len(decoded) <= Len(sent') /\ \A k \in 1..Len(decoded) : decoded[k] = sent'[k]
    BY <1>2, <1>5, <2>8
  <2>15. Len(V) \in Nat /\ Len(wire') \in Nat
    BY <2>1, <1>6
  <2>16. InStep(V, at)'
    <3>1. p + Len(buf) + Len(wire') <= Len(V)
      BY <2>13, <2>15
    <3> QED BY <1>3, <2>9, <2>11, <2>12, <2>13, <2>14, <3>1 DEF InStep
  <2> QED BY <1>7, <1>8, <2>1, <2>3, <2>7, <2>16 DEF IInv, InStepOrStrayed
<1> QED BY <1>1, <1>9, <1>10 DEF InStepOrStrayed

\* Closing and breaking the connection.
LEMMA LinkStep ==
    ASSUME IInv, Close \/ Break
    PROVE  IInv'
<1>1. TypeOK /\ FailsOnlyForCause /\ InStepOrStrayed
  BY DEF IInv
<1>2. /\ sent' = sent /\ buf' = buf /\ status' = status /\ decoded' = decoded
      /\ link = "open" /\ link' \in {"closed", "broken"}
  BY DEF Close, Break
<1>3. Len(wire) \in Nat /\ wire \in Seq(Byte) /\ Len(sent) \in Nat /\ Len(decoded) \in Nat /\ Len(buf) \in Nat
  BY <1>1 DEF TypeOK
<1>4. /\ wire' \in Seq(Byte) /\ Len(wire') \in Nat /\ Len(wire') <= Len(wire)
      /\ \A k \in 1..Len(wire') : wire'[k] = wire[k]
      /\ link' # "broken" => Len(wire') = Len(wire)
  <2>1. CASE Close
    BY <1>3, <2>1 DEF Close
  <2>2. CASE Break
    <3>1. PICK n \in 0..(Len(wire) - 1) : wire' = SubSeq(wire, 1, n)
      BY <2>2 DEF Break
    <3>2. n \in Nat /\ n <= Len(wire)
      BY <1>3, <3>1
    <3>3. wire' \in Seq(Byte) /\ Len(wire') = n /\ \A k \in 1..n : wire'[k] = wire[k]
      BY <1>3, <3>1, <3>2, Cut
    <3>4. link' = "broken"
      BY <2>2 DEF Break
    <3> QED BY <3>2, <3>3, <3>4
  <2> QED BY <2>1, <2>2
<1>5. TypeOK'
  BY <1>1, <1>2, <1>4 DEF TypeOK
<1>6. FailsOnlyForCause'
  BY <1>1, <1>2 DEF FailsOnlyForCause, AllFit
<1>7. CASE Strayed
  BY <1>2, <1>5, <1>6, <1>7 DEF IInv, InStepOrStrayed, Strayed
<1>8. ASSUME NEW W \in Seq(Byte), NEW pos \in [0..Len(sent) -> Nat], Layout(W, pos), InStep(W, pos)
      PROVE  IInv'
  <2>1. Layout(W, pos)'
    BY <1>2, <1>8, SameLayout
  <2> DEFINE p == pos[Len(decoded)]
             w == Len(W)
  <2>2. /\ Len(decoded) <= Len(sent)
        /\ \A k \in 1..Len(decoded) : decoded[k] = sent[k]
        /\ p + Len(buf) + Len(wire) = w
        /\ \A k \in 1..Len(buf) : buf[k] = W[p + k]
        /\ \A k \in 1..Len(wire) : wire[k] = W[p + Len(buf) + k]
    BY <1>2, <1>8 DEF InStep
  <2>3. p \in Nat /\ w \in Nat
    <3>1. Len(decoded) \in 0..Len(sent)
      BY <1>3, <2>2
    <3> QED BY <3>1
  <2>4. InStep(W, pos)'
    <3> HIDE DEF p, w
    <3>1. p + Len(buf) + Len(wire') <= w
      BY <1>3, <1>4, <2>2, <2>3
    <3>2. link' # "broken" => p + Len(buf) + Len(wire') = w
      BY <1>4, <2>2
    <3>3. ASSUME NEW k \in 1..Len(wire') PROVE wire'[k] = W[p + Len(buf) + k]
      <4>1. k \in 1..Len(wire)
        BY <1>3, <1>4
      <4> QED BY <1>4, <2>2, <4>1
    <3> QED BY <1>2, <2>2, <3>1, <3>2, <3>3 DEF InStep, p, w
  <2> QED BY <1>2, <1>5, <1>6, <2>1, <2>4 DEF IInv, InStepOrStrayed
<1> QED BY <1>1, <1>7, <1>8 DEF InStepOrStrayed

LEMMA ReceiveStep ==
    ASSUME IInv, Receive
    PROVE  IInv'
<1>1. TypeOK /\ FailsOnlyForCause /\ InStepOrStrayed
  BY DEF IInv
<1>2. sent' = sent /\ link' = link /\ status' = status /\ decoded' = decoded
  BY DEF Receive
<1>3. PICK n \in 1..Len(wire) : /\ buf' = buf \o SubSeq(wire, 1, n)
                                /\ wire' = SubSeq(wire, n + 1, Len(wire))
  BY DEF Receive
<1>4. /\ Len(wire) \in Nat /\ wire \in Seq(Byte) /\ Len(sent) \in Nat /\ Len(decoded) \in Nat
      /\ Len(buf) \in Nat /\ buf \in Seq(Byte)
  BY <1>1 DEF TypeOK
<1>5. n \in Nat /\ 1 <= n /\ n <= Len(wire) /\ n + 1 \in Nat
  BY <1>4
<1> DEFINE s == SubSeq(wire, 1, n)
<1>6. s \in Seq(Byte) /\ Len(s) = n /\ \A k \in 1..n : s[k] = wire[k]
  BY <1>4, <1>5, Cut
<1> HIDE DEF s
<1>7. /\ buf' \in Seq(Byte) /\ Len(buf') = Len(buf) + n
      /\ \A k \in 1..Len(buf) : buf'[k] = buf[k]
      /\ \A k \in 1..n : buf'[Len(buf) + k] = wire[k]
  <2>1. buf' = buf \o s
    BY <1>3 DEF s
  <2>2. /\ buf \o s \in Seq(Byte) /\ Len(buf \o s) = Len(buf) + Len(s)
        /\ \A k \in 1..Len(buf) : (buf \o s)[k] = buf[k]
        /\ \A k \in 1..Len(s) : (buf \o s)[Len(buf) + k] = s[k]
    BY <1>4, <1>6, Joined
  <2> QED BY <1>6, <2>1, <2>2
<1>8. /\ wire' \in Seq(Byte) /\ Len(wire') = Len(wire) - n
      /\ \A k \in 1..(Len(wire) - n) : wire'[k] = wire[n + k]
  <2>1. /\ wire' \in Seq(Byte) /\ Len(wire') = Len(wire) - (n + 1) + 1
        /\ \A k \in 1..(Len(wire) - (n + 1) + 1) : wire'[k] = wire[(n + 1) + k - 1]
    BY <1>3, <1>4, <1>5, Cut
  <2>2. Len(wire) - (n + 1) + 1 = Len(wire) - n
    BY <1>4, <1>5
  <2>3. ASSUME NEW k \in 1..(Len(wire) - n) PROVE wire'[k] = wire[n + k]
    <3>1. (n + 1) + k - 1 = n + k
      BY <1>5
    <3> QED BY <2>1, <2>2, <3>1
  <2> QED BY <2>1, <2>2, <2>3
<1>9. TypeOK'
  BY <1>1, <1>2, <1>7, <1>8 DEF TypeOK
<1>10. FailsOnlyForCause'
  BY <1>1, <1>2 DEF FailsOnlyForCause, AllFit
<1>11. CASE Strayed
  BY <1>2, <1>9, <1>10, <1>11 DEF IInv, InStepOrStrayed, Strayed
<1>12. ASSUME NEW W \in Seq(Byte), NEW pos \in [0..Len(sent) -> Nat], Layout(W, pos), InStep(W, pos)
       PROVE  IInv'
  <2>1. Layout(W, pos)'
    BY <1>2, <1>12, SameLayout
  <2> DEFINE p == pos[Len(decoded)]
             w == Len(W)
  <2>2. /\ Len(decoded) <= Len(sent)
        /\ \A k \in 1..Len(decoded) : decoded[k] = sent[k]
        /\ p + Len(buf) + Len(wire) <= w
        /\ link # "broken" => p + Len(buf) + Len(wire) = w
        /\ \A k \in 1..Len(buf) : buf[k] = W[p + k]
        /\ \A k \in 1..Len(wire) : wire[k] = W[p + Len(buf) + k]
    BY <1>12 DEF InStep
  <2>3. p \in Nat /\ w \in Nat
    <3>1. Len(decoded) \in 0..Len(sent)
      BY <1>4, <2>2
    <3> QED BY <3>1
  <2>4. InStep(W, pos)'
    <3> HIDE DEF p, w
    <3>1. p + Len(buf') + Len(wire') = p + Len(buf) + Len(wire)
      BY <1>4, <1>5, <1>7, <1>8, <2>3
    <3>2. ASSUME NEW k \in 1..Len(buf') PROVE buf'[k] = W[p + k]
      <4>1. CASE k <= Len(buf)
        <5>1. k \in 1..Len(buf)
          BY <1>4, <4>1
        <5> QED BY <1>7, <2>2, <5>1
      <4>2. CASE k > Len(buf)
        <5>1. PICK i \in 1..n : k = Len(buf) + i
          <6>1. k - Len(buf) \in 1..n /\ k = Len(buf) + (k - Len(buf))
            BY <1>4, <1>5, <1>7, <4>2
          <6> QED BY <6>1
        <5>2. i \in 1..Len(wire) /\ p + Len(buf) + i = p + k
          BY <1>4, <1>5, <2>3, <5>1
        <5> QED BY <1>7, <2>2, <5>1, <5>2
      <4> QED BY <1>4, <1>7, <4>1, <4>2
    <3>3. ASSUME NEW k \in 1..Len(wire') PROVE wire'[k] = W[p + Len(buf') + k]
      <4>1. k \in 1..(Len(wire) - n) /\ n + k \in 1..Len(wire)
        BY <1>4, <1>5, <1>8
      <4>2. p + Len(buf) + (n + k) = p + Len(buf') + k
        BY <1>4, <1>5, <1>7, <2>3
      <4> QED BY <1>8, <2>2, <4>1, <4>2
    <3> QED BY <1>2, <2>2, <3>1, <3>2, <3>3 DEF InStep, p, w
  <2> QED BY <1>2, <1>9, <1>10, <2>1, <2>4 DEF IInv, InStepOrStrayed
<1> QED BY <1>1, <1>11, <1>12 DEF InStepOrStrayed

LEMMA DecodeStep ==
    ASSUME IInv, Decode
    PROVE  IInv'
<1>1. TypeOK /\ FailsOnlyForCause /\ InStepOrStrayed
  BY DEF IInv
<1> DEFINE msg == Read(buf).msg
           used == Read(buf).used
           n == Len(decoded)
<1>2. /\ sent' = sent /\ wire' = wire /\ link' = link /\ status' = status
      /\ decoded' = Append(decoded, msg)
      /\ buf' = SubSeq(buf, used + 1, Len(buf))
  BY DEF Decode
<1>3. /\ buf \in Seq(Byte) /\ Len(buf) \in Nat /\ Len(wire) \in Nat /\ Len(sent) \in Nat
      /\ decoded \in Seq(DecodedMessage) /\ n \in Nat
  BY <1>1 DEF TypeOK, DecodedMessage
<1>4. msg \in DecodedMessage /\ used \in 1..Len(buf)
  BY <1>3, ReadType DEF Decode
<1> HIDE DEF msg, used
<1>5. used \in Nat /\ 1 <= used /\ used <= Len(buf) /\ used + 1 \in Nat
  BY <1>3, <1>4
<1>6. /\ decoded' \in Seq(DecodedMessage) /\ Len(decoded') = n + 1 /\ decoded'[n + 1] = msg
      /\ \A k \in 1..n : decoded'[k] = decoded[k]
      /\ Continues(decoded, decoded')
  BY <1>2, <1>3, <1>4, AppendContinues DEF Continues
<1>7. /\ buf' \in Seq(Byte) /\ Len(buf') = Len(buf) - used
      /\ \A k \in 1..(Len(buf) - used) : buf'[k] = buf[used + k]
  <2>1. /\ buf' \in Seq(Byte) /\ Len(buf') = Len(buf) - (used + 1) + 1
        /\ \A k \in 1..(Len(buf) - (used + 1) + 1) : buf'[k] = buf[(used + 1) + k - 1]
    BY <1>2, <1>3, <1>5, Cut
  <2>2. Len(buf) - (used + 1) + 1 = Len(buf) - used
    BY <1>3, <1>5
  <2>3. ASSUME NEW k \in 1..(Len(buf) - used) PROVE buf'[k] = buf[used + k]
    <3>1. (used + 1) + k - 1 = used + k
      BY <1>5
    <3> QED BY <2>1, <2>2, <3>1
  <2> QED BY <2>1, <2>2, <2>3
<1>8. TypeOK'
  BY <1>1, <1>2, <1>6, <1>7 DEF TypeOK, DecodedMessage
<1>9. FailsOnlyForCause'
  BY <1>1, <1>2 DEF FailsOnlyForCause, AllFit
<1>10. CASE Strayed
  <2>1. Continues(sent, sent')
    BY <1>2 DEF Continues
  <2>2. Strayed'
    BY <1>1, <1>2, <1>3, <1>6, <1>10, <2>1, StrayedForever
  <2> QED BY <1>8, <1>9, <2>2 DEF IInv, InStepOrStrayed
<1>11. ASSUME NEW W \in Seq(Byte), NEW pos \in [0..Len(sent) -> Nat], Layout(W, pos), InStep(W, pos)
       PROVE  IInv'
  <2> DEFINE p == pos[n]
             w == Len(W)
             m == sent[n + 1]
             e == Encode(m)
  <2>1. n < Len(sent)
    <3>1. ASSUME ~(n < Len(sent)) PROVE FALSE
      <4>1. Read(buf) = UnexpectedEof
        BY <1>1, <1>11, <3>1, NothingLeft
      <4> QED BY <4>1 DEF Decode, UnexpectedEof
    <3> QED BY <3>1
  <2>2. /\ m \in Message /\ pos[n + 1] = p + Len(e)
        /\ StartsWith(buf, m) \/ PartOf(buf, m)
    BY <1>1, <1>11, <2>1, NextInBuffer
  <2>3. /\ \A k \in 1..n : decoded[k] = sent[k]
        /\ p + Len(buf) + Len(wire) <= w
        /\ link # "broken" => p + Len(buf) + Len(wire) = w
        /\ \A k \in 1..Len(buf) : buf[k] = W[p + k]
        /\ \A k \in 1..Len(wire) : wire[k] = W[p + Len(buf) + k]
    BY <1>11 DEF InStep
  <2>4. p \in Nat /\ w \in Nat /\ Len(e) \in Nat
    <3>1. n \in 0..Len(sent)
      BY <1>3, <2>1
    <3> QED BY <2>2, <3>1, EncodeBytes
  <2>5. n + 1 \in 1..Len(sent) /\ n + 1 <= Len(sent)
    BY <1>3, <2>1
  \* The message did not fit: what was decoded is some other message.
  <2>6. CASE ~Fits(m)
    <3>1. ASSUME NEW k \in 1..((n + 1) - 1) PROVE decoded'[k] = sent'[k]
      <4>1. k \in 1..n
        BY <1>3
      <4> QED BY <1>2, <1>6, <2>3, <4>1
    <3>2. n + 1 \in 1..Len(sent') /\ n + 1 <= Len(decoded') /\ ~Fits(sent'[n + 1])
      BY <1>2, <1>3, <1>6, <2>5, <2>6
    <3>3. Strayed'
      BY <3>1, <3>2 DEF Strayed
    <3> QED BY <1>8, <1>9, <3>3 DEF IInv, InStepOrStrayed
  <2>7. CASE Fits(m)
    <3>1. StartsWith(buf, m)
      <4>1. ASSUME PartOf(buf, m) PROVE FALSE
        <5>1. Read(buf) = UnexpectedEof
          BY <1>3, <2>2, <2>7, <4>1, ReadMessage
        <5> QED BY <5>1 DEF Decode, UnexpectedEof
      <4> QED BY <2>2, <4>1
    <3>2. Read(buf) = Complete(m, Len(e))
      BY <1>3, <2>2, <2>7, <3>1, ReadMessage
    <3>3. msg = m /\ used = Len(e)
      BY <3>2 DEF msg, used, Complete
    <3>4. Layout(W, pos)'
      BY <1>2, <1>11, SameLayout
    <3> DEFINE q == pos[n + 1]
    <3>5. q = p + used /\ q \in Nat
      BY <2>2, <2>4, <3>3
    <3> HIDE DEF p, q, w, m, e, n
    <3>6. q + Len(buf') + Len(wire) = p + Len(buf) + Len(wire)
      BY <1>3, <1>5, <1>7, <2>4, <3>5
    <3>7. ASSUME NEW k \in 1..Len(buf') PROVE buf'[k] = W[q + k]
      <4>1. k \in 1..(Len(buf) - used) /\ used + k \in 1..Len(buf) /\ p + (used + k) = q + k
        <5>1. Len(buf') = Len(buf) - used
          BY <1>7
        <5>2. k \in Nat /\ 1 <= k /\ k <= Len(buf) - used
          BY <1>3, <1>5, <5>1
        <5> QED BY <1>3, <1>5, <2>4, <3>5, <5>2
      <4> QED BY <1>7, <2>3, <4>1
    <3>8. ASSUME NEW k \in 1..Len(wire) PROVE wire[k] = W[q + Len(buf') + k]
      <4>1. p + Len(buf) + k = q + Len(buf') + k
        BY <1>3, <1>5, <1>7, <2>4, <3>5
      <4> QED BY <2>3, <4>1
    <3>9. ASSUME NEW k \in 1..(n + 1) PROVE decoded'[k] = sent[k]
      <4>1. CASE k = n + 1
        BY <1>6, <3>3, <4>1 DEF m
      <4>2. CASE k # n + 1
        <5>1. k \in 1..n
          BY <1>3, <4>2
        <5> QED BY <1>6, <2>3, <5>1
      <4> QED BY <4>1, <4>2
    <3>10. q + Len(buf') + Len(wire) <= w /\ (link # "broken" => q + Len(buf') + Len(wire) = w)
      BY <2>3, <3>6
    <3>11. pos[Len(decoded')] = q
      BY <1>6 DEF q
    <3>12. InStep(W, pos)'
      BY <1>2, <1>6, <2>5, <3>7, <3>8, <3>9, <3>10, <3>11 DEF InStep, w
    <3> QED BY <1>2, <1>8, <1>9, <3>4, <3>12 DEF IInv, InStepOrStrayed
  <2> QED BY <2>6, <2>7
<1> QED BY <1>1, <1>10, <1>11 DEF InStepOrStrayed

\* The steps that end the reading.
LEMMA EndStep ==
    ASSUME IInv, DecodeError \/ ReadEof
    PROVE  IInv'
<1>1. TypeOK /\ FailsOnlyForCause /\ InStepOrStrayed
  BY DEF IInv
<1>2. /\ sent' = sent /\ wire' = wire /\ link' = link /\ buf' = buf /\ decoded' = decoded
      /\ status' \in {"failed", "ended"}
  BY DEF DecodeError, ReadEof
<1>3. TypeOK'
  BY <1>1, <1>2 DEF TypeOK
<1>4. InStepOrStrayed'
  BY <1>1, <1>2, SameBytes
<1>5. ASSUME status' = "failed", link # "broken", AllFit(Len(sent)) PROVE FALSE
  <2>1. ~Strayed
    BY <1>5, StrayedNotFit
  <2>2. PICK W \in Seq(Byte), pos \in [0..Len(sent) -> Nat] : Layout(W, pos) /\ InStep(W, pos)
    BY <1>1, <2>1 DEF InStepOrStrayed
  <2>3. buf \in Seq(Byte) /\ Len(decoded) \in Nat /\ Len(sent) \in Nat
    BY <1>1 DEF TypeOK
  <2>4. CASE ~(Len(decoded) < Len(sent))
    <3>1. Read(buf) = UnexpectedEof /\ buf = <<>>
      BY <1>1, <2>2, <2>4, NothingLeft
    <3> QED BY <1>5, <3>1 DEF DecodeError, ReadEof, is_eof, UnexpectedEof
  <2>5. CASE Len(decoded) < Len(sent)
    <3> DEFINE m == sent[Len(decoded) + 1]
    <3>1. /\ m \in Message
          /\ StartsWith(buf, m) \/ PartOf(buf, m)
          /\ link # "broken" /\ Len(wire) = 0 => StartsWith(buf, m)
      BY <1>1, <2>2, <2>5, NextInBuffer
    <3>2. Fits(m)
      <4>1. Len(decoded) + 1 \in 1..Len(sent)
        BY <2>3, <2>5
      <4> QED BY <1>5, <4>1 DEF AllFit
    <3> HIDE DEF m
    <3>3. /\ StartsWith(buf, m) => Read(buf) = Complete(m, Len(Encode(m)))
          /\ PartOf(buf, m) => Read(buf) = UnexpectedEof
      BY <2>3, <3>1, <3>2, ReadMessage
    <3>4. CASE DecodeError
      BY <3>1, <3>3, <3>4 DEF DecodeError, is_eof, Complete, UnexpectedEof
    <3>5. CASE ReadEof
      <4>1. Len(wire) = 0
        BY <3>5, EmptySeq DEF ReadEof
      <4>2. Read(buf).res = "ok"
        BY <1>5, <3>1, <3>3, <4>1 DEF Complete
      <4> QED BY <3>5, <4>2 DEF ReadEof, is_eof
    <3> QED BY <3>4, <3>5
  <2> QED BY <2>4, <2>5
<1>6. FailsOnlyForCause'
  BY <1>2, <1>5 DEF FailsOnlyForCause, AllFit
<1> QED BY <1>3, <1>4, <1>6 DEF IInv

LEMMA NextInv == IInv /\ [Next]_vars => IInv'
<1> SUFFICES ASSUME IInv, [Next]_vars PROVE IInv'
  OBVIOUS
<1>1. ASSUME NEW m \in Message, Send(m) PROVE IInv'
  BY <1>1, SendStep
<1>2. CASE Close \/ Break
  BY <1>2, LinkStep
<1>3. CASE Receive
  BY <1>3, ReceiveStep
<1>4. CASE Decode
  BY <1>4, DecodeStep
<1>5. CASE DecodeError \/ ReadEof
  BY <1>5, EndStep
<1>6. CASE UNCHANGED vars
  <2>1. InStepOrStrayed'
    BY <1>6, SameBytes DEF vars, IInv
  <2> QED BY <1>6, <2>1 DEF vars, IInv, TypeOK, FailsOnlyForCause, AllFit
<1> QED BY <1>1, <1>2, <1>3, <1>4, <1>5, <1>6 DEF Next

LEMMA SpecInv == Spec => []IInv
  BY InitInv, NextInv, PTL DEF Spec

-----------------------------------------------------------------------------
\* Whatever bytes a message makes and however they are cut, the buffers of
\* FramedWrite and FramedRead hold bytes and decode returns messages
\* (codec.rs:10).
THEOREM TypeCorrect == Spec => []TypeOK
<1>1. IInv => TypeOK
  BY DEF IInv
<1> QED BY <1>1, SpecInv, PTL

\* MessageCodec gives the receiver the messages sent, in order, wherever TCP
\* cuts the stream, up to the first whose name is too long for its length byte
\* (codec.rs:14, messages.rs:46).
THEOREM DecodesWhatWasSent == Spec => []DecodedIsSent
<1>1. IInv => DecodedIsSent
  <2> SUFFICES ASSUME IInv, NEW n \in 1..Len(sent), AllFit(n), NEW k \in 1..n, k <= Len(decoded)
               PROVE  decoded[k] = sent[k]
    BY DEF DecodedIsSent
  <2>1. TypeOK /\ InStepOrStrayed
    BY DEF IInv
  <2>2. Len(sent) \in Nat /\ Len(decoded) \in Nat
    BY <2>1 DEF TypeOK
  <2>3. CASE Strayed
    <3>1. PICK f \in 1..Len(sent) : ~Fits(sent[f]) /\ \A i \in 1..(f - 1) : decoded[i] = sent[i]
      BY <2>3 DEF Strayed
    <3>2. ~(f <= n)
      <4>1. ASSUME f <= n PROVE f \in 1..n
        BY <2>2, <4>1
      <4> QED BY <3>1, <4>1 DEF AllFit
    <3>3. k \in 1..(f - 1)
      BY <2>2, <3>2
    <3> QED BY <3>1, <3>3
  <2>4. ASSUME NEW W, NEW pos, InStep(W, pos) PROVE decoded[k] = sent[k]
    <3>1. k \in 1..Len(decoded)
      BY <2>2
    <3> QED BY <2>4, <3>1 DEF InStep
  <2> QED BY <2>1, <2>3, <2>4 DEF InStepOrStrayed
<1> QED BY <1>1, SpecInv, PTL

\* decode asks for more rather than fail on a message that has arrived in part:
\* the reader gives up only after an overlong name or when the connection broke
\* (codec.rs:25, is_eof).
THEOREM ReaderFailsOnlyForCause == Spec => []FailsOnlyForCause
<1>1. IInv => FailsOnlyForCause
  BY DEF IInv
<1> QED BY <1>1, SpecInv, PTL

-----------------------------------------------------------------------------
(* Directory listings.                                                     *)

\* One round of the loop of parse_dir_entries, at position p.
ParseStep(data, f, p) ==
    IF p = Len(data) THEN [ok |-> TRUE, entries |-> <<>>]
    ELSE IF ~EntryOk(data, p) THEN [ok |-> FALSE, entries |-> <<>>]
    ELSE [ok |-> f[NameEnd(data, p + 2)].ok,
          entries |-> <<EntryAt(data, p)>> \o f[NameEnd(data, p + 2)].entries]

\* parse_dir_entries takes steps of ParseStep from position 0 on.
LEMMA ParseIsStep ==
    ASSUME NEW data
    PROVE  parse_dir_entries(data) =
             (CHOOSE f : f = [p \in 0..Len(data) |-> ParseStep(data, f, p)])[0]
BY DEF parse_dir_entries, ParseStep

\* An entry that parses ends after its start and within the payload.
LEMMA EntryEnds ==
    ASSUME NEW data \in Seq(Byte), NEW p \in 0..Len(data), EntryOk(data, p)
    PROVE  NameEnd(data, p + 2) \in (p + 1)..Len(data)
<1>1. p + 2 \in 1..Len(data)
  BY DEF EntryOk
<1>2. data[p + 2] \in Nat
  BY <1>1, CodecAssumption DEF Byte
<1> QED BY <1>2 DEF EntryOk, NameEnd

\* A step looks at the rest of the payload only after the entry it takes.
LEMMA ParseSame ==
    ASSUME NEW data, NEW p, NEW f, NEW g,
           EntryOk(data, p) => f[NameEnd(data, p + 2)] = g[NameEnd(data, p + 2)]
    PROVE  ParseStep(data, f, p) = ParseStep(data, g, p)
<1>1. CASE EntryOk(data, p)
  BY <1>1 DEF ParseStep
<1>2. CASE ~EntryOk(data, p)
  BY <1>2 DEF ParseStep
<1> QED BY <1>1, <1>2

\* The recursive function of parse_dir_entries exists, by induction from the end
\* of the payload down: every step goes forward.
LEMMA ParseRecursion ==
    ASSUME NEW data \in Seq(Byte)
    PROVE  \E f : /\ parse_dir_entries(data) = f[0]
                  /\ \A p \in 0..Len(data) : f[p] = ParseStep(data, f, p)
<1> DEFINE n == Len(data)
           Is(f, m) == f = [p \in m..n |-> ParseStep(data, f, p)]
           S == {m \in 0..n : \E f : Is(f, m)}
<1>1. n \in Nat
  OBVIOUS
<1>2. ASSUME NEW k \in 0..n, NEW g, \A p \in (k + 1)..n : g[p] = ParseStep(data, g, p)
      PROVE  k \in S
  <2> DEFINE h == [p \in k..n |-> IF p = k THEN ParseStep(data, g, p) ELSE g[p]]
  <2>1. ASSUME NEW p \in k..n PROVE h[p] = ParseStep(data, h, p)
    <3>1. p \in 0..n
      BY <1>1
    <3>2. EntryOk(data, p) => h[NameEnd(data, p + 2)] = g[NameEnd(data, p + 2)]
      <4> SUFFICES ASSUME EntryOk(data, p)
                   PROVE  h[NameEnd(data, p + 2)] = g[NameEnd(data, p + 2)]
        OBVIOUS
      <4>1. NameEnd(data, p + 2) \in (p + 1)..n
        BY <3>1, EntryEnds
      <4>2. NameEnd(data, p + 2) \in k..n /\ NameEnd(data, p + 2) # k
        BY <4>1, <1>1
      <4> QED BY <4>2
    <3>3. ParseStep(data, h, p) = ParseStep(data, g, p)
      <4> HIDE DEF h
      <4> QED BY <3>2, ParseSame
    <3>4. h[p] = ParseStep(data, g, p)
      <4>1. CASE p = k
        BY <4>1
      <4>2. CASE p # k
        <5>1. p \in (k + 1)..n /\ h[p] = g[p]
          BY <4>2, <1>1
        <5> QED BY <5>1, <1>2
      <4> QED BY <4>1, <4>2
    <3> QED BY <3>3, <3>4
  <2>2. h = [p \in k..n |-> h[p]]
    OBVIOUS
  <2> HIDE DEF h
  <2>3. Is(h, k)
    BY <2>1, <2>2
  <2> HIDE DEF Is
  <2> QED BY <2>3
<1>3. n \in S
  <2>1. n \in 0..n /\ \A p \in (n + 1)..n : FALSE
    BY <1>1
  <2> HIDE DEF n, S
  <2> QED BY <2>1, <1>2
<1>4. ASSUME NEW k \in 0..(n - 1), k + 1 \in S PROVE k \in S
  <2>1. PICK g : Is(g, k + 1)
    BY <1>4
  <2>2. \A p \in (k + 1)..n : g[p] = ParseStep(data, g, p)
    BY <2>1
  <2>3. k \in 0..n
    BY <1>1
  <2> HIDE DEF S, n
  <2> QED BY <1>2, <2>2, <2>3
<1>5. \A k \in 0..(n - 1) : (\A m \in (k + 1)..n : m \in S) => k \in S
  <2> SUFFICES ASSUME NEW k \in 0..(n - 1), \A m \in (k + 1)..n : m \in S
               PROVE  k \in S
    OBVIOUS
  <2>1. k + 1 \in (k + 1)..n
    BY <1>1
  <2> HIDE DEF S, n
  <2> QED BY <2>1, <1>4
<1>6. 0 \in S
  <2>1. 0 \in 0..n
    BY <1>1
  <2> HIDE DEF S, n
  <2>2. 0..n \subseteq S
    BY <1>1, <1>3, <1>5, Downward
  <2> QED BY <2>1, <2>2
<1>7. PICK g : Is(g, 0)
  BY <1>6
<1>8. PICK f : f = (CHOOSE h : Is(h, 0))
  OBVIOUS
<1>9. Is(f, 0)
  <2> HIDE DEF Is
  <2> QED BY <1>7, <1>8
<1>10. parse_dir_entries(data) = f[0]
  BY <1>8, ParseIsStep
<1>11. \A p \in 0..n : f[p] = ParseStep(data, f, p)
  BY <1>9
<1> QED BY <1>10, <1>11

\* The entries of protocol/dir_entry.rs.
DirEntry == [file_type : Tags, filename : Seq(Byte)]

\* What an entry whose name fits is encoded as.
LEMMA EntryBytes ==
    ASSUME NEW e \in DirEntry, Len(e.filename) < ByteValues
    PROVE  /\ EncodeEntry(e) \in Seq(Byte)
           /\ Len(EncodeEntry(e)) = 2 + Len(e.filename)
           /\ EncodeEntry(e)[1] = e.file_type
           /\ EncodeEntry(e)[2] = Len(e.filename)
           /\ \A j \in 1..Len(e.filename) : EncodeEntry(e)[2 + j] = e.filename[j]
<1>1. e.file_type \in Tags /\ e.filename \in Seq(Byte) /\ Len(e.filename) \in Nat
  BY DEF DirEntry
<1>2. LengthByte(e.filename) = Len(e.filename)
  BY <1>1, LengthBytes
<1>3. PICK a : a = <<e.file_type, Len(e.filename)>>
  OBVIOUS
<1>4. a \in Seq(Byte) /\ Len(a) = 2 /\ a[1] = e.file_type /\ a[2] = Len(e.filename)
  <2>1. e.file_type \in Byte /\ Len(e.filename) \in Byte
    BY <1>1, CodecAssumption DEF Byte, Tags
  <2> QED BY <1>3, <2>1
<1>5. EncodeEntry(e) = a \o e.filename
  BY <1>2, <1>3 DEF EncodeEntry
<1>6. /\ Len(a \o e.filename) = Len(a) + Len(e.filename)
      /\ \A j \in 1..Len(a) : (a \o e.filename)[j] = a[j]
      /\ \A j \in 1..Len(e.filename) : (a \o e.filename)[Len(a) + j] = e.filename[j]
  BY <1>1, <1>4, Joined
<1>7. a \o e.filename \in Seq(Byte)
  BY <1>1, <1>4
<1> QED BY <1>4, <1>5, <1>6, <1>7

\* An entry that was written at position p is what is parsed there.
LEMMA EntryParsed ==
    ASSUME NEW data \in Seq(Byte), NEW p \in Nat, NEW e \in DirEntry,
           Len(e.filename) < ByteValues,
           p + Len(EncodeEntry(e)) <= Len(data),
           \A j \in 1..Len(EncodeEntry(e)) : data[p + j] = EncodeEntry(e)[j]
    PROVE  /\ EntryOk(data, p)
           /\ EntryAt(data, p) = e
           /\ NameEnd(data, p + 2) = p + Len(EncodeEntry(e))
<1>1. PICK name \in Seq(Byte) : name = e.filename
  BY DEF DirEntry
<1>2. PICK l \in Nat : l = Len(name)
  OBVIOUS
<1>3. /\ p + (2 + l) <= Len(data)
      /\ data[p + 1] = e.file_type
      /\ data[p + 2] = l
      /\ \A j \in 1..l : data[p + (2 + j)] = name[j]
  <2>1. Len(EncodeEntry(e)) = 2 + l
    BY <1>1, <1>2, EntryBytes
  <2>2. 1 \in 1..(2 + l) /\ 2 \in 1..(2 + l) /\ \A j \in 1..l : 2 + j \in 1..(2 + l)
    OBVIOUS
  <2>3. /\ data[p + 1] = EncodeEntry(e)[1]
        /\ data[p + 2] = EncodeEntry(e)[2]
        /\ \A j \in 1..l : data[p + (2 + j)] = EncodeEntry(e)[2 + j]
    BY <2>1, <2>2
  <2> QED BY <2>1, <2>3, <1>1, <1>2, EntryBytes
<1>4. NameEnd(data, p + 2) = p + (2 + l)
  BY <1>3 DEF NameEnd
<1>5. EntryOk(data, p)
  BY <1>3, <1>4 DEF EntryOk, DirEntry
<1>6. NameAt(data, p + 2) = name
  <2>1. NameAt(data, p + 2) = SubSeq(data, p + 3, p + (2 + l))
    BY <1>3 DEF NameAt
  <2>2. PICK sub : sub = SubSeq(data, p + 3, p + (2 + l))
    OBVIOUS
  <2>3. sub = [j \in 1..l |-> data[p + (2 + j)]]
    <3>1. sub = [j \in 1..((p + (2 + l)) - (p + 3) + 1) |-> data[(p + 3) + j - 1]]
      BY <2>2
    <3>2. (p + (2 + l)) - (p + 3) + 1 = l
      OBVIOUS
    <3>3. \A j \in 1..l : (p + 3) + j - 1 = p + (2 + j)
      OBVIOUS
    <3> QED BY <3>1, <3>2, <3>3
  <2>4. name = [j \in 1..l |-> name[j]]
    BY <1>2
  <2> QED BY <2>1, <2>2, <2>3, <2>4, <1>3
<1>7. EntryAt(data, p) = e
  BY <1>1, <1>3, <1>6 DEF EntryAt, DirEntry
<1> QED BY <1>1, <1>2, <1>4, <1>5, <1>7, EntryBytes

\* Every listing whose names fit survives: each entry starts where the one
\* before it ended, so the parser finds them all, and no more.
LEMMA RoundTrip ==
    ASSUME NEW es \in Seq(DirEntry),
           \A k \in 1..Len(es) : Len(es[k].filename) < ByteValues
    PROVE  parse_dir_entries(serialize_dir_entires(es)) = [ok |-> TRUE, entries |-> es]
<1>1. PICK n \in Nat : n = Len(es) /\ DOMAIN es = 1..n
  OBVIOUS
<1>2. PICK ss : ss = [k \in DOMAIN es |-> EncodeEntry(es[k])]
  OBVIOUS
<1>3. \A k \in 1..n : es[k] \in DirEntry
  BY <1>1
<1>4. /\ ss \in Seq(Seq(Byte)) /\ Len(ss) = n
      /\ \A k \in 1..n : ss[k] = EncodeEntry(es[k]) /\ ss[k] \in Seq(Byte)
  BY <1>1, <1>2, <1>3, EntryBytes
<1>5. PICK data \in Seq(Byte) : data = FlattenSeq(ss)
  BY <1>4, FlattenBlocks
<1>6. PICK pos \in [0..n -> Nat] :
        /\ pos[0] = 0
        /\ pos[n] = Len(data)
        /\ \A k \in 1..n :
             /\ pos[k] = pos[k - 1] + Len(ss[k])
             /\ \A j \in 1..Len(ss[k]) : data[pos[k - 1] + j] = ss[k][j]
  <2>1. PICK D : D = Byte
    OBVIOUS
  <2>2. ss \in Seq(Seq(D))
    BY <1>4, <2>1
  <2>3. LaidOut(ss, data)
    BY <1>5, <2>2, FlattenBlocks
  <2> QED BY <1>4, <2>3 DEF LaidOut
<1>7. serialize_dir_entires(es) = data
  BY <1>2, <1>5 DEF serialize_dir_entires
<1>8. PICK f : /\ parse_dir_entries(data) = f[0]
               /\ \A p \in 0..Len(data) : f[p] = ParseStep(data, f, p)
  BY ParseRecursion
<1> DEFINE S == {k \in 0..n : pos[k] <= Len(data)}
<1>9. ASSUME NEW k \in 0..n PROVE pos[k] \in 0..Len(data)
  <2>1. n \in S
    BY <1>1, <1>6
  <2>2. ASSUME NEW m \in 0..(n - 1), m + 1 \in S PROVE m \in S
    <3>1. m + 1 \in 1..n /\ (m + 1) - 1 = m /\ m \in 0..n
      BY <1>1
    <3>2. pos[m + 1] = pos[m] + Len(ss[m + 1]) /\ pos[m + 1] <= Len(data)
      BY <2>2, <3>1, <1>6
    <3>3. pos[m] \in Nat /\ Len(ss[m + 1]) \in Nat /\ Len(data) \in Nat
      BY <3>1, <1>4
    <3>4. pos[m] <= Len(data)
      BY <3>2, <3>3, LeftPart
    <3> QED BY <3>1, <3>4
  <2>3. \A m \in 0..(n - 1) : (\A i \in (m + 1)..n : i \in S) => m \in S
    <3> SUFFICES ASSUME NEW m \in 0..(n - 1), \A i \in (m + 1)..n : i \in S
                 PROVE  m \in S
      OBVIOUS
    <3>1. m + 1 \in (m + 1)..n
      BY <1>1
    <3> HIDE DEF S
    <3> QED BY <3>1, <2>2
  <2>4. 0..n \subseteq S
    <3> HIDE DEF S
    <3> QED BY <2>1, <2>3, Downward
  <2> QED BY <2>4, <1>1
<1>10. ASSUME NEW k \in 0..(n - 1)
       PROVE  /\ k \in 0..n /\ k + 1 \in 0..n
              /\ pos[k] # Len(data)
              /\ EntryOk(data, pos[k])
              /\ EntryAt(data, pos[k]) = es[k + 1]
              /\ NameEnd(data, pos[k] + 2) = pos[k + 1]
  <2>1. k \in 0..n /\ k + 1 \in 0..n /\ k + 1 \in 1..n /\ (k + 1) - 1 = k
    BY <1>1
  <2>2. PICK e \in DirEntry : e = es[k + 1]
    BY <2>1, <1>3
  <2>3. /\ Len(e.filename) < ByteValues
        /\ ss[k + 1] = EncodeEntry(e)
    BY <2>1, <2>2, <1>1, <1>4
  <2>4. /\ pos[k + 1] = pos[k] + Len(EncodeEntry(e))
        /\ \A j \in 1..Len(EncodeEntry(e)) : data[pos[k] + j] = EncodeEntry(e)[j]
    BY <2>1, <2>3, <1>6
  <2>5. pos[k] \in Nat /\ pos[k + 1] \in 0..Len(data)
    BY <2>1, <1>9
  <2>6. pos[k] + Len(EncodeEntry(e)) <= Len(data)
    BY <2>4, <2>5
  <2>7. /\ EntryOk(data, pos[k])
        /\ EntryAt(data, pos[k]) = e
        /\ NameEnd(data, pos[k] + 2) = pos[k] + Len(EncodeEntry(e))
    BY <2>3, <2>4, <2>5, <2>6, EntryParsed
  <2>8. pos[k] # Len(data)
    BY <2>7, <2>5 DEF EntryOk
  <2> QED BY <2>1, <2>2, <2>4, <2>7, <2>8
<1> DEFINE T == {k \in 0..n : f[pos[k]] = [ok |-> TRUE, entries |-> SubSeq(es, k + 1, n)]}
<1>11. n \in T
  <2>1. SubSeq(es, n + 1, n) = <<>>
    BY <1>1
  <2>2. n \in 0..n
    BY <1>1
  <2>3. f[pos[n]] = ParseStep(data, f, pos[n])
    BY <2>2, <1>8, <1>9
  <2>4. ParseStep(data, f, pos[n]) = [ok |-> TRUE, entries |-> <<>>]
    BY <1>6 DEF ParseStep
  <2> QED BY <2>1, <2>2, <2>3, <2>4, Zenon
<1>12. ASSUME NEW k \in 0..(n - 1), k + 1 \in T PROVE k \in T
  <2>1. PICK rest : rest = SubSeq(es, k + 2, n)
    OBVIOUS
  <2>2. f[pos[k + 1]] = [ok |-> TRUE, entries |-> rest]
    <3>1. (k + 1) + 1 = k + 2
      OBVIOUS
    <3> QED BY <1>12, <2>1, <3>1
  <2>3. <<es[k + 1]>> \o rest = SubSeq(es, k + 1, n)
    BY <1>1, <1>3, <2>1
  <2>4. f[pos[k]] = ParseStep(data, f, pos[k])
    BY <1>8, <1>9, <1>10
  <2>5. ParseStep(data, f, pos[k]) =
          [ok |-> f[pos[k + 1]].ok, entries |-> <<es[k + 1]>> \o f[pos[k + 1]].entries]
    BY <1>10 DEF ParseStep
  <2>6. f[pos[k]] = [ok |-> TRUE, entries |-> SubSeq(es, k + 1, n)]
    <3>1. f[pos[k + 1]].ok = TRUE /\ f[pos[k + 1]].entries = rest
      BY <2>2
    <3> HIDE DEF T
    <3> QED BY <3>1, <2>3, <2>4, <2>5, Zenon
  <2> QED BY <2>6, <1>10
<1>13. 0 \in T
  <2>1. \A k \in 0..(n - 1) : (\A m \in (k + 1)..n : m \in T) => k \in T
    <3> SUFFICES ASSUME NEW k \in 0..(n - 1), \A m \in (k + 1)..n : m \in T
                 PROVE  k \in T
      OBVIOUS
    <3>1. k + 1 \in (k + 1)..n
      BY <1>1
    <3> HIDE DEF T
    <3> QED BY <3>1, <1>12
  <2>2. 0..n \subseteq T
    <3> HIDE DEF T
    <3> QED BY <1>11, <2>1, Downward
  <2>3. 0 \in 0..n
    BY <1>1
  <2> HIDE DEF T
  <2> QED BY <2>2, <2>3
<1>14. SubSeq(es, 1, n) = es
  BY <1>1
<1>15. f[pos[0]] = [ok |-> TRUE, entries |-> es]
  <2>1. f[pos[0]] = [ok |-> TRUE, entries |-> SubSeq(es, 0 + 1, n)]
    BY <1>13
  <2>2. 0 + 1 = 1
    OBVIOUS
  <2> QED BY <2>1, <2>2, <1>14, Zenon
<1> QED BY <1>6, <1>7, <1>8, <1>15, Zenon

\* A directory listing of any length survives serialize_dir_entires and
\* parse_dir_entries if its names fit their length bytes (dir_entry.rs:9, 20).
THEOREM ListingsSurvive == Spec => []DirEntriesRoundTrip
<1>1. ASSUME IInv PROVE DirEntriesRoundTrip
  <2> SUFFICES ASSUME AllFit(Len(sent))
               PROVE  parse_dir_entries(serialize_dir_entires(Listing)) =
                        [ok |-> TRUE, entries |-> Listing]
    BY DEF DirEntriesRoundTrip
  <2>1. PICK n \in Nat : n = Len(sent) /\ DOMAIN sent = 1..n
    BY <1>1 DEF IInv, TypeOK
  <2>2. PICK es : es = Listing
    OBVIOUS
  <2>3. ASSUME NEW k \in 1..n
        PROVE  es[k] \in DirEntry /\ Len(es[k].filename) < ByteValues
    <3>1. PICK m \in Message : m = sent[k]
      BY <1>1, <2>1 DEF IInv, TypeOK
    <3>2. PICK t : t = IF m.kind = "tagged" THEN m.tag ELSE 0
      OBVIOUS
    <3>3. PICK name : name = IF m.kind = "named" THEN m.name ELSE <<>>
      OBVIOUS
    <3>4. es[k] = [file_type |-> t, filename |-> name]
      BY <2>1, <2>2, <3>1, <3>2, <3>3 DEF Listing
    <3>5. t \in Tags
      BY <3>2, TaggedBytes DEF Tags
    <3>6. name \in Seq(Byte) /\ Len(name) < ByteValues
      <4>1. CASE m.kind = "named"
        BY <2>1, <3>1, <3>3, <4>1, NamedBytes DEF AllFit, Fits
      <4>2. CASE m.kind # "named"
        BY <3>3, <4>2, CodecAssumption
      <4> QED BY <4>1, <4>2
    <3> QED BY <3>4, <3>5, <3>6 DEF DirEntry
  <2>4. es \in Seq(DirEntry) /\ Len(es) = n
    <3>1. es = [k \in 1..n |-> es[k]]
      BY <2>1, <2>2 DEF Listing
    <3> QED BY <3>1, <2>3
  <2> QED BY <2>2, <2>3, <2>4, RoundTrip
<1> QED BY <1>1, SpecInv, PTL

=============================================================================
