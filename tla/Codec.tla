-------------------------------- MODULE Codec --------------------------------
(***************************************************************************)
(* MessageCodec (protocol/codec.rs) under FramedWrite and FramedRead: one   *)
(* direction of a connection as a stream of bytes.  TCP delivers the bytes *)
(* in order but cut into segments anywhere; the receiver finds the message *)
(* boundaries again by parsing, each length field saying how many bytes    *)
(* follow.                                                                 *)
(*                                                                         *)
(* Four kinds of message stand for the eighteen of messages.rs: one of     *)
(* fixed length whose fields take any value, one with a field that not     *)
(* every byte is valid for (ErrorCode, FileType), one with fields that are *)
(* there if their bit of a mask is set (SetAttrReq), and one with a name   *)
(* after a length field of one byte.                                       *)
(***************************************************************************)
EXTENDS Integers, Sequences, SequencesExt

CONSTANTS
    ByteValues,  \* number of values of a byte: 256 in the code
    Names,       \* the names that senders put into messages
    MaxMessages  \* bound: messages sent on the connection

Byte == 0..(ByteValues - 1)

ASSUME CodecAssumption ==
    /\ ByteValues \in Nat \ 0..4
    /\ Names \subseteq Seq(Byte)
    /\ MaxMessages \in Nat

VARIABLES
    sent,    \* history: the messages handed to writer.send
    wire,    \* bytes written and not yet read from the socket
    link,    \* the sending side: "open", "closed", or "broken"
    buf,     \* the FramedRead's buffer
    status,  \* the FramedRead: "open", "failed" or "ended"
    decoded  \* history: the messages reader.next() has returned

vars == <<sent, wire, link, buf, status, decoded>>

\* The first bytes of the four kinds; every other byte starts no message.
MaskedHeader == 0
BareHeader == 1
TaggedHeader == 2
NamedHeader == 3
Tags == {0, 1}

\* An optional field is a sequence of at most one byte; the value does not
\* matter.
Option == {<<>>, <<2>>}

Message ==
    [kind : {"bare"}] \cup [kind : {"tagged"}, tag : Tags]
      \cup [kind : {"masked"}, size : Option, mtime : Option]
      \cup [kind : {"named"}, name : Names]

-----------------------------------------------------------------------------
(* Encoding.                                                               *)

\* Mutant: the length is not cut to a byte.
LengthByteWide(name) == Len(name)

\* Mutant: the length counts its own byte as well.
LengthByteOver(name) == (Len(name) + 1) % ByteValues

\* filename.len() as u8
LengthByte(name) == Len(name) % ByteValues

\* One bit per field that is there.
field_mask(m) == Len(m.size) + 2 * Len(m.mtime)

Encode(m) ==
    CASE m.kind = "bare"   -> <<BareHeader>>
      [] m.kind = "tagged" -> <<TaggedHeader, m.tag>>
      [] m.kind = "masked" -> <<MaskedHeader, field_mask(m)>> \o m.size \o m.mtime
      [] m.kind = "named"  -> <<NamedHeader, LengthByte(m.name)>> \o m.name

-----------------------------------------------------------------------------
(* Parsing.  BinRead::read reads from the start of a buffer and says how    *)
(* much it used, that bytes are missing, or that this is no message.       *)

Complete(m, used) == [res |-> "ok", msg |-> m, used |-> used]
UnexpectedEof == [res |-> "eof"]
BadData == [res |-> "err"]

\* The name whose length is in byte `at', and where it ends.
NameAt(b, at) == SubSeq(b, at + 1, at + b[at])
NameEnd(b, at) == at + b[at]

ReadTagged(b) ==
    CASE Len(b) < 2                         -> UnexpectedEof
      [] Len(b) >= 2 /\ b[2] \notin Tags -> BadData
      [] Len(b) >= 2 /\ b[2] \in Tags     -> Complete([kind |-> "tagged", tag |-> b[2]], 2)

\* Each field is read if its bit is set; the other bits mean nothing.
ReadMasked(b) ==
    LET size  == b[2] % 2
        mtime == (b[2] \div 2) % 2
        used  == 2 + size + mtime
    IN  IF Len(b) < 2 \/ Len(b) < used THEN UnexpectedEof
        ELSE Complete([kind |-> "masked", size |-> SubSeq(b, 3, 2 + size),
                       mtime |-> SubSeq(b, 3 + size, used)], used)

\* Mutant: the parser wants a byte after the name.
ReadNamedLate(b) ==
    IF Len(b) < 2 \/ Len(b) <= NameEnd(b, 2)
    THEN UnexpectedEof
    ELSE Complete([kind |-> "named", name |-> NameAt(b, 2)], NameEnd(b, 2))

ReadNamed(b) ==
    IF Len(b) < 2 \/ Len(b) < NameEnd(b, 2)
    THEN UnexpectedEof
    ELSE Complete([kind |-> "named", name |-> NameAt(b, 2)], NameEnd(b, 2))

\* The magic byte chooses the variant; with no bytes at all, every variant
\* misses its magic byte.
Read(b) ==
    IF b = <<>> THEN UnexpectedEof
    ELSE CASE b[1] = BareHeader   -> Complete([kind |-> "bare"], 1)
           [] b[1] = TaggedHeader -> ReadTagged(b)
           [] b[1] = MaskedHeader -> ReadMasked(b)
           [] b[1] = NamedHeader  -> ReadNamed(b)
           [] OTHER               -> BadData

\* Mutant: binrw's own is_eof, which does not see the end of the buffer when a
\* variant has begun to parse.
is_eof_shallow(b) == b = <<>>

\* is_eof: the parser stopped for want of bytes.
is_eof(b) == Read(b).res = "eof"

-----------------------------------------------------------------------------
Init ==
    /\ sent = <<>>
    /\ wire = <<>>
    /\ link = "open"
    /\ buf = <<>>
    /\ status = "open"
    /\ decoded = <<>>

\* writer.send(msg): encode appends the message to what is being written.
Send(m) ==
    /\ link = "open"
    /\ Len(sent) < MaxMessages
    /\ sent' = Append(sent, m)
    /\ wire' = wire \o Encode(m)
    /\ UNCHANGED <<link, buf, status, decoded>>

\* The sender is done and closes.
Close ==
    /\ link = "open"
    /\ link' = "closed"
    /\ UNCHANGED <<sent, wire, buf, status, decoded>>

\* The connection breaks: what follows the first n bytes is never delivered.
Break ==
    /\ link = "open"
    /\ link' = "broken"
    /\ \E n \in 0..(Len(wire) - 1) : wire' = SubSeq(wire, 1, n)
    /\ UNCHANGED <<sent, buf, status, decoded>>

\* decode has returned Ok(None), so FramedRead reads what has arrived.
Receive ==
    /\ status = "open"
    /\ is_eof(buf)
    /\ \E n \in 1..Len(wire) :
         /\ buf' = buf \o SubSeq(wire, 1, n)
         /\ wire' = SubSeq(wire, n + 1, Len(wire))
    /\ UNCHANGED <<sent, link, status, decoded>>

\* decode finds a message, and src.advance takes it out of the buffer.
Decode ==
    /\ status = "open"
    /\ Read(buf).res = "ok"
    /\ decoded' = Append(decoded, Read(buf).msg)
    /\ buf' = SubSeq(buf, Read(buf).used + 1, Len(buf))
    /\ UNCHANGED <<sent, wire, link, status>>

\* decode fails.  FramedRead yields the error and then None, and the loops of
\* receive_loop and handle_client end.
DecodeError ==
    /\ status = "open"
    /\ Read(buf).res # "ok"
    /\ ~is_eof(buf)
    /\ status' = "failed"
    /\ UNCHANGED <<sent, wire, link, buf, decoded>>

\* The stream ends.  Bytes of an unfinished message are an error.
ReadEof ==
    /\ status = "open"
    /\ link # "open" /\ wire = <<>>
    /\ is_eof(buf)
    /\ status' = IF buf = <<>> THEN "ended" ELSE "failed"
    /\ UNCHANGED <<sent, wire, link, buf, decoded>>

Next ==
    \/ \E m \in Message : Send(m)
    \/ Close
    \/ Break
    \/ Receive
    \/ Decode
    \/ DecodeError
    \/ ReadEof

\* The receiver keeps polling its stream; nothing obliges a sender to send.
Spec ==
    /\ Init /\ [][Next]_vars
    /\ WF_vars(Receive) /\ WF_vars(Decode \/ DecodeError \/ ReadEof)

-----------------------------------------------------------------------------
(* READDIR payloads (protocol/dir_entry.rs): the same framing, without      *)
(* headers and over a payload that is all there.                           *)

\* Mutant: the length stands before the type.
EncodeEntrySwapped(e) == <<LengthByte(e.filename), e.file_type>> \o e.filename

\* DirEntry: the type of the file, and its name after a length byte.
EncodeEntry(e) == <<e.file_type, LengthByte(e.filename)>> \o e.filename

serialize_dir_entires(entries) == FlattenSeq([k \in DOMAIN entries |-> EncodeEntry(entries[k])])

\* The bytes after position p begin with an entry that parses.
EntryOk(data, p) ==
    /\ p + 1 < Len(data)
    /\ data[p + 1] \in Tags
    /\ NameEnd(data, p + 2) <= Len(data)

EntryAt(data, p) == [file_type |-> data[p + 1], filename |-> NameAt(data, p + 2)]

\* from[p] is what the loop makes of the payload after position p: it runs
\* while there are bytes, and an entry that does not parse is an error.
parse_dir_entries(data) ==
    LET from[p \in 0..Len(data)] ==
          IF p = Len(data) THEN [ok |-> TRUE, entries |-> <<>>]
          ELSE IF ~EntryOk(data, p) THEN [ok |-> FALSE, entries |-> <<>>]
          ELSE [ok |-> from[NameEnd(data, p + 2)].ok,
                entries |-> <<EntryAt(data, p)>> \o from[NameEnd(data, p + 2)].entries]
    IN  from[0]

-----------------------------------------------------------------------------
\* Whether the length of the name of a message fits its length field.
Fits(m) == m.kind = "named" => Len(m.name) < ByteValues

\* The first n messages sent all fit.
AllFit(n) == \A k \in 1..n : Fits(sent[k])

TypeOK ==
    /\ sent \in Seq(Message)
    /\ wire \in Seq(Byte)
    /\ link \in {"open", "closed", "broken"}
    /\ buf \in Seq(Byte)
    /\ status \in {"open", "failed", "ended"}
    /\ decoded \in Seq([kind : {"bare"}] \cup [kind : {"tagged"}, tag : Tags]
                        \cup [kind : {"masked"}, size : Seq(Byte), mtime : Seq(Byte)]
                        \cup [kind : {"named"}, name : Seq(Byte)])

\* Wherever the segments are cut, the receiver gets the messages that were
\* sent, in order, up to the first one whose name is too long for its length
\* byte (messages.rs:46, 145, 201): from there on name bytes are taken for
\* messages.
DecodedIsSent ==
    \A n \in 1..Len(sent) :
      AllFit(n) => \A k \in 1..n : k <= Len(decoded) => decoded[k] = sent[k]

\* decode asks for more bytes rather than fail on a message that has not
\* arrived in full (codec.rs:25, is_eof): the reader gives up only after a name
\* that did not fit, or when the connection broke within a message.
FailsOnlyForCause ==
    status = "failed" => link = "broken" \/ ~AllFit(Len(sent))

\* Every message before the first that does not fit is eventually returned,
\* if the connection stays up: decode never waits for bytes beyond the message.
AllDecoded ==
    \A n \in 1..MaxMessages :
      n <= Len(sent) /\ AllFit(n) ~> link = "broken" \/ n <= Len(decoded)

\* A directory listing survives serialize_dir_entires and parse_dir_entries,
\* if its names fit; here the listing is made of the messages sent so far.
Listing ==
    LET Entry(m) == [file_type |-> IF m.kind = "tagged" THEN m.tag ELSE 0,
                     filename |-> IF m.kind = "named" THEN m.name ELSE <<>>]
    IN  [k \in DOMAIN sent |-> Entry(sent[k])]

DirEntriesRoundTrip ==
    AllFit(Len(sent)) =>
      parse_dir_entries(serialize_dir_entires(Listing)) = [ok |-> TRUE, entries |-> Listing]

=============================================================================
