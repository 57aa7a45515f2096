------------------------------- MODULE MCCodec -------------------------------
(***************************************************************************)
(* Bytes of five values: a name of four bytes just fits the length byte    *)
(* and one of five does not.  The bytes of the names are also headers,     *)
(* lengths and tags, so that a name can look like messages.                *)
(***************************************************************************)
EXTENDS Codec

SomeNames == {<<>>, <<3, 2, 1, 4>>, <<1, 2, 0, 1, 3>>, <<3, 0, 2, 4, 1>>}

=============================================================================
