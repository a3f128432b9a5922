------------------------------ MODULE AxtMessage ------------------------------
(***************************************************************************)
(* The messages of a terminal session: a header with two strings of        *)
(* variable length, little-endian numbers, and a payload.  Numbers nothing *)
(* looks at (the time, the sequence numbers, the length, the encoding) are *)
(* the 20 bytes they are sent as.                                          *)
(***************************************************************************)
EXTENDS Integers, Sequences

CONSTANT Nil

Byte == 0..255

MessageType ==
  [Input |-> 0, Output |-> 1, Resize |-> 2, Close |-> 3, Open |-> 4, Status |-> 5, Sync |-> 6]

\* The bytes of a version, an identifier or a payload.
Bytes == Seq(Byte)

AxtMessage ==
  [MsgType: Nat, Version: Bytes, ChannelID: Bytes, InstanceID: Bytes,
   Numbers: Bytes, Payload: Bytes]

Uint32(b) == b[1] + 256 * (b[2] + 256 * (b[3] + 256 * b[4]))

\* Where the payload starts, behind identifiers of these lengths.
HeaderLen(len1, len2) == 4 + 4 + 1 + len1 + 1 + len2 + 8 + 4 + 4 + 2 + 1 + 1

\* A slip: the second identifier is forgotten.
DecodeMessageOneId(data) ==
  LET len1 == data[9]
      len2 == data[10 + len1]
      start == 30 + len1
  IN IF Len(data) < 10 \/ Len(data) < 10 + len1 \/ Len(data) < start THEN Nil
     ELSE [MsgType |-> Uint32(data), Version |-> SubSeq(data, 5, 8),
           ChannelID |-> SubSeq(data, 10, 9 + len1), InstanceID |-> <<>>,
           Numbers |-> <<>>, Payload |-> SubSeq(data, start + 1, Len(data))]

\* Data that end before the header does are an error, Nil.  The zeros that
\* the version is padded with stay on here.
DecodeMessage(data) ==
  LET len1 == data[9]
      len2 == data[10 + len1]
      start == HeaderLen(len1, len2)
  IN IF Len(data) < 9 \/ Len(data) < 10 + len1 \/ Len(data) < start THEN Nil
     ELSE [MsgType |-> Uint32(data),
           Version |-> SubSeq(data, 5, 8),
           ChannelID |-> SubSeq(data, 10, 9 + len1),
           InstanceID |-> SubSeq(data, 11 + len1, 10 + len1 + len2),
           Numbers |-> SubSeq(data, 11 + len1 + len2, start),
           Payload |-> SubSeq(data, start + 1, Len(data))]

-----------------------------------------------------------------------------
(* Encoding, which the program has and never calls.                        *)

Zeros(n) == [i \in 1..n |-> 0]

\* Four zeros and the version, of which what the version is short of four
\* bytes is taken off again, at the end.  A version that is longer would have
\* bytes taken off that are not there: Nil, as the code panics.
VersionField(version) ==
  LET padded == Zeros(4) \o version
  IN IF Len(version) > 4 THEN Nil
     ELSE SubSeq(padded, 1, Len(padded) - (4 - Len(version)))

EncodeMessage(message) ==
  <<message.MsgType, 0, 0, 0>> \o VersionField(message.Version) \o
  <<Len(message.ChannelID) % 256>> \o message.ChannelID \o
  <<Len(message.InstanceID) % 256>> \o message.InstanceID \o
  message.Numbers \o message.Payload
=============================================================================
