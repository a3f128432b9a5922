------------------------- MODULE TerminalSessionProofs -------------------------
(***************************************************************************)
(* Proofs about TerminalSession: the decoder undoes what the server sends, *)
(* for identifiers and payloads of every length; the types; that what the  *)
(* user reads is what the server wrote, in order; and that a user who      *)
(* quits gets the terminal back.                                           *)
(***************************************************************************)
EXTENDS TerminalSession, SequenceTheorems, TLAPS

-----------------------------------------------------------------------------
(* Where the parts of a message are.                                       *)

\* A sequence of bytes that is concatenated holds its parts at their places.
LEMMA Concat ==
  ASSUME NEW s \in Bytes, NEW t \in Bytes
  PROVE  /\ s \o t \in Bytes
         /\ Len(s \o t) = Len(s) + Len(t)
         /\ \A i \in 1..Len(s) : (s \o t)[i] = s[i]
         /\ \A i \in 1..Len(t) : (s \o t)[Len(s) + i] = t[i]
  BY DEF Bytes

Whole(f) ==
  <<f.MsgType, 0, 0, 0>> \o f.Version \o <<Len(f.ChannelID)>> \o f.ChannelID \o
  <<Len(f.InstanceID)>> \o f.InstanceID \o f.Numbers \o f.Payload

IsMessage(f) ==
  /\ f.MsgType \in Byte
  /\ f.Version \in Bytes /\ Len(f.Version) = 4
  /\ f.ChannelID \in Bytes /\ Len(f.ChannelID) < 256
  /\ f.InstanceID \in Bytes /\ Len(f.InstanceID) < 256
  /\ f.Numbers \in Bytes /\ Len(f.Numbers) = 20
  /\ f.Payload \in Bytes

\* The lengths and the places a decoder looks at, in a whole message.
LEMMA Layout ==
  ASSUME NEW f, IsMessage(f)
  PROVE  LET n1 == Len(f.ChannelID)
             n2 == Len(f.InstanceID)
         IN /\ Whole(f) \in Bytes
            /\ Len(Whole(f)) = 30 + n1 + n2 + Len(f.Payload)
            /\ Whole(f)[1] = f.MsgType
            /\ Whole(f)[2] = 0 /\ Whole(f)[3] = 0 /\ Whole(f)[4] = 0
            /\ Whole(f)[9] = n1
            /\ Whole(f)[10 + n1] = n2
            /\ \A i \in 1..Len(f.Payload) : Whole(f)[30 + n1 + n2 + i] = f.Payload[i]
<1> DEFINE n1 == Len(f.ChannelID)
           n2 == Len(f.InstanceID)
           type == <<f.MsgType, 0, 0, 0>>
           a == type \o f.Version
           b == a \o <<n1>>
           c == b \o f.ChannelID
           d == c \o <<n2>>
           e == d \o f.InstanceID
           g == e \o f.Numbers
<1>1. n1 \in Byte /\ n2 \in Byte
  <2>1. f.ChannelID \in Seq(Byte) /\ f.InstanceID \in Seq(Byte)
    BY DEF IsMessage, Bytes
  <2>2. n1 \in Nat /\ n2 \in Nat
    BY <2>1
  <2>3. n1 < 256 /\ n2 < 256
    BY DEF IsMessage
  <2> HIDE DEF n1, n2
  <2> QED BY <2>2, <2>3 DEF Byte
<1>2. type \in Bytes /\ Len(type) = 4 /\ type[1] = f.MsgType
      /\ type[2] = 0 /\ type[3] = 0 /\ type[4] = 0
  BY DEF IsMessage, Byte, Bytes
<1>3. /\ a \in Bytes /\ Len(a) = 8
      /\ a[1] = f.MsgType /\ a[2] = 0 /\ a[3] = 0 /\ a[4] = 0
  <2>1. f.Version \in Bytes /\ Len(f.Version) = 4
    BY DEF IsMessage
  <2> HIDE DEF type
  <2>2. a \in Bytes /\ Len(a) = Len(type) + Len(f.Version) /\ \A i \in 1..Len(type) : a[i] = type[i]
    BY <1>2, <2>1, Concat
  <2> QED BY <1>2, <2>1, <2>2
<1> HIDE DEF type, a
<1>4. /\ b \in Bytes /\ Len(b) = 9
      /\ \A i \in 1..8 : b[i] = a[i]
      /\ b[9] = n1
  <2>1. <<n1>> \in Bytes /\ Len(<<n1>>) = 1 /\ <<n1>>[1] = n1
    BY <1>1 DEF Bytes
  <2> HIDE DEF n1
  <2>2. /\ b \in Bytes /\ Len(b) = Len(a) + Len(<<n1>>)
        /\ \A i \in 1..Len(a) : b[i] = a[i]
        /\ \A i \in 1..Len(<<n1>>) : b[Len(a) + i] = <<n1>>[i]
    BY <1>3, <2>1, Concat
  <2> QED BY <1>3, <2>1, <2>2
<1>5. /\ c \in Bytes /\ Len(c) = 9 + n1
      /\ \A i \in 1..9 : c[i] = b[i]
  <2>1. f.ChannelID \in Bytes
    BY DEF IsMessage
  <2>2. /\ c \in Bytes /\ Len(c) = Len(b) + Len(f.ChannelID)
        /\ \A i \in 1..Len(b) : c[i] = b[i]
    BY <1>4, <2>1, Concat
  <2> QED BY <1>4, <2>2
<1>6. /\ d \in Bytes /\ Len(d) = 10 + n1
      /\ \A i \in 1..(9 + n1) : d[i] = c[i]
      /\ d[10 + n1] = n2
  <2>1. <<n2>> \in Bytes /\ Len(<<n2>>) = 1 /\ <<n2>>[1] = n2
    BY <1>1 DEF Bytes
  <2> HIDE DEF n1, n2, c
  <2>2. /\ d \in Bytes /\ Len(d) = Len(c) + Len(<<n2>>)
        /\ \A i \in 1..Len(c) : d[i] = c[i]
        /\ \A i \in 1..Len(<<n2>>) : d[Len(c) + i] = <<n2>>[i]
    BY <1>5, <2>1, Concat
  <2>3. d[Len(c) + 1] = n2
    BY <2>1, <2>2
  <2>4. n1 \in 0..255
    BY <1>1 DEF Byte
  <2>5. Len(c) = 9 + n1 /\ Len(c) + 1 = 10 + n1
    BY <1>5, <2>4
  <2>6. d[10 + n1] = n2
    BY <2>3, <2>5
  <2>7. Len(d) = 10 + n1
    BY <2>1, <2>2, <2>5
  <2>8. \A i \in 1..(9 + n1) : d[i] = c[i]
    BY <2>2, <2>5
  <2> QED BY <2>2, <2>6, <2>7, <2>8
<1>7. /\ e \in Bytes /\ Len(e) = 10 + n1 + n2
      /\ \A i \in 1..(10 + n1) : e[i] = d[i]
  <2>1. f.InstanceID \in Bytes
    BY DEF IsMessage
  <2> HIDE DEF d
  <2>2. /\ e \in Bytes /\ Len(e) = Len(d) + Len(f.InstanceID)
        /\ \A i \in 1..Len(d) : e[i] = d[i]
    BY <1>6, <2>1, Concat
  <2> QED BY <1>6, <2>2
<1>8. /\ g \in Bytes /\ Len(g) = 30 + n1 + n2
      /\ \A i \in 1..(10 + n1 + n2) : g[i] = e[i]
  <2>1. f.Numbers \in Bytes /\ Len(f.Numbers) = 20
    BY DEF IsMessage
  <2> HIDE DEF e
  <2>2. /\ g \in Bytes /\ Len(g) = Len(e) + Len(f.Numbers)
        /\ \A i \in 1..Len(e) : g[i] = e[i]
    BY <1>7, <2>1, Concat
  <2>3. n1 \in 0..255 /\ n2 \in 0..255
    BY <1>1 DEF Byte
  <2> HIDE DEF n1, n2
  <2> QED BY <1>7, <2>1, <2>2, <2>3
<1>9. /\ Whole(f) \in Bytes /\ Len(Whole(f)) = 30 + n1 + n2 + Len(f.Payload)
      /\ \A i \in 1..(30 + n1 + n2) : Whole(f)[i] = g[i]
      /\ \A i \in 1..Len(f.Payload) : Whole(f)[30 + n1 + n2 + i] = f.Payload[i]
  <2>1. f.Payload \in Bytes
    BY DEF IsMessage
  <2>2. Whole(f) = g \o f.Payload
    BY DEF Whole, a, type
  <2> HIDE DEF g
  <2> DEFINE w == g \o f.Payload
  <2>w. /\ w \in Bytes /\ Len(w) = Len(g) + Len(f.Payload)
        /\ \A i \in 1..Len(g) : w[i] = g[i]
        /\ \A i \in 1..Len(f.Payload) : w[Len(g) + i] = f.Payload[i]
    BY <1>8, <2>1, Concat
  <2> HIDE DEF w
  <2>3. /\ Whole(f) \in Bytes /\ Len(Whole(f)) = Len(g) + Len(f.Payload)
        /\ \A i \in 1..Len(g) : Whole(f)[i] = g[i]
        /\ \A i \in 1..Len(f.Payload) : Whole(f)[Len(g) + i] = f.Payload[i]
    BY <2>2, <2>w DEF w
  <2>4. Len(g) = 30 + n1 + n2
    BY <1>8
  <2>5. \A i \in 1..(30 + n1 + n2) : Whole(f)[i] = g[i]
    BY <2>3, <2>4
  <2>6. \A i \in 1..Len(f.Payload) : Whole(f)[30 + n1 + n2 + i] = f.Payload[i]
    BY <2>3, <2>4
  <2> QED BY <2>3, <2>4, <2>5, <2>6
<1>10. n1 \in 0..255 /\ n2 \in 0..255
  BY <1>1 DEF Byte
<1> HIDE DEF b, c, d, e, g, n1, n2
<1>11. \A i \in 1..9 : Whole(f)[i] = b[i]
  <2> SUFFICES ASSUME NEW i \in 1..9 PROVE Whole(f)[i] = b[i]
    OBVIOUS
  <2>1. /\ i \in 1..(9 + n1) /\ i \in 1..(10 + n1) /\ i \in 1..(10 + n1 + n2)
        /\ i \in 1..(30 + n1 + n2)
    BY <1>10
  <2>2. c[i] = b[i]
    BY <1>5
  <2>3. d[i] = c[i]
    BY <1>6, <2>1
  <2>4. e[i] = d[i]
    BY <1>7, <2>1
  <2>5. g[i] = e[i]
    BY <1>8, <2>1
  <2>6. Whole(f)[i] = g[i]
    BY <1>9, <2>1
  <2> QED BY <2>2, <2>3, <2>4, <2>5, <2>6
<1>12. Whole(f)[10 + n1] = n2
  <2>1. /\ 10 + n1 \in 1..(10 + n1) /\ 10 + n1 \in 1..(10 + n1 + n2)
        /\ 10 + n1 \in 1..(30 + n1 + n2)
    BY <1>10
  <2>2. e[10 + n1] = d[10 + n1]
    BY <1>7, <2>1
  <2>3. g[10 + n1] = e[10 + n1]
    BY <1>8, <2>1
  <2>4. Whole(f)[10 + n1] = g[10 + n1]
    BY <1>9, <2>1
  <2> QED BY <1>6, <2>2, <2>3, <2>4
<1>13. Whole(f)[1] = f.MsgType /\ Whole(f)[2] = 0 /\ Whole(f)[3] = 0 /\ Whole(f)[4] = 0
  BY <1>3, <1>4, <1>11
<1>14. Whole(f)[9] = n1
  BY <1>4, <1>11
<1> QED BY <1>9, <1>12, <1>13, <1>14 DEF n1, n2

-----------------------------------------------------------------------------
(* Decoding.                                                               *)

LEMMA FramesAreMessages ==
  ASSUME NEW f \in Frames
  PROVE  IsMessage(f) /\ f.cut \in Nat
  BY SessionAssumption DEF IsMessage

\* The beginning of a sequence of bytes.
LEMMA Beginning ==
  ASSUME NEW s \in Bytes, NEW n \in Nat, n <= Len(s)
  PROVE  /\ SubSeq(s, 1, n) \in Bytes
         /\ Len(SubSeq(s, 1, n)) = n
         /\ \A i \in 1..n : SubSeq(s, 1, n)[i] = s[i]
  BY DEF Bytes

\* What arrives of a message that lost bytes at its end.
LEMMA SentIsBeginning ==
  ASSUME NEW f \in Frames, f.cut <= Len(Whole(f))
  PROVE  /\ Sent(f) \in Bytes
         /\ Len(Sent(f)) = Len(Whole(f)) - f.cut
         /\ \A i \in 1..Len(Sent(f)) : Sent(f)[i] = Whole(f)[i]
<1>1. Whole(f) \in Bytes /\ f.cut \in Nat
  BY FramesAreMessages, Layout
<1>2. Sent(f) = SubSeq(Whole(f), 1, Len(Whole(f)) - f.cut)
  BY DEF Sent, Whole
<1>3. Len(Whole(f)) - f.cut \in Nat /\ Len(Whole(f)) - f.cut <= Len(Whole(f))
  <2>1. Len(Whole(f)) \in Nat
    BY <1>1 DEF Bytes
  <2> QED BY <1>1, <2>1
<1> HIDE DEF Whole
<1> QED BY <1>1, <1>2, <1>3, Beginning

\* A message that lost at most its payload is decoded to its type and to the
\* payload that is left, whatever the lengths of the identifiers
\* (session_manager/axt_message.go:143).
THEOREM DecodeSent ==
  ASSUME NEW f \in Frames, f.cut <= Len(f.Payload)
  PROVE  /\ DecodeMessage(Sent(f)) # Nil
         /\ DecodeMessage(Sent(f)).MsgType = f.MsgType
         /\ DecodeMessage(Sent(f)).Payload = SubSeq(f.Payload, 1, Len(f.Payload) - f.cut)
<1> DEFINE n1 == Len(f.ChannelID)
           n2 == Len(f.InstanceID)
           n == Len(f.Payload)
           s == Sent(f)
           start == 30 + n1 + n2
<1>1. /\ Whole(f) \in Bytes /\ Len(Whole(f)) = start + n
      /\ Whole(f)[1] = f.MsgType
      /\ Whole(f)[2] = 0 /\ Whole(f)[3] = 0 /\ Whole(f)[4] = 0
      /\ Whole(f)[9] = n1 /\ Whole(f)[10 + n1] = n2
      /\ \A i \in 1..n : Whole(f)[start + i] = f.Payload[i]
  BY FramesAreMessages, Layout
<1>2. n1 \in Nat /\ n2 \in Nat /\ n \in Nat /\ f.cut \in Nat
  <2>1. /\ f.ChannelID \in Seq(Byte) /\ f.InstanceID \in Seq(Byte)
        /\ f.Payload \in Seq(Byte)
    BY FramesAreMessages DEF IsMessage, Bytes
  <2> QED BY <2>1, FramesAreMessages
<1>3. f.Payload \in Bytes /\ f.MsgType \in Byte
  BY FramesAreMessages DEF IsMessage
<1> DEFINE w == Whole(f)
           cut == f.cut
<1>4. cut <= n
  OBVIOUS
<1> HIDE DEF n1, n2
<1>5. /\ s \in Bytes /\ Len(s) = start + (n - cut)
      /\ \A i \in 1..Len(s) : s[i] = Whole(f)[i]
  <2>1. Len(w) = start + n
    BY <1>1
  <2>2. cut \in Nat
    BY <1>2
  <2> HIDE DEF w, n, cut
  <2>3. cut <= Len(w)
    BY <1>2, <1>4, <2>1, <2>2
  <2>4. /\ s \in Bytes /\ Len(s) = Len(w) - cut
        /\ \A i \in 1..Len(s) : s[i] = w[i]
    BY <2>3, SentIsBeginning DEF w, cut
  <2>5. Len(s) = start + (n - cut)
    BY <1>2, <2>1, <2>2, <2>4
  <2> QED BY <2>4, <2>5 DEF w
<1>6. n - cut \in Nat
  BY <1>2, <1>4
<1> HIDE DEF s, n
<1>7. /\ s[1] = f.MsgType /\ s[2] = 0 /\ s[3] = 0 /\ s[4] = 0
      /\ s[9] = n1 /\ s[10 + n1] = n2
  <2>1. /\ 1 \in 1..Len(s) /\ 2 \in 1..Len(s) /\ 3 \in 1..Len(s) /\ 4 \in 1..Len(s)
        /\ 9 \in 1..Len(s) /\ 10 + n1 \in 1..Len(s)
    BY <1>2, <1>5, <1>6
  <2> QED BY <1>1, <1>5, <2>1
<1>8. HeaderLen(n1, n2) = start
  BY <1>2 DEF HeaderLen
<1>9. ~(Len(s) < 9 \/ Len(s) < 10 + n1 \/ Len(s) < start)
  BY <1>2, <1>5, <1>6
<1> DEFINE m == [MsgType |-> Uint32(s), Version |-> SubSeq(s, 5, 8),
                 ChannelID |-> SubSeq(s, 10, 9 + n1),
                 InstanceID |-> SubSeq(s, 11 + n1, 10 + n1 + n2),
                 Numbers |-> SubSeq(s, 11 + n1 + n2, start),
                 Payload |-> SubSeq(s, start + 1, Len(s))]
<1>10. DecodeMessage(s) = m
  BY <1>7, <1>8, <1>9 DEF DecodeMessage
<1>11. Uint32(s) = f.MsgType /\ Uint32(s) \in Nat
  <2> DEFINE type == f.MsgType
  <2>1. type \in 0..255
    BY <1>3 DEF Byte
  <2>2. s[1] = type /\ s[2] = 0 /\ s[3] = 0 /\ s[4] = 0
    BY <1>7
  <2> HIDE DEF type
  <2>3. Uint32(s) = type + 256 * (0 + 256 * (0 + 256 * 0))
    BY <2>2 DEF Uint32
  <2>4. Uint32(s) = type /\ type \in Nat
    BY <2>1, <2>3
  <2> QED BY <2>4 DEF type
<1>12. SubSeq(s, start + 1, Len(s)) = SubSeq(f.Payload, 1, n - cut)
  <2> DEFINE left == SubSeq(s, start + 1, Len(s))
             right == SubSeq(f.Payload, 1, n - cut)
  <2>1. start \in Nat /\ n - cut <= n
    BY <1>2
  <2>2. right \in Bytes /\ Len(right) = n - cut /\ \A i \in 1..(n - cut) : right[i] = f.Payload[i]
    BY <1>3, <1>6, <2>1, Beginning DEF n
  <2> HIDE DEF right, start
  <2>3. /\ left \in Seq(Byte) /\ Len(left) = n - cut
        /\ \A i \in 1..(n - cut) : left[i] = s[start + i]
    BY <1>5, <1>6, <2>1 DEF Bytes
  <2> HIDE DEF left
  <2>4. ASSUME NEW i \in 1..(n - cut) PROVE left[i] = right[i]
    <3>1. i \in 1..n /\ start + i \in 1..Len(s)
      BY <1>2, <1>5, <1>6, <2>1
    <3>2. left[i] = s[start + i]
      BY <2>3
    <3>3. s[start + i] = Whole(f)[start + i]
      BY <1>5, <3>1
    <3>4. Whole(f)[start + i] = f.Payload[i]
      BY <1>1, <3>1
    <3> QED BY <2>2, <3>2, <3>3, <3>4
  <2>5. left = right
    BY <2>2, <2>3, <2>4, SeqEqual DEF Bytes
  <2> QED BY <2>5 DEF left, right
<1>13. m \in AxtMessage
  <2>1. Uint32(s) \in Nat
    BY <1>11
  <2>2. s \in Seq(Byte)
    BY <1>5 DEF Bytes
  <2>3. /\ SubSeq(s, 5, 8) \in Seq(Byte)
        /\ SubSeq(s, 10, 9 + n1) \in Seq(Byte)
        /\ SubSeq(s, 11 + n1, 10 + n1 + n2) \in Seq(Byte)
        /\ SubSeq(s, 11 + n1 + n2, start) \in Seq(Byte)
        /\ SubSeq(s, start + 1, Len(s)) \in Seq(Byte)
    BY <1>2, <1>5, <1>6, <2>2, SubSeqProperties
  <2> QED BY <2>1, <2>3 DEF AxtMessage, Bytes
<1>14. m # Nil
  BY <1>13, SessionAssumption
<1>15. m.MsgType = f.MsgType /\ m.Payload = SubSeq(f.Payload, 1, n - cut)
  BY <1>11, <1>12
<1> HIDE DEF m
<1> QED BY <1>10, <1>14, <1>15 DEF s, n, cut

\* A message cut off in its header is an error to the decoder, wherever the
\* cut is (session_manager/axt_message.go:143).
THEOREM DecodeCut ==
  ASSUME NEW f \in Frames, f.cut > Len(f.Payload), f.cut <= Len(Whole(f))
  PROVE  DecodeMessage(Sent(f)) = Nil
<1> DEFINE n1 == Len(f.ChannelID)
           n2 == Len(f.InstanceID)
           n == Len(f.Payload)
           w == Whole(f)
           s == Sent(f)
           cut == f.cut
<1>1. /\ w \in Bytes /\ Len(w) = 30 + n1 + n2 + n
      /\ w[9] = n1 /\ w[10 + n1] = n2
  BY FramesAreMessages, Layout
<1>2. n1 \in Nat /\ n2 \in Nat /\ n \in Nat /\ cut \in Nat
  <2>1. /\ f.ChannelID \in Seq(Byte) /\ f.InstanceID \in Seq(Byte)
        /\ f.Payload \in Seq(Byte)
    BY FramesAreMessages DEF IsMessage, Bytes
  <2> QED BY <2>1, FramesAreMessages
<1>3. /\ s \in Bytes /\ Len(s) = Len(w) - cut
      /\ \A i \in 1..Len(s) : s[i] = w[i]
  BY SentIsBeginning
<1>4. cut > n
  OBVIOUS
<1> HIDE DEF n1, n2, n, w, s, cut
<1>5. Len(s) < 30 + n1 + n2 /\ Len(s) \in Int
  BY <1>1, <1>2, <1>3, <1>4
<1>6. CASE Len(s) < 9
  BY <1>6 DEF DecodeMessage, s
<1>7. CASE ~(Len(s) < 9)
  <2>1. s[9] = n1
    <3>1. 9 \in 1..Len(s)
      BY <1>5, <1>7
    <3> QED BY <1>1, <1>3, <3>1
  <2>2. CASE Len(s) < 10 + n1
    BY <2>1, <2>2 DEF DecodeMessage, s
  <2>3. CASE ~(Len(s) < 10 + n1)
    <3>1. 10 + n1 \in 1..Len(s)
      BY <1>2, <1>5, <2>3
    <3>2. s[10 + n1] = n2
      BY <1>1, <1>3, <3>1
    <3>3. HeaderLen(n1, n2) = 30 + n1 + n2
      BY <1>2 DEF HeaderLen
    <3>4. Len(s) < HeaderLen(n1, n2)
      BY <1>5, <3>3
    <3> QED BY <2>1, <3>2, <3>4 DEF DecodeMessage, s
  <2> QED BY <2>2, <2>3
<1> QED BY <1>6, <1>7

-----------------------------------------------------------------------------
(* The session.                                                            *)

\* While a message waits to be shown less has been shown than received; the
\* keyboard's goroutine leaves raw mode before it closes its channel; and
\* main has left because of the user only once that channel is closed.
SessionInv ==
  /\ TypeOK
  /\ frame # Nil => Len(shown) < Len(frames)
  /\ input \in {"close", "closed"} => tty # "raw"
  /\ why = "user" => main = "exited" /\ input = "closed"

\* What is written for a message is at most one payload.
LEMMA ShownType ==
  ASSUME TypeOK, NEW f \in Frames
  PROVE  Shown(f) \in Seq(Bytes) /\ Len(Shown(f)) <= Len(shown) + 1
<1>1. shown \in Seq(Bytes)
  BY DEF TypeOK
<1> DEFINE data == Sent(f)
           message == DecodeMessage(data)
<1>2. CASE message = Nil
  BY <1>1, <1>2 DEF Shown
<1>3. CASE message # Nil
  <2> DEFINE start == HeaderLen(data[9], data[10 + data[9]])
  <2>1. /\ ~(Len(data) < 9 \/ Len(data) < 10 + data[9] \/ Len(data) < start)
        /\ message.Payload = SubSeq(data, start + 1, Len(data))
    BY <1>3 DEF DecodeMessage
  <2>2. data \in Seq(Byte)
    <3>1. Whole(f) \in Seq(Byte) /\ f.cut \in Nat
      BY FramesAreMessages, Layout DEF Bytes
    <3>2. data = SubSeq(Whole(f), 1, Len(Whole(f)) - f.cut)
      BY DEF Sent, Whole
    <3>3. \A i \in 1..(Len(Whole(f)) - f.cut) : Whole(f)[i] \in Byte
      BY <3>1
    <3>4. Len(Whole(f)) - f.cut \in Int
      BY <3>1
    <3> HIDE DEF data
    <3> QED BY <3>2, <3>3, <3>4, SubSeqProperties
  <2> HIDE DEF data
  <2>3. data[9] \in Nat
    <3>1. 9 \in 1..Len(data)
      BY <2>1, <2>2
    <3>2. data[9] \in Byte
      BY <2>2, <3>1, ElementOfSeq
    <3> QED BY <3>2 DEF Byte
  <2>4. data[10 + data[9]] \in Nat
    <3>1. 10 + data[9] \in 1..Len(data)
      BY <2>1, <2>2, <2>3
    <3>2. data[10 + data[9]] \in Byte
      BY <2>2, <3>1, ElementOfSeq
    <3> QED BY <3>2 DEF Byte
  <2>5. start \in Nat
    BY <2>3, <2>4 DEF HeaderLen
  <2> HIDE DEF start, message
  <2>6. message.Payload \in Bytes
    <3>1. \A i \in (start + 1)..Len(data) : data[i] \in Byte
      BY <2>2, <2>5
    <3> QED BY <2>1, <2>2, <2>5, <3>1, SubSeqProperties DEF Bytes
  <2>7. Append(shown, message.Payload) \in Seq(Bytes)
        /\ Len(Append(shown, message.Payload)) = Len(shown) + 1
    BY <1>1, <2>6, AppendProperties
  <2>8. Shown(f) \in {shown, Append(shown, message.Payload)}
    BY <1>3 DEF Shown, message, data
  <2> QED BY <1>1, <2>7, <2>8
<1> QED BY <1>2, <1>3

LEMMA SessionInvInit == Init => SessionInv
  BY SessionAssumption DEF Init, SessionInv, TypeOK

LEMMA SessionInvStep ==
  ASSUME SessionInv, [Next]_vars
  PROVE  SessionInv'
<1> USE DEF SessionInv, TypeOK
<1>1. ASSUME NEW f \in Frames, Receive(f) PROVE SessionInv'
  <2>1. /\ frames' = Append(frames, f) /\ frame' = f
        /\ Len(frames) < MaxFrames
        /\ UNCHANGED <<main, why, reader, shown, input, keys, tty>>
    BY <1>1 DEF Receive
  <2>2. frames' \in Seq(Frames) /\ Len(frames') = Len(frames) + 1
    BY <2>1, AppendProperties
  <2>3. MaxFrames \in Nat /\ Len(frames) \in Nat /\ Len(shown) \in Nat
    BY SessionAssumption
  <2>4. /\ Len(frames') <= MaxFrames /\ Len(shown') < Len(frames')
    BY <2>1, <2>2, <2>3
  <2> QED BY <2>1, <2>2, <2>3, <2>4
<1>2. ASSUME Show PROVE SessionInv'
  <2>1. frame \in Frames
    BY <1>2 DEF Show
  <2>2. Shown(frame) \in Seq(Bytes) /\ Len(Shown(frame)) <= Len(shown) + 1
    BY <2>1, ShownType
  <2>3. /\ shown' = Shown(frame) /\ frame' = Nil /\ frame # Nil
        /\ UNCHANGED <<main, why, reader, frames, input, keys, tty>>
    BY <1>2 DEF Show
  <2>4. Len(shown) < Len(frames) /\ Len(shown) \in Nat /\ Len(frames) \in Nat
    BY <2>3
  <2>5. Len(shown') <= Len(frames')
    <3>1. Len(Shown(frame)) \in Nat
      BY <2>2
    <3> QED BY <2>2, <2>3, <2>4, <3>1
  <2> QED BY <2>2, <2>3, <2>5
<1>3. ASSUME ServerCloses PROVE SessionInv'
  BY <1>3 DEF ServerCloses
<1>4. ASSUME Key PROVE SessionInv'
  BY <1>4, SessionAssumption DEF Key
<1>5. ASSUME Quit PROVE SessionInv'
  BY <1>5 DEF Quit
<1>6. ASSUME Fatal PROVE SessionInv'
  BY <1>6 DEF Fatal
<1>7. ASSUME IsTerminal PROVE SessionInv'
  BY <1>7 DEF IsTerminal
<1>8. ASSUME MakeRaw PROVE SessionInv'
  BY <1>8 DEF MakeRaw
<1>9. ASSUME Restore PROVE SessionInv'
  BY <1>9 DEF Restore
<1>10. ASSUME CloseInputDone PROVE SessionInv'
  BY <1>10 DEF CloseInputDone
<1>11. ASSUME Select PROVE SessionInv'
  BY <1>11 DEF Select
<1>12. ASSUME UNCHANGED vars PROVE SessionInv'
  BY <1>12 DEF vars
<1> QED
  BY <1>1, <1>2, <1>3, <1>4, <1>5, <1>6, <1>7, <1>8, <1>9, <1>10, <1>11, <1>12
     DEF Next, Step

\* The inductive invariant holds of every session.
LEMMA SessionInvariant == Spec => []SessionInv
<1>1. SessionInv /\ [Next]_vars => SessionInv'
  BY SessionInvStep
<1> QED BY SessionInvInit, <1>1, PTL DEF Spec

\* The variables have their types: in particular no more payloads are written
\* than messages were received (start_session/command.go:94-114).
THEOREM SessionTypes == Spec => []TypeOK
<1>1. SessionInv => TypeOK
  BY DEF SessionInv
<1> QED BY SessionInvariant, <1>1, PTL

\* A user who ends the session gets the terminal back before the process
\* ends, unless restoring it fails (start_session/command.go:118, 144).
THEOREM UserGetsTerminalBack == Spec => []QuitRestores
<1>1. SessionInv => QuitRestores
  BY DEF SessionInv, QuitRestores
<1> QED BY SessionInvariant, <1>1, PTL

-----------------------------------------------------------------------------
(* What the user reads.                                                    *)

\* A message cut off in its header, or of which nothing arrived at all, is an
\* error to the decoder.
LEMMA CutIsNil ==
  ASSUME NEW f \in Frames, f.cut > Len(f.Payload)
  PROVE  DecodeMessage(Sent(f)) = Nil
<1>1. CASE f.cut <= Len(Whole(f))
  BY <1>1, DecodeCut
<1>2. CASE ~(f.cut <= Len(Whole(f)))
  <2>1. Whole(f) \in Seq(Byte) /\ f.cut \in Nat
    BY FramesAreMessages, Layout DEF Bytes
  <2>2. Sent(f) = SubSeq(Whole(f), 1, Len(Whole(f)) - f.cut)
    BY DEF Sent, Whole
  <2>3. Len(Whole(f)) - f.cut \in Int /\ Len(Whole(f)) - f.cut < 1
    BY <1>2, <2>1
  <2>4. Len(Sent(f)) = 0
    BY <2>1, <2>2, <2>3, SubSeqProperties
  <2> QED BY <2>4 DEF DecodeMessage
<1> QED BY <1>1, <1>2

\* One message adds what arrived of it, if it is output, and nothing else.
LEMMA ShownIs ==
  ASSUME NEW f \in Frames
  PROVE  Shown(f) = IF IsOutput(f) THEN Append(shown, Arrived(f)) ELSE shown
<1>1. f.cut \in Nat /\ Len(f.Payload) \in Nat
  BY FramesAreMessages DEF IsMessage, Bytes
<1>2. CASE f.cut <= Len(f.Payload)
  <2>1. /\ DecodeMessage(Sent(f)) # Nil
        /\ DecodeMessage(Sent(f)).MsgType = f.MsgType
        /\ DecodeMessage(Sent(f)).Payload = Arrived(f)
    BY <1>2, DecodeSent DEF Arrived
  <2> QED BY <1>2, <2>1 DEF Shown, IsOutput
<1>3. CASE ~(f.cut <= Len(f.Payload))
  <2>1. DecodeMessage(Sent(f)) = Nil
    BY <1>1, <1>3, CutIsNil
  <2> QED BY <1>3, <2>1 DEF Shown, IsOutput
<1> QED BY <1>2, <1>3

\* at tells for each payload in out which of the first n messages in got it
\* is of.
Match(at, out, got, n) ==
  /\ at \in [DOMAIN out -> 1..n]
  /\ \A i, j \in DOMAIN out : i < j => at[i] < at[j]
  /\ \A k \in 1..n : IsOutput(got[k]) <=> \E i \in DOMAIN out : at[i] = k
  /\ \A i \in DOMAIN out : out[i] = Arrived(got[at[i]])

\* Only the first n messages count.
LEMMA MatchKeeps ==
  ASSUME NEW at, NEW out, NEW got, NEW more, NEW n \in Nat,
         Match(at, out, got, n), \A k \in 1..n : more[k] = got[k]
  PROVE  Match(at, out, more, n)
<1>1. \A i \in DOMAIN out : at[i] \in 1..n
  BY DEF Match
<1> QED BY <1>1 DEF Match

\* One more message, that is not output.
LEMMA MatchSkips ==
  ASSUME NEW at, NEW out \in Seq(Bytes), NEW got, NEW n \in Nat,
         Match(at, out, got, n), ~IsOutput(got[n + 1])
  PROVE  Match(at, out, got, n + 1)
<1>1. at \in [DOMAIN out -> 1..(n + 1)]
  <2>1. \A i \in DOMAIN out : at[i] \in 1..(n + 1)
    BY DEF Match
  <2> QED BY <2>1 DEF Match
<1>2. \A k \in 1..(n + 1) : IsOutput(got[k]) <=> \E i \in DOMAIN out : at[i] = k
  <2>1. \A i \in DOMAIN out : at[i] # n + 1
    BY DEF Match
  <2>2. ASSUME NEW k \in 1..(n + 1)
        PROVE  IsOutput(got[k]) <=> \E i \in DOMAIN out : at[i] = k
    <3>1. CASE k \in 1..n
      BY <3>1 DEF Match
    <3>2. CASE k = n + 1
      BY <2>1, <3>2
    <3> QED BY <2>2, <3>1, <3>2
  <2> QED BY <2>2
<1> QED BY <1>1, <1>2 DEF Match

\* One more message, that is output.
LEMMA MatchGrows ==
  ASSUME NEW at, NEW out \in Seq(Bytes), NEW got, NEW n \in Nat,
         Match(at, out, got, n), IsOutput(got[n + 1]), Arrived(got[n + 1]) \in Bytes
  PROVE  \E new : Match(new, Append(out, Arrived(got[n + 1])), got, n + 1)
<1> DEFINE m == Len(out)
           longer == Append(out, Arrived(got[n + 1]))
           new == [i \in 1..(m + 1) |-> IF i = m + 1 THEN n + 1 ELSE at[i]]
<1>1. /\ m \in Nat /\ DOMAIN out = 1..m /\ DOMAIN longer = 1..(m + 1)
      /\ longer[m + 1] = Arrived(got[n + 1])
      /\ \A i \in 1..m : longer[i] = out[i]
  OBVIOUS
<1>2. \A i \in 1..m : at[i] \in 1..n
  BY <1>1 DEF Match
<1>3. new[m + 1] = n + 1 /\ \A i \in 1..m : new[i] = at[i]
  BY <1>1
<1>4. \A i \in 1..(m + 1) : i \in 1..m \/ i = m + 1
  BY <1>1
<1>5. new \in [DOMAIN longer -> 1..(n + 1)]
  <2>1. \A i \in 1..(m + 1) : new[i] \in 1..(n + 1)
    BY <1>2, <1>3, <1>4
  <2> QED BY <1>1, <2>1
<1> HIDE DEF m, longer, new
<1>6. ASSUME NEW i \in 1..(m + 1), NEW j \in 1..(m + 1), i < j
      PROVE  new[i] < new[j]
  <2>1. i \in 1..m
    BY <1>1, <1>4, <1>6
  <2>2. new[i] = at[i] /\ at[i] \in 1..n
    BY <1>2, <1>3, <2>1
  <2>3. CASE j \in 1..m
    <3>1. at[i] < at[j]
      BY <1>1, <1>6, <2>1, <2>3 DEF Match
    <3> QED BY <1>3, <2>2, <2>3, <3>1
  <2>4. CASE j = m + 1
    BY <1>3, <2>2, <2>4
  <2> QED BY <1>4, <2>3, <2>4
<1>7. ASSUME NEW k \in 1..(n + 1)
      PROVE  IsOutput(got[k]) <=> \E i \in 1..(m + 1) : new[i] = k
  <2>1. CASE k = n + 1
    <3>1. m + 1 \in 1..(m + 1)
      BY <1>1
    <3> QED BY <1>3, <2>1, <3>1
  <2>2. CASE k \in 1..n
    <3>1. IsOutput(got[k]) <=> \E i \in 1..m : at[i] = k
      BY <1>1, <2>2 DEF Match
    <3>2. (\E i \in 1..m : at[i] = k) <=> \E i \in 1..(m + 1) : new[i] = k
      <4>1. \A i \in 1..m : i \in 1..(m + 1)
        BY <1>1
      <4>2. new[m + 1] # k
        BY <1>3, <2>2
      <4> QED BY <1>3, <1>4, <4>1, <4>2
    <3> QED BY <3>1, <3>2
  <2> QED BY <1>7, <2>1, <2>2
<1>8. ASSUME NEW i \in 1..(m + 1) PROVE longer[i] = Arrived(got[new[i]])
  <2>1. CASE i = m + 1
    BY <1>1, <1>3, <2>1
  <2>2. CASE i \in 1..m
    BY <1>1, <1>3, <2>2 DEF Match
  <2> QED BY <1>4, <2>1, <2>2
<1>9. Match(new, longer, got, n + 1)
  BY <1>1, <1>5, <1>6, <1>7, <1>8 DEF Match
<1> QED BY <1>9 DEF longer

\* Besides, the message that waits is the last one that was read.
OrderInv ==
  /\ SessionInv
  /\ frame # Nil => frames # <<>> /\ frame = frames[Len(frames)]
  /\ ShownInOrder

LEMMA OrderIs == ShownInOrder <=> \E at : Match(at, shown, frames, Done)
  BY DEF ShownInOrder, Match

LEMMA OrderInvInit == Init => OrderInv
<1> SUFFICES ASSUME Init PROVE OrderInv
  OBVIOUS
<1>1. SessionInv
  BY SessionInvInit
<1>2. frame = Nil /\ frames = <<>> /\ shown = <<>> /\ Done = 0
  BY DEF Init, Done
<1>3. Match(<<>>, shown, frames, Done)
  BY <1>2 DEF Match
<1> QED BY <1>1, <1>2, <1>3, OrderIs DEF OrderInv

LEMMA OrderInvStep ==
  ASSUME OrderInv, [Next]_vars
  PROVE  OrderInv'
<1>1. SessionInv /\ SessionInv'
  BY SessionInvStep DEF OrderInv
<1>2. /\ frames \in Seq(Frames) /\ shown \in Seq(Bytes) /\ frame \in Frames \cup {Nil}
      /\ Len(frames) \in Nat
  BY <1>1 DEF SessionInv, TypeOK
<1>3. PICK at : Match(at, shown, frames, Done)
  BY OrderIs DEF OrderInv
<1>4. ASSUME NEW f \in Frames, Receive(f) PROVE OrderInv'
  <2>1. /\ frame = Nil /\ frames' = Append(frames, f) /\ frame' = f /\ shown' = shown
    BY <1>4 DEF Receive
  <2>2. /\ Len(frames') = Len(frames) + 1 /\ frames'[Len(frames')] = f
        /\ \A k \in 1..Len(frames) : frames'[k] = frames[k]
    BY <1>2, <2>1
  <2>3. f # Nil
    BY SessionAssumption
  <2>4. Done = Len(frames) /\ Done' = Len(frames)
    BY <1>2, <2>1, <2>2, <2>3 DEF Done
  <2>5. Match(at, shown, frames', Len(frames))
    BY <1>2, <1>3, <2>2, <2>4, MatchKeeps
  <2>6. ShownInOrder'
    BY <2>1, <2>4, <2>5 DEF ShownInOrder, Match
  <2>7. frames' # <<>>
    BY <1>2, <2>1
  <2> QED BY <1>1, <2>1, <2>2, <2>6, <2>7 DEF OrderInv
<1>5. ASSUME Show PROVE OrderInv'
  <2>1. frame # Nil /\ shown' = Shown(frame) /\ frame' = Nil /\ frames' = frames
    BY <1>5 DEF Show
  <2>2. frame \in Frames /\ frame = frames[Len(frames)] /\ frames # <<>>
    BY <1>2, <2>1 DEF OrderInv
  <2> DEFINE n == Len(frames) - 1
  <2>3. n \in Nat /\ Len(frames) = n + 1
    BY <1>2, <2>2
  <2>4. Done = n /\ Done' = n + 1
    BY <2>1, <2>3 DEF Done
  <2> HIDE DEF n
  <2>5. frame = frames[n + 1] /\ Match(at, shown, frames, n)
    BY <1>3, <2>2, <2>3, <2>4
  <2>6. \E new : Match(new, shown', frames, n + 1)
    <3>1. CASE IsOutput(frame)
      <4>1. shown' = Append(shown, Arrived(frame))
        BY <2>1, <2>2, <3>1, ShownIs
      <4>2. Arrived(frame) \in Bytes
        <5>1. frame.Payload \in Bytes /\ frame.cut \in Nat
          BY <2>2, FramesAreMessages DEF IsMessage
        <5>2. frame.cut <= Len(frame.Payload) /\ Len(frame.Payload) \in Nat
          BY <3>1, <5>1 DEF IsOutput, Bytes
        <5>3. Len(frame.Payload) - frame.cut \in Nat
              /\ Len(frame.Payload) - frame.cut <= Len(frame.Payload)
          BY <5>1, <5>2
        <5> QED BY <5>1, <5>3, Beginning DEF Arrived
      <4> QED BY <1>2, <2>3, <2>5, <3>1, <4>1, <4>2, MatchGrows
    <3>2. CASE ~IsOutput(frame)
      <4>1. shown' = shown
        BY <2>1, <2>2, <3>2, ShownIs
      <4> QED BY <1>2, <2>3, <2>5, <3>2, <4>1, MatchSkips
    <3> QED BY <3>1, <3>2
  <2>7. ShownInOrder'
    BY <2>1, <2>4, <2>6 DEF ShownInOrder, Match
  <2> QED BY <1>1, <2>1, <2>7 DEF OrderInv
<1>6. ASSUME UNCHANGED <<frame, frames, shown>> PROVE OrderInv'
  <2>1. Done' = Done
    BY <1>6 DEF Done
  <2>2. ShownInOrder'
    BY <1>3, <1>6, <2>1 DEF ShownInOrder, Match
  <2> QED BY <1>1, <1>6, <2>2 DEF OrderInv
<1>7. ASSUME ServerCloses \/ Key \/ Quit \/ Fatal \/ IsTerminal \/ MakeRaw \/ Restore
             \/ CloseInputDone \/ Select \/ UNCHANGED vars
      PROVE  UNCHANGED <<frame, frames, shown>>
  BY <1>7 DEF ServerCloses, Key, Quit, Fatal, IsTerminal, MakeRaw, Restore,
              CloseInputDone, Select, vars
<1> QED BY <1>4, <1>5, <1>6, <1>7 DEF Next, Step

\* What the user reads is the payloads of the server's output messages, each
\* once and in order, for messages of every kind and length and however many
\* bytes they lose at their end (session_manager/axt_message.go:143,
\* start_session/command.go:103-114).
THEOREM OutputInOrder == Spec => []ShownInOrder
<1>1. OrderInv /\ [Next]_vars => OrderInv'
  BY OrderInvStep
<1>2. OrderInv => ShownInOrder
  BY DEF OrderInv
<1> QED BY OrderInvInit, <1>1, <1>2, PTL DEF Spec
=============================================================================
