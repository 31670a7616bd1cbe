-------------------------- MODULE HipStream_proofs --------------------------
(***************************************************************************)
(* The parser stays in its buffers, for any messages, any number of frames *)
(* and broken connections, and at the client's end also after a reconnect  *)
(* has cut a frame: read_len, which indexes the 1024 bytes of the payload, *)
(* remains a uint8_t in every state of hip_parse, whatever byte comes.     *)
(*                                                                         *)
(* For text (TextMessages) the stream also implements FrameChannel.  The   *)
(* invariant Following says where in the stream the frames in transit      *)
(* begin and how far the parser has come in the first of them: between two *)
(* frames, where a left over last byte may still have to be skipped, or    *)
(* inside one, with the fields read so far.                                *)
(***************************************************************************)
EXTENDS HipStream, SequenceTheorems, TLAPS

\* A function on 1 .. n is a sequence.
LEMMA FunctionIsSeq ==
  ASSUME NEW n \in Nat, NEW S, NEW f \in [1 .. n -> S]
  PROVE  f \in Seq(S) /\ Len(f) = n
<1>1. f \in Seq(S)
  OBVIOUS
<1>2. 1 .. n = 1 .. Len(f) /\ Len(f) \in Nat
  BY <1>1, LenProperties
<1> QED BY <1>1, <1>2

\* Two sequences, one after the other.
LEMMA ConcatTyped ==
  ASSUME NEW S, NEW s \in Seq(S), NEW t \in Seq(S)
  PROVE  s \o t \in Seq(S) /\ Len(s \o t) = Len(s) + Len(t)
BY ConcatProperties

\* The first 17 bytes of a frame.
Header(a, b, c, d) == <<a, b, c, d>> \o HIP_DEV_ID \o <<0, 0, 0, 0>> \o <<CommFd>>

LEMMA HeaderIsBytes ==
  ASSUME NEW a \in U8, NEW b \in U8, NEW c \in U8, NEW d \in U8
  PROVE  Header(a, b, c, d) \in Seq(U8) /\ Len(Header(a, b, c, d)) = 17
<1> DEFINE h0 == <<a, b, c, d>>
           zeros == <<0, 0, 0, 0>>
           reserved == <<CommFd>>
           h1 == h0 \o HIP_DEV_ID
           h2 == h1 \o zeros
<1>1. h0 \in Seq(U8) /\ Len(h0) = 4
  OBVIOUS
<1>2. HIP_DEV_ID \in Seq(U8) /\ Len(HIP_DEV_ID) = 8
  BY DeviceAssumption, FunctionIsSeq
<1>3. zeros \in Seq(U8) /\ Len(zeros) = 4
  BY DEF U8
<1>4. reserved \in Seq(U8) /\ Len(reserved) = 1
  BY DeviceAssumption
<1> HIDE DEF h0, zeros, reserved
<1>5. h1 \in Seq(U8) /\ Len(h1) = Len(h0) + Len(HIP_DEV_ID)
  BY <1>1, <1>2, ConcatTyped
<1> HIDE DEF h1
<1>6. h2 \in Seq(U8) /\ Len(h2) = Len(h1) + Len(zeros)
  BY <1>3, <1>5, ConcatTyped
<1> HIDE DEF h2
<1>7. h2 \o reserved \in Seq(U8) /\ Len(h2 \o reserved) = Len(h2) + Len(reserved)
  BY <1>4, <1>6, ConcatTyped
<1>8. Len(h2 \o reserved) = 17
  BY <1>1, <1>2, <1>3, <1>4, <1>5, <1>6, <1>7
<1> QED BY <1>7, <1>8 DEF Header, h0, h1, h2, zeros, reserved

\* The start of a sequence.
LEMMA PrefixTyped ==
  ASSUME NEW S, NEW s \in Seq(S), NEW n \in 0 .. Len(s)
  PROVE  SubSeq(s, 1, n) \in Seq(S)
<1>1. \A i \in 1 .. n : s[i] \in S
  BY ElementOfSeq
<1> QED BY <1>1, SubSeqProperties

\* The frame's length in a uint8_t is not more than the bytes there are.
LEMMA FrameLength ==
  ASSUME NEW n \in 0 .. 239
  PROVE  (n + 17) % 256 \in 0 .. 17 + n
<1>1. CASE n = 239
  BY <1>1
<1>2. CASE n # 239
  BY <1>2
<1> QED BY <1>1, <1>2

\* Whatever is packed, bytes reach the stream: at most the 255 that header,
\* reserved byte and data make, none for 239 bytes of data, and 255 for a frame
\* that was refused.
LEMMA PackedIsBytes ==
  ASSUME NEW e \in Ends, NEW m \in Messages[e]
  PROVE  Packed(m) \in Seq(U8)
<1> DEFINE n == Len(m.data)
           header == Header(HIP_VERSION, m.cmd, n + 16, HIP_DEV_TYPE)
           frame_len == (n + 17) % 256
<1>1. m.cmd \in U8 /\ m.data \in Seq(U8) /\ n \in U8
  BY MessagesAssumption
<1> HIDE DEF n
<1>2. CASE 255 < n + 16
  <2>1. [k \in 1 .. 255 |-> IF k = 17 THEN CommFd ELSE 0] \in [1 .. 255 -> U8]
    BY DeviceAssumption DEF U8
  <2>2. [k \in 1 .. 255 |-> IF k = 17 THEN CommFd ELSE 0] \in Seq(U8)
    BY <2>1, FunctionIsSeq
  <2> QED BY <1>2, <2>2 DEF Packed, n
<1>3. CASE ~(255 < n + 16)
  <2>1. HIP_VERSION \in U8 /\ HIP_DEV_TYPE \in U8 /\ n + 16 \in U8 /\ n \in 0 .. 239
    BY <1>1, <1>3 DEF U8, HIP_VERSION, HIP_DEV_TYPE
  <2>2. header \in Seq(U8) /\ Len(header) = 17
    BY <1>1, <2>1, HeaderIsBytes
  <2>3. frame_len \in 0 .. 17 + Len(m.data)
    BY <2>1, FrameLength DEF n
  <2> HIDE DEF header, frame_len
  <2>4. header \o m.data \in Seq(U8)
        /\ Len(header \o m.data) = Len(header) + Len(m.data)
    BY <1>1, <2>2, ConcatTyped
  <2>5. SubSeq(header \o m.data, 1, frame_len) \in Seq(U8)
    BY <2>2, <2>3, <2>4, PrefixTyped
  <2> QED BY <1>3, <2>5 DEF Packed, Header, header, frame_len, n
<1> QED BY <1>2, <1>3

-----------------------------------------------------------------------------
(* The parser.                                                             *)

\* read_len counts the bytes of the device id and of the sequence number, and
\* is reset before each: there it never reaches 256.
CountsField ==
  /\ state \in {"CMD", "LEN", "DEV_TYPE"} => read_len = 0
  /\ state = "DEV_ID" => read_len < 8
  /\ state = "SEQ" => read_len < 4

PositionOK == state \in States /\ read_len \in U8 /\ CountsField

FrameOK ==
  /\ command \in U8 /\ length \in U8
  /\ \A k \in DOMAIN payload : k \in U8 /\ payload[k] \in U8

HandledOK ==
  handled = NoFrame \/ (handled.cmd \in U8 /\ handled.payload \in Seq(U8))

ParserOK == PositionOK /\ FrameOK /\ HandledOK

\* A byte in the middle of a frame hands nothing over.
LEMMA StepHandled ==
  ASSUME HandledOK, NEW next, NEW len, Step(next, len)
  PROVE  HandledOK' /\ state' = next /\ read_len' = len
BY DEF HandledOK, Step

\* The frame that is handed over has length - 16 bytes, modulo 256, and all of
\* them are in the buffer.
LEMMA SuccessHandled ==
  ASSUME FrameOK, HandledOK, NEW bytes, \A k \in DOMAIN bytes : bytes[k] \in U8,
         NEW len, Success(bytes, len)
  PROVE  HandledOK' /\ state' = "VER" /\ read_len' = len
<1> DEFINE n == (length - 16) % 256
           read == [k \in 1 .. n |-> IF k - 1 \in DOMAIN bytes THEN bytes[k - 1] ELSE 0]
<1>1. n \in Nat
  BY DEF FrameOK, U8
<1>2. read \in [1 .. n -> U8]
  BY DEF U8
<1>3. read \in Seq(U8)
  BY <1>1, <1>2, FunctionIsSeq
<1>4. Frame(command, read).cmd \in U8 /\ Frame(command, read).payload \in Seq(U8)
  BY <1>3 DEF FrameOK, Frame
<1>5. handled' = Frame(command, read) \/ handled' = handled
  BY DEF Success
<1> QED BY <1>4, <1>5 DEF HandledOK, Success

\* hip_parse, one state of its switch after the other.
LEMMA ParsePreserves ==
  ASSUME ParserOK, NEW byte \in U8,
         \/ ParseVersion(byte) \/ ParseCommand(byte) \/ ParseLength(byte)
         \/ ParseDeviceType(byte) \/ ParseDeviceId(byte) \/ ParseSeq(byte)
         \/ ParsePayload(byte)
  PROVE  ParserOK'
<1> USE DEF ParserOK, States, CountsField
<1>1. CASE ParseVersion(byte)
  <2>1. Step("CMD", 0) \/ Step("VER", read_len)
    BY <1>1 DEF ParseVersion
  <2>2. HandledOK' /\ PositionOK'
    BY <2>1, StepHandled DEF PositionOK, U8
  <2> QED BY <1>1, <2>2 DEF ParseVersion, FrameOK
<1>2. CASE ParseCommand(byte)
  <2>1. HandledOK' /\ PositionOK'
    BY <1>2, StepHandled DEF ParseCommand, PositionOK
  <2> QED BY <1>2, <2>1 DEF ParseCommand, FrameOK
<1>3. CASE ParseLength(byte)
  <2>1. HandledOK' /\ PositionOK'
    BY <1>3, StepHandled DEF ParseLength, PositionOK
  <2> QED BY <1>3, <2>1 DEF ParseLength, FrameOK
<1>4. CASE ParseDeviceType(byte)
  <2>1. HandledOK' /\ PositionOK'
    BY <1>4, StepHandled DEF ParseDeviceType, PositionOK, U8
  <2> QED BY <1>4, <2>1 DEF ParseDeviceType, FrameOK
<1>5. CASE ParseDeviceId(byte)
  <2>1. UNCHANGED <<command, length, payload>> /\ state = "DEV_ID"
    BY <1>5 DEF ParseDeviceId
  <2>2. FrameOK'
    BY <2>1 DEF FrameOK
  <2>3. CASE read_len + 1 = 8
    <3>1. Step("SEQ", 0)
      BY <1>5, <2>3 DEF ParseDeviceId
    <3> QED BY <2>2, <3>1, StepHandled DEF PositionOK, U8
  <2>4. CASE read_len + 1 # 8
    <3>1. Step("DEV_ID", read_len + 1)
      BY <1>5, <2>4 DEF ParseDeviceId
    <3>2. read_len + 1 \in U8 /\ read_len + 1 < 8
      BY <2>1, <2>4 DEF PositionOK, U8
    <3> QED BY <2>2, <3>1, <3>2, StepHandled DEF PositionOK
  <2> QED BY <2>3, <2>4
<1>6. CASE ParseSeq(byte)
  <2>1. UNCHANGED <<command, length, payload>> /\ state = "SEQ"
    BY <1>6 DEF ParseSeq
  <2>2. FrameOK' /\ 4 \in U8 /\ 0 \in U8
    BY <2>1 DEF FrameOK, U8
  <2>3. CASE Success(payload, 4)
    BY <2>2, <2>3, SuccessHandled DEF PositionOK, FrameOK
  <2>4. CASE Step("PL", 0)
    BY <2>2, <2>4, StepHandled DEF PositionOK
  <2>5. CASE read_len + 1 # 4 /\ Step("SEQ", read_len + 1)
    <3>1. read_len + 1 \in U8 /\ read_len + 1 < 4
      BY <2>1, <2>5 DEF PositionOK, U8
    <3> QED BY <2>2, <2>5, <3>1, StepHandled DEF PositionOK
  <2> QED BY <1>6, <2>3, <2>4, <2>5 DEF ParseSeq
<1>7. CASE ParsePayload(byte)
  <2> DEFINE written == [k \in DOMAIN payload \cup {read_len} |->
                           IF k = read_len THEN byte ELSE payload[k]]
             len == (read_len + 1) % 256
  <2>1. \A k \in DOMAIN written : k \in U8 /\ written[k] \in U8
    BY DEF PositionOK, FrameOK
  <2>2. len \in U8
    BY DEF PositionOK, U8
  <2>3. payload' = written /\ UNCHANGED <<command, length>>
    BY <1>7 DEF ParsePayload
  <2>4. Success(written, len) \/ Step("PL", len)
    BY <1>7 DEF ParsePayload
  <2> HIDE DEF written, len
  <2>5. HandledOK' /\ PositionOK'
    BY <2>1, <2>2, <2>4, SuccessHandled, StepHandled DEF PositionOK
  <2> QED BY <2>1, <2>3, <2>5 DEF FrameOK
<1> QED BY <1>1, <1>2, <1>3, <1>4, <1>5, <1>6, <1>7

-----------------------------------------------------------------------------
(* The steps and the theorem.                                              *)

RestOK ==
  /\ end \in Ends /\ intact \in BOOLEAN
  /\ stream \in Seq(U8)
  /\ sends \in 0 .. MaxSends /\ breaks \in 0 .. MaxBreaks

IndInv == RestOK /\ ParserOK

LEMMA InitIndInv == Init => IndInv
BY BoundsAssumption DEF Init, IndInv, RestOK, ParserOK, PositionOK, CountsField,
   FrameOK, HandledOK, Ends, U8, States

\* The sending end adds bytes and leaves the parser alone.
LEMMA SendStep == ASSUME IndInv, NEW m \in Messages[end], Send(m) PROVE IndInv'
<1>1. Packed(m) \in Seq(U8)
  BY PackedIsBytes DEF IndInv, RestOK
<1>2. stream' \in Seq(U8)
  BY <1>1, ConcatTyped DEF Send, IndInv, RestOK
<1>3. sends' \in 0 .. MaxSends
  BY BoundsAssumption DEF Send, IndInv, RestOK
<1>4. RestOK'
  BY <1>2, <1>3 DEF Send, IndInv, RestOK
<1>5. ParserOK'
  BY DEF Send, parser, IndInv, ParserOK, PositionOK, CountsField, FrameOK, HandledOK
<1> QED BY <1>4, <1>5 DEF IndInv

LEMMA ParseStep == ASSUME IndInv, Parse PROVE IndInv'
<1>1. Head(stream) \in U8 /\ Tail(stream) \in Seq(U8)
  BY HeadTailProperties DEF Parse, IndInv, RestOK
<1>2. RestOK'
  BY <1>1 DEF Parse, IndInv, RestOK
<1>3. ParserOK'
  BY <1>1, ParsePreserves DEF Parse, IndInv
<1> QED BY <1>2, <1>3 DEF IndInv

\* The server's parser is new; the client's goes on with whatever is kept.
LEMMA BreakStep == ASSUME IndInv, Break PROVE IndInv'
<1>1. /\ breaks' \in 0 .. MaxBreaks /\ UNCHANGED <<end, handled, sends>>
      /\ ServerReplaces \/ ClientReconnects
  BY BoundsAssumption DEF Break, IndInv, RestOK
<1>2. CASE ServerReplaces
  <2>1. RestOK'
    BY <1>1, <1>2 DEF ServerReplaces, IndInv, RestOK
  <2>2. PositionOK' /\ FrameOK'
    BY <1>2 DEF ServerReplaces, IndInv, ParserOK, PositionOK, CountsField, FrameOK,
       States, U8
  <2> QED BY <1>1, <2>1, <2>2 DEF IndInv, ParserOK, HandledOK
<1>3. CASE ClientReconnects
  <2>1. PICK n \in 0 .. Len(stream) :
          /\ stream' = SubSeq(stream, 1, n)
          /\ intact' = (intact /\ n = 0 /\ state = "VER")
    BY <1>3 DEF ClientReconnects
  <2>2. stream' \in Seq(U8)
    BY <2>1, PrefixTyped DEF IndInv, RestOK
  <2>3. RestOK'
    BY <1>1, <2>1, <2>2 DEF IndInv, RestOK
  <2>4. ParserOK'
    BY <1>1, <1>3 DEF ClientReconnects, parser, IndInv, ParserOK, PositionOK,
       CountsField, FrameOK, HandledOK
  <2> QED BY <2>3, <2>4 DEF IndInv
<1> QED BY <1>1, <1>2, <1>3

\* The inductive invariant.
THEOREM Invariance == Spec => []IndInv
<1>1. IndInv /\ [Next]_vars => IndInv'
  <2> SUFFICES ASSUME IndInv, [Next]_vars PROVE IndInv'
    OBVIOUS
  <2>1. CASE \E m \in Messages[end] : Send(m)
    BY <2>1, SendStep
  <2>2. CASE Parse
    BY <2>2, ParseStep
  <2>3. CASE Break
    BY <2>3, BreakStep
  <2>4. CASE UNCHANGED vars
    BY <2>4 DEF vars, parser, IndInv, RestOK, ParserOK, PositionOK, CountsField,
       FrameOK, HandledOK
  <2> QED BY <2>1, <2>2, <2>3, <2>4 DEF Next
<1> QED BY <1>1, InitIndInv, PTL DEF Spec

\* The parser's counter and the indices it writes the payload at are those of a
\* uint8_t, far below the buffer's 1024 bytes, at both ends: also after a
\* reconnect has cut a frame and the parser takes any byte for a header.
THEOREM TypeCorrect == Spec => []TypeOK
<1>1. IndInv => TypeOK
  BY DEF IndInv, RestOK, ParserOK, PositionOK, FrameOK, HandledOK, TypeOK
<1> QED BY <1>1, Invariance, PTL
-----------------------------------------------------------------------------
(* Where the frames are in the stream.                                     *)

\* The frames that text makes, and what the parser relies on in their bytes:
\* the last one is left over and is not a version.
TextFrame == {f \in [cmd : U8, payload : Seq(U8)] : Len(f.payload) \in 1 .. 238}

FrameLen(f) == Len(f.payload) + 17

FrameByte(f, j, b) ==
  /\ j = 1 => b = HIP_VERSION
  /\ j = 2 => b = f.cmd
  /\ j = 3 => b = Len(f.payload) + 16
  /\ j \in 17 .. Len(f.payload) + 16 => b = f.payload[j - 16]
  /\ j = FrameLen(f) => b # HIP_VERSION

\* Frame k begins behind byte at[k] of the stream, and the last one ends with
\* it.  Of the first frame some bytes may be parsed: then at[1] is negative.
Marks(at, frames, bytes) ==
  /\ at \in [1 .. Len(frames) + 1 -> Int]
  /\ at[Len(frames) + 1] = Len(bytes)
  /\ \A k \in 1 .. Len(frames) + 1 : at[k] <= Len(bytes)
  /\ \A k \in 1 .. Len(frames) : at[k + 1] = at[k] + FrameLen(frames[k])
  /\ \A k \in 1 .. Len(frames) : \A j \in 1 .. FrameLen(frames[k]) :
       at[k] + j >= 1 => FrameByte(frames[k], j, bytes[at[k] + j])

LEMMA FrameLenTyped ==
  ASSUME NEW f \in TextFrame
  PROVE  /\ Len(f.payload) \in 1 .. 238
         /\ FrameLen(f) \in 18 .. 255 /\ FrameLen(f) \in Int
<1>1. Len(f.payload) \in 1 .. 238
  BY DEF TextFrame
<1>2. \A n \in 1 .. 238 : n + 17 \in 18 .. 255 /\ n + 17 \in Int
  OBVIOUS
<1> QED BY <1>1, <1>2 DEF FrameLen

\* Byte j of a frame of n bytes that begins behind a and ends within b bytes.
LEMMA ByteWithin ==
  ASSUME NEW a \in Int, NEW n \in 18 .. 255, NEW b \in Int, a + n <= b,
         NEW j \in 1 .. n, a + j >= 1
  PROVE  a + j \in 1 .. b
OBVIOUS

\* A frame is sent.
LEMMA MarksAppend ==
  ASSUME NEW frames \in Seq(TextFrame), NEW bytes \in Seq(U8), NEW at,
         Marks(at, frames, bytes),
         NEW f \in TextFrame, NEW p \in Seq(U8), Len(p) = FrameLen(f),
         \A j \in 1 .. FrameLen(f) : FrameByte(f, j, p[j])
  PROVE  \E after : after[1] = at[1] /\ Marks(after, Append(frames, f), bytes \o p)
<1> DEFINE L == Len(frames)
           B == Len(bytes)
           N == FrameLen(f)
           after == [k \in 1 .. L + 2 |-> IF k = L + 2 THEN B + N ELSE at[k]]
           more == Append(frames, f)
           all == bytes \o p
<1>1. L \in Nat /\ B \in Nat /\ N \in 18 .. 255
  BY LenProperties, FrameLenTyped
<1>2. /\ Len(more) = L + 1
      /\ \A k \in 1 .. L : more[k] = frames[k]
      /\ more[L + 1] = f
  BY AppendProperties
<1>3. /\ Len(all) = B + N
      /\ \A i \in 1 .. B : all[i] = bytes[i]
      /\ \A i \in 1 .. N : all[B + i] = p[i]
  BY ConcatProperties, <1>1
<1>4. \A k \in 1 .. L : frames[k] \in TextFrame /\ FrameLen(frames[k]) \in 18 .. 255
  BY ElementOfSeq, FrameLenTyped
<1>5. /\ at \in [1 .. L + 1 -> Int]
      /\ at[L + 1] = B
      /\ \A k \in 1 .. L + 1 : at[k] <= B
      /\ \A k \in 1 .. L : at[k + 1] = at[k] + FrameLen(frames[k])
      /\ \A k \in 1 .. L : \A j \in 1 .. FrameLen(frames[k]) :
           at[k] + j >= 1 => FrameByte(frames[k], j, bytes[at[k] + j])
  BY DEF Marks
<1> HIDE DEF L, B, N, more, all
<1>6. after \in [1 .. L + 2 -> Int] /\ after[L + 2] = B + N
  <2>1. B + N \in Int /\ L + 2 \in 1 .. L + 2
    BY <1>1
  <2>2. \A k \in 1 .. L + 2 : k # L + 2 => k \in 1 .. L + 1
    BY <1>1
  <2> HIDE DEF N
  <2> QED BY <1>5, <2>1, <2>2
<1>7. \A k \in 1 .. L + 1 : after[k] = at[k]
  BY <1>1
<1>8. \A k \in 1 .. L + 2 : after[k] <= B + N
  BY <1>1, <1>5, <1>6, <1>7
<1>9. \A k \in 1 .. L + 1 : after[k + 1] = after[k] + FrameLen(more[k])
  <2>1. \A k \in 1 .. L : after[k + 1] = after[k] + FrameLen(more[k])
    BY <1>1, <1>2, <1>5, <1>7
  <2>2. after[L + 2] = after[L + 1] + FrameLen(more[L + 1])
    BY <1>1, <1>2, <1>5, <1>6, <1>7 DEF N
  <2>3. \A k \in 1 .. L + 1 : k \in 1 .. L \/ (k = L + 1 /\ k + 1 = L + 2)
    BY <1>1
  <2> QED BY <2>1, <2>2, <2>3
<1>10. \A k \in 1 .. L + 1 : \A j \in 1 .. FrameLen(more[k]) :
         after[k] + j >= 1 => FrameByte(more[k], j, all[after[k] + j])
  <2> SUFFICES ASSUME NEW k \in 1 .. L + 1, NEW j \in 1 .. FrameLen(more[k]),
                      after[k] + j >= 1
               PROVE  FrameByte(more[k], j, all[after[k] + j])
    OBVIOUS
  <2>1. CASE k = L + 1
    <3>1. more[k] = f /\ after[k] = B /\ j \in 1 .. N
      BY <1>1, <1>2, <1>5, <1>7, <2>1 DEF N
    <3>2. all[B + j] = p[j]
      BY <1>3, <3>1
    <3> QED BY <3>1, <3>2 DEF N
  <2>2. CASE k # L + 1
    <3>1. k \in 1 .. L /\ more[k] = frames[k] /\ after[k] = at[k]
      BY <1>1, <1>2, <1>7, <2>2
    <3>2. at[k + 1] = at[k] + FrameLen(frames[k]) /\ at[k + 1] <= B
      BY <1>1, <1>5, <3>1
    <3>3. at[k] + j \in 1 .. B
      <4>1. at[k] \in Int /\ FrameLen(frames[k]) \in 18 .. 255
        BY <1>1, <1>4, <1>5, <3>1
      <4>2. at[k] + FrameLen(frames[k]) <= B /\ at[k] + j >= 1 /\ B \in Int
        BY <1>1, <3>1, <3>2
      <4>3. j \in 1 .. FrameLen(frames[k])
        BY <3>1
      <4> QED BY <4>1, <4>2, <4>3, ByteWithin
    <3>4. all[at[k] + j] = bytes[at[k] + j]
      BY <1>3, <3>3
    <3> QED BY <1>5, <3>1, <3>3, <3>4
  <2> QED BY <2>1, <2>2
<1>11. Marks(after, more, all)
  <2> HIDE DEF after
  <2>1. L + 1 + 1 = L + 2
    BY <1>1
  <2> QED BY <1>2, <1>3, <1>6, <1>8, <1>9, <1>10, <2>1 DEF Marks
<1>12. after[1] = at[1]
  BY <1>1, <1>7
<1> QED BY <1>11, <1>12 DEF more, all

\* A byte is parsed.
LEMMA MarksTail ==
  ASSUME NEW frames \in Seq(TextFrame), NEW bytes \in Seq(U8), bytes # <<>>, NEW at,
         Marks(at, frames, bytes)
  PROVE  Marks([k \in 1 .. Len(frames) + 1 |-> at[k] - 1], frames, Tail(bytes))
<1> DEFINE L == Len(frames)
           B == Len(bytes)
           after == [k \in 1 .. L + 1 |-> at[k] - 1]
           rest == Tail(bytes)
<1>1. L \in Nat /\ B \in Nat \ {0}
  BY LenProperties, EmptySeq
<1>2. Len(rest) = B - 1 /\ \A i \in 1 .. B - 1 : rest[i] = bytes[i + 1]
  BY HeadTailProperties
<1>3. \A k \in 1 .. L : /\ FrameLen(frames[k]) \in 18 .. 255
                        /\ FrameLen(frames[k]) \in Int
  BY ElementOfSeq, FrameLenTyped
<1>4. /\ at \in [1 .. L + 1 -> Int]
      /\ at[L + 1] = B
      /\ \A k \in 1 .. L + 1 : at[k] <= B
      /\ \A k \in 1 .. L : at[k + 1] = at[k] + FrameLen(frames[k])
      /\ \A k \in 1 .. L : \A j \in 1 .. FrameLen(frames[k]) :
           at[k] + j >= 1 => FrameByte(frames[k], j, bytes[at[k] + j])
  BY DEF Marks
<1> HIDE DEF L, B, rest
<1>5. after \in [1 .. L + 1 -> Int] /\ after[L + 1] = B - 1
  BY <1>1, <1>4
<1>6. \A k \in 1 .. L + 1 : after[k] <= B - 1
  BY <1>1, <1>4
<1>7. \A k \in 1 .. L : after[k + 1] = after[k] + FrameLen(frames[k])
  <2> SUFFICES ASSUME NEW k \in 1 .. L
               PROVE  after[k + 1] = after[k] + FrameLen(frames[k])
    OBVIOUS
  <2>1. k \in 1 .. L + 1 /\ k + 1 \in 1 .. L + 1
    BY <1>1
  <2>2. after[k] = at[k] - 1 /\ after[k + 1] = at[k + 1] - 1
    BY <2>1
  <2>3. at[k] \in Int
    BY <1>4, <2>1
  <2>4. FrameLen(frames[k]) \in Int
    BY <1>3
  <2>5. at[k + 1] = at[k] + FrameLen(frames[k])
    BY <1>4
  <2> HIDE DEF after
  <2> QED BY <2>2, <2>3, <2>4, <2>5
<1>8. \A k \in 1 .. L : \A j \in 1 .. FrameLen(frames[k]) :
        after[k] + j >= 1 => FrameByte(frames[k], j, rest[after[k] + j])
  <2> SUFFICES ASSUME NEW k \in 1 .. L, NEW j \in 1 .. FrameLen(frames[k]),
                      after[k] + j >= 1
               PROVE  FrameByte(frames[k], j, rest[after[k] + j])
    OBVIOUS
  <2>1. at[k + 1] = at[k] + FrameLen(frames[k]) /\ at[k + 1] <= B /\ at[k] \in Int
    BY <1>1, <1>4
  <2>2. after[k] = at[k] - 1
    BY <1>1
  <2>3. after[k] + j \in 1 .. B - 1 /\ after[k] + j + 1 = at[k] + j /\ at[k] + j >= 1
    <3>1. FrameLen(frames[k]) \in 18 .. 255 /\ B - 1 \in Int /\ at[k] - 1 \in Int
      BY <1>1, <1>3, <2>1
    <3>2. at[k] - 1 + FrameLen(frames[k]) <= B - 1
      <4>1. \A a, n, b \in Int : a + n <= b => a - 1 + n <= b - 1
        OBVIOUS
      <4>2. at[k] + FrameLen(frames[k]) <= B
        BY <2>1
      <4>3. FrameLen(frames[k]) \in Int /\ B \in Int
        BY <1>1, <1>3
      <4> QED BY <2>1, <4>1, <4>2, <4>3
    <3>3. after[k] + j \in 1 .. B - 1
      BY <2>2, <3>1, <3>2, ByteWithin
    <3> QED BY <2>1, <2>2, <3>1, <3>3
  <2>4. rest[after[k] + j] = bytes[at[k] + j]
    BY <1>2, <2>3
  <2> QED BY <1>4, <2>3, <2>4
<1> HIDE DEF after
<1>9. Marks(after, frames, rest)
  BY <1>2, <1>5, <1>6, <1>7, <1>8 DEF Marks, L
<1> QED BY <1>9 DEF after, L, rest

\* The first frame is handed over.
LEMMA MarksDrop ==
  ASSUME NEW frames \in Seq(TextFrame), frames # <<>>, NEW bytes \in Seq(U8), NEW at,
         Marks(at, frames, bytes)
  PROVE  Marks([k \in 1 .. Len(frames) |-> at[k + 1]], Tail(frames), bytes)
<1> DEFINE L == Len(frames)
           B == Len(bytes)
           after == [k \in 1 .. L |-> at[k + 1]]
           fewer == Tail(frames)
<1>1. L \in Nat \ {0} /\ B \in Nat
  BY LenProperties, EmptySeq
<1>2. Len(fewer) = L - 1 /\ \A k \in 1 .. L - 1 : fewer[k] = frames[k + 1]
  BY HeadTailProperties
<1>3. /\ at \in [1 .. L + 1 -> Int]
      /\ at[L + 1] = B
      /\ \A k \in 1 .. L + 1 : at[k] <= B
      /\ \A k \in 1 .. L : at[k + 1] = at[k] + FrameLen(frames[k])
      /\ \A k \in 1 .. L : \A j \in 1 .. FrameLen(frames[k]) :
           at[k] + j >= 1 => FrameByte(frames[k], j, bytes[at[k] + j])
  BY DEF Marks
<1> HIDE DEF L, B, fewer
<1>4. after \in [1 .. L -> Int] /\ after[L] = B
  BY <1>1, <1>3
<1>5. \A k \in 1 .. L : after[k] <= B
  BY <1>1, <1>3
<1>6. \A k \in 1 .. L - 1 : after[k + 1] = after[k] + FrameLen(fewer[k])
  BY <1>1, <1>2, <1>3
<1>7. \A k \in 1 .. L - 1 : \A j \in 1 .. FrameLen(fewer[k]) :
        after[k] + j >= 1 => FrameByte(fewer[k], j, bytes[after[k] + j])
  <2> SUFFICES ASSUME NEW k \in 1 .. L - 1
               PROVE  \A j \in 1 .. FrameLen(fewer[k]) :
                        after[k] + j >= 1 => FrameByte(fewer[k], j, bytes[after[k] + j])
    OBVIOUS
  <2>1. k \in 1 .. L /\ k + 1 \in 1 .. L
    BY <1>1
  <2>2. fewer[k] = frames[k + 1] /\ after[k] = at[k + 1]
    BY <1>2, <2>1
  <2> HIDE DEF after
  <2> QED BY <1>3, <2>1, <2>2
<1> HIDE DEF after
<1>8. L - 1 + 1 = L
  BY <1>1
<1>9. Marks(after, fewer, bytes)
  BY <1>2, <1>4, <1>5, <1>6, <1>7, <1>8 DEF Marks, B
<1> QED BY <1>9 DEF after, L, fewer

-----------------------------------------------------------------------------
(* What is packed is what the parser relies on.                            *)

LEMMA ConcatBytes ==
  ASSUME NEW s \in Seq(U8), NEW t \in Seq(U8)
  PROVE  /\ s \o t \in Seq(U8) /\ Len(s \o t) = Len(s) + Len(t)
         /\ \A i \in 1 .. Len(s) : (s \o t)[i] = s[i]
         /\ \A i \in 1 .. Len(t) : (s \o t)[Len(s) + i] = t[i]
<1>1. Len(s) \in Nat /\ Len(t) \in Nat
  BY LenProperties
<1>2. \A m, n \in Nat : \A i \in 1 .. m : i \in 1 .. m + n /\ i <= m
  OBVIOUS
<1>3. \A m, n \in Nat : \A i \in 1 .. n :
        m + i \in 1 .. m + n /\ ~(m + i <= m) /\ m + i - m = i
  OBVIOUS
<1>4. \A i \in 1 .. Len(s) : (s \o t)[i] = s[i]
  BY <1>1, <1>2, ConcatProperties
<1>5. \A i \in 1 .. Len(t) : (s \o t)[Len(s) + i] = t[i]
  BY <1>1, <1>3, ConcatProperties
<1> QED BY <1>4, <1>5, ConcatProperties

IsHeader(h, cmd, len) ==
  /\ h \in Seq(U8) /\ Len(h) = 17
  /\ h[1] = HIP_VERSION /\ h[2] = cmd /\ h[3] = len /\ h[17] = CommFd

LEMMA HeaderBytes ==
  ASSUME NEW b \in U8, NEW c \in U8
  PROVE  IsHeader(Header(HIP_VERSION, b, c, HIP_DEV_TYPE), b, c)
<1> DEFINE h0 == <<HIP_VERSION, b, c, HIP_DEV_TYPE>>
           zeros == <<0, 0, 0, 0>>
           reserved == <<CommFd>>
           h1 == h0 \o HIP_DEV_ID
           h2 == h1 \o zeros
           h3 == h2 \o reserved
<1>1. h0 \in Seq(U8) /\ Len(h0) = 4 /\ h0[1] = HIP_VERSION /\ h0[2] = b /\ h0[3] = c
  BY DEF U8, HIP_VERSION, HIP_DEV_TYPE
<1>2. HIP_DEV_ID \in Seq(U8) /\ Len(HIP_DEV_ID) = 8
  BY DeviceAssumption, FunctionIsSeq
<1>3. zeros \in Seq(U8) /\ Len(zeros) = 4
  BY DEF U8
<1>4. reserved \in Seq(U8) /\ Len(reserved) = 1 /\ reserved[1] = CommFd
  BY DeviceAssumption
<1> HIDE DEF h0, zeros, reserved
<1>5. h1 \in Seq(U8) /\ Len(h1) = Len(h0) + Len(HIP_DEV_ID) /\ \A i \in 1 .. Len(h0) : h1[i] = h0[i]
  BY <1>1, <1>2, ConcatBytes
<1>6. Len(h1) = 12
  BY <1>1, <1>2, <1>5
<1> HIDE DEF h1
<1>7. h2 \in Seq(U8) /\ Len(h2) = Len(h1) + Len(zeros) /\ \A i \in 1 .. Len(h1) : h2[i] = h1[i]
  BY <1>3, <1>5, <1>6, ConcatBytes
<1>8. Len(h2) = 16
  BY <1>3, <1>6, <1>7
<1> HIDE DEF h2
<1>9. /\ h3 \in Seq(U8) /\ Len(h3) = Len(h2) + Len(reserved)
      /\ \A i \in 1 .. Len(h2) : h3[i] = h2[i]
      /\ \A i \in 1 .. Len(reserved) : h3[Len(h2) + i] = reserved[i]
  BY <1>4, <1>7, <1>8, ConcatBytes
<1> HIDE DEF h3
<1>10. h3[1] = HIP_VERSION /\ h3[2] = b /\ h3[3] = c
  <2>1. \A i \in 1 .. 3 : i \in 1 .. Len(h0) /\ i \in 1 .. Len(h1) /\ i \in 1 .. Len(h2)
    BY <1>1, <1>6, <1>8
  <2>2. \A i \in 1 .. 3 : h3[i] = h0[i]
    BY <1>5, <1>7, <1>9, <2>1
  <2> QED BY <1>1, <2>2
<1>11. h3[16 + 1] = CommFd /\ 16 + 1 = 17
  BY <1>4, <1>8, <1>9
<1>12. Len(h3) = 17
  BY <1>4, <1>8, <1>9
<1> QED BY <1>9, <1>10, <1>11, <1>12 DEF IsHeader, Header, h0, h1, h2, h3, zeros, reserved

\* The numbers below, and what a uint8_t makes of them.
LEMMA SmallNumbers ==
  \A n \in 1 .. 238 : /\ n + 16 \in 0 .. 255 /\ ~(255 < n + 16)
                      /\ (n + 17) % 256 = n + 17 /\ n + 17 = 17 + n
                      /\ n \in Nat /\ n - 1 \in Nat /\ n - 1 \in 0 .. n /\ n - 1 \in Int
                      /\ 1 + (n - 1) = n /\ 1 <= n
OBVIOUS

\* The bytes on the line of a message whose data fits.
LEMMA PackedBytes ==
  ASSUME NEW e \in Ends, NEW m \in Messages[e], Len(m.data) \in 1 .. 238
  PROVE  LET p == Packed(m)
             n == Len(m.data)
         IN  /\ p \in Seq(U8) /\ Len(p) = n + 17
             /\ p[1] = HIP_VERSION /\ p[2] = m.cmd /\ p[3] = n + 16 /\ p[17] = CommFd
             /\ \A i \in 1 .. n : p[17 + i] = m.data[i]
<1> DEFINE n == Len(m.data)
           h == Header(HIP_VERSION, m.cmd, n + 16, HIP_DEV_TYPE)
           all == h \o m.data
<1>1. m.cmd \in U8 /\ m.data \in Seq(U8) /\ n \in 1 .. 238
  BY MessagesAssumption
<1>2. HIP_VERSION \in U8 /\ HIP_DEV_TYPE \in U8 /\ n + 16 \in U8
  <2> HIDE DEF n
  <2> QED BY <1>1, SmallNumbers DEF U8, HIP_VERSION, HIP_DEV_TYPE
<1>3. /\ h \in Seq(U8) /\ Len(h) = 17
      /\ h[1] = HIP_VERSION /\ h[2] = m.cmd /\ h[3] = n + 16 /\ h[17] = CommFd
  <2> HIDE DEF n
  <2>1. IsHeader(h, m.cmd, n + 16)
    BY <1>1, <1>2, HeaderBytes
  <2> HIDE DEF h
  <2> QED BY <2>1 DEF IsHeader
<1>4. Packed(m) = SubSeq(all, 1, (n + 17) % 256)
  <2>1. ~(255 < Len(m.data) + 16)
    BY <1>1, SmallNumbers
  <2> QED BY <2>1 DEF Packed, Header
<1>5. (n + 17) % 256 = n + 17
  BY <1>1, SmallNumbers
<1> HIDE DEF n, h
<1>6. /\ all \in Seq(U8) /\ Len(all) = 17 + n
      /\ \A i \in 1 .. 17 : all[i] = h[i]
      /\ \A i \in 1 .. n : all[17 + i] = m.data[i]
  <2>1. /\ all \in Seq(U8) /\ Len(all) = Len(h) + Len(m.data)
        /\ \A i \in 1 .. Len(h) : all[i] = h[i]
        /\ \A i \in 1 .. Len(m.data) : all[Len(h) + i] = m.data[i]
    BY <1>1, <1>3, ConcatBytes
  <2> QED BY <1>3, <2>1 DEF n
<1> HIDE DEF all
<1>7. SubSeq(all, 1, n + 17) = all
  <2>1. n + 17 = Len(all)
    BY <1>1, <1>6, SmallNumbers
  <2> QED BY <1>6, <2>1, SubSeqFull
<1>8. Packed(m) = all
  BY <1>4, <1>5, <1>7
<1>9. Len(all) = n + 17
  BY <1>1, <1>6, SmallNumbers
<1>10. all[1] = HIP_VERSION /\ all[2] = m.cmd /\ all[3] = n + 16 /\ all[17] = CommFd
  BY <1>3, <1>6
<1> QED BY <1>6, <1>8, <1>9, <1>10 DEF n

\* The frame the handler is to see: the reserved byte and all but the last of
\* the data's bytes.
LEMMA ReceivedBytes ==
  ASSUME NEW e \in Ends, NEW m \in Messages[e], Len(m.data) \in 1 .. 238
  PROVE  LET f == Received(m)
             n == Len(m.data)
         IN  /\ f \in TextFrame /\ f.cmd = m.cmd /\ Len(f.payload) = n
             /\ f.payload[1] = CommFd
             /\ \A i \in 1 .. n - 1 : f.payload[1 + i] = m.data[i]
<1> DEFINE n == Len(m.data)
           data == SubSeq(m.data, 1, n - 1)
           bytes == <<CommFd>> \o data
<1>1. m.cmd \in U8 /\ m.data \in Seq(U8) /\ n \in 1 .. 238
  BY MessagesAssumption
<1>2. data \in Seq(U8) /\ Len(data) = n - 1 /\ \A i \in 1 .. n - 1 : data[i] = m.data[i]
  <2>1. n - 1 \in Nat /\ n - 1 \in 0 .. Len(m.data)
    BY <1>1, SmallNumbers
  <2>2. \A i \in 1 .. n - 1 : m.data[i] \in U8
    BY <1>1, ElementOfSeq
  <2> HIDE DEF n
  <2> QED BY <1>1, <2>1, <2>2, SubSeqProperties
<1>3. <<CommFd>> \in Seq(U8) /\ Len(<<CommFd>>) = 1 /\ <<CommFd>>[1] = CommFd
  BY DeviceAssumption
<1> HIDE DEF n, data
<1>4. /\ bytes \in Seq(U8) /\ Len(bytes) = 1 + (n - 1)
      /\ \A i \in 1 .. 1 : bytes[i] = <<CommFd>>[i]
      /\ \A i \in 1 .. n - 1 : bytes[1 + i] = data[i]
  BY <1>2, <1>3, ConcatBytes
<1> HIDE DEF bytes
<1>5. Len(bytes) = n /\ n \in 1 .. 238
  BY <1>1, <1>4, SmallNumbers
<1>6. Received(m) = [cmd |-> m.cmd, payload |-> bytes]
  BY DEF Received, Frame, bytes, data, n
<1>7. Received(m) \in TextFrame
  <2>1. [cmd |-> m.cmd, payload |-> bytes] \in [cmd : U8, payload : Seq(U8)]
    BY <1>1, <1>4
  <2>2. [cmd |-> m.cmd, payload |-> bytes].payload = bytes
    OBVIOUS
  <2> QED BY <1>5, <1>6, <2>1, <2>2 DEF TextFrame
<1>8. bytes[1] = CommFd /\ \A i \in 1 .. n - 1 : bytes[1 + i] = m.data[i]
  BY <1>2, <1>3, <1>4
<1> QED BY <1>5, <1>6, <1>7, <1>8 DEF n

LEMMA PackedFits ==
  ASSUME TextMessages, NEW e \in Ends, NEW m \in Messages[e]
  PROVE  /\ Received(m) \in TextFrame
         /\ Packed(m) \in Seq(U8) /\ Len(Packed(m)) = FrameLen(Received(m))
         /\ \A j \in 1 .. FrameLen(Received(m)) :
              FrameByte(Received(m), j, Packed(m)[j])
<1> DEFINE n == Len(m.data)
           p == Packed(m)
           f == Received(m)
<1>1. n \in 1 .. 238 /\ m.data[n] # HIP_VERSION
  BY DEF TextMessages
<1>2. /\ p \in Seq(U8) /\ Len(p) = n + 17
      /\ p[1] = HIP_VERSION /\ p[2] = m.cmd /\ p[3] = n + 16 /\ p[17] = CommFd
      /\ \A i \in 1 .. n : p[17 + i] = m.data[i]
  BY <1>1, PackedBytes
<1>3. /\ f \in TextFrame /\ f.cmd = m.cmd /\ Len(f.payload) = n
      /\ f.payload[1] = CommFd
      /\ \A i \in 1 .. n - 1 : f.payload[1 + i] = m.data[i]
  BY <1>1, ReceivedBytes
<1> HIDE DEF n, p, f
<1>4. FrameLen(f) = n + 17
  BY <1>3 DEF FrameLen
<1>5. ASSUME NEW j \in 1 .. n + 17 PROVE FrameByte(f, j, p[j])
  <2>1. ASSUME j \in 17 .. n + 16 PROVE p[j] = f.payload[j - 16]
    <3>1. CASE j = 17
      BY <1>2, <1>3, <3>1
    <3>2. CASE j # 17
      <4>1. j - 17 \in 1 .. n - 1 /\ j - 17 \in 1 .. n
        BY <1>1, <2>1, <3>2
      <4>2. 17 + (j - 17) = j /\ 1 + (j - 17) = j - 16
        BY <2>1
      <4> QED BY <1>2, <1>3, <4>1, <4>2
    <3> QED BY <3>1, <3>2
  <2>2. ASSUME j = n + 17 PROVE p[j] # HIP_VERSION
    <3>1. n \in 1 .. n /\ j = 17 + n
      BY <1>1, <2>2
    <3> QED BY <1>1, <1>2, <3>1
  <2> QED BY <1>2, <1>3, <1>4, <2>1, <2>2 DEF FrameByte
<1> QED BY <1>2, <1>3, <1>4, <1>5 DEF p, f

-----------------------------------------------------------------------------
(* The parser is where the frames are.                                     *)

\* Between two frames: at the first byte of the next one, or at the last byte
\* of the one before, which is no version.
Between(at) ==
  state = "VER" /\ (at[1] = 0 \/ (at[1] = 1 /\ stream[1] # HIP_VERSION))

\* Behind byte c of frame f.
Fields(f) == command = f.cmd /\ length = Len(f.payload) + 16

Inside(c, f) ==
  \/ state = "CMD" /\ c = 1
  \/ state = "LEN" /\ c = 2 /\ command = f.cmd
  \/ state = "DEV_TYPE" /\ c = 3 /\ Fields(f)
  \/ state = "DEV_ID" /\ c = 4 + read_len /\ Fields(f)
  \/ state = "SEQ" /\ c = 12 + read_len /\ Fields(f)
  \/ /\ state = "PL" /\ c = 16 + read_len /\ read_len < Len(f.payload) /\ Fields(f)
     /\ \A k \in 0 .. read_len - 1 : k \in DOMAIN payload /\ payload[k] = f.payload[k + 1]

Position(at) ==
  Between(at) \/ (transit # <<>> /\ Inside(0 - at[1], transit[1]))

\* Until a reconnect has cut a frame the stream is the frames in transit.
Following ==
  /\ transit \in Seq(TextFrame)
  /\ ~intact => transit = <<>>
  /\ intact => \E at : Marks(at, transit, stream) /\ Position(at)

\* A byte between two frames.
LEMMA VersionStep ==
  ASSUME NEW byte, ParseVersion(byte)
  PROVE  /\ UNCHANGED <<handled, transit>>
         /\ byte = HIP_VERSION => state' = "CMD"
         /\ byte # HIP_VERSION => state' = "VER"
BY DEF ParseVersion, Step

\* Only one state of hip_parse's switch takes the byte.
LEMMA OneState ==
  ASSUME NEW byte,
         \/ ParseVersion(byte) \/ ParseCommand(byte) \/ ParseLength(byte)
         \/ ParseDeviceType(byte) \/ ParseDeviceId(byte) \/ ParseSeq(byte)
         \/ ParsePayload(byte)
  PROVE  /\ state = "VER" => ParseVersion(byte)
         /\ state = "CMD" => ParseCommand(byte)
         /\ state = "LEN" => ParseLength(byte)
         /\ state = "DEV_TYPE" => ParseDeviceType(byte)
         /\ state = "DEV_ID" => ParseDeviceId(byte)
         /\ state = "SEQ" => ParseSeq(byte)
         /\ state = "PL" => ParsePayload(byte)
BY DEF ParseVersion, ParseCommand, ParseLength, ParseDeviceType, ParseDeviceId,
       ParseSeq, ParsePayload

\* The arithmetic of the payload's state, for n bytes of which r are read.
LEMMA PayloadNumbers ==
  ASSUME NEW n \in 1 .. 238, NEW r \in 0 .. 255, r < n
  PROVE  /\ (r + 1) % 256 = r + 1
         /\ 16 + r + 1 \in 17 .. n + 16 /\ 16 + r + 1 - 16 = r + 1
         /\ r + 1 = n => n - 1 = r /\ 16 + r + 2 = n + 17
OBVIOUS

LEMMA LengthNumber ==
  ASSUME NEW n \in 1 .. 238, NEW l, l = n + 16
  PROVE  (l - 16) % 256 = n
OBVIOUS

\* What the handler is called with is the frame.
LEMMA HandsOver ==
  ASSUME NEW f \in TextFrame, Fields(f), intact, NEW bytes, NEW len,
         \A k \in 0 .. Len(f.payload) - 1 : k \in DOMAIN bytes /\ bytes[k] = f.payload[k + 1],
         Success(bytes, len)
  PROVE  /\ handled' = f /\ state' = "VER"
         /\ transit' = IF transit = <<>> THEN <<>> ELSE Tail(transit)
<1> DEFINE n == Len(f.payload)
           m == (length - 16) % 256
           read == [k \in 1 .. m |-> IF k - 1 \in DOMAIN bytes THEN bytes[k - 1] ELSE 0]
<1>1. n \in 1 .. 238 /\ f.payload \in Seq(U8) /\ length = n + 16 /\ command = f.cmd
  BY DEF TextFrame, Fields
<1>2. m = n
  <2> HIDE DEF n
  <2> QED BY <1>1, LengthNumber
<1>3. f.payload \in [1 .. n -> U8]
  BY <1>1, LenProperties
<1>4. \A k \in 1 .. n : read[k] = f.payload[k]
  <2> SUFFICES ASSUME NEW k \in 1 .. n PROVE read[k] = f.payload[k]
    OBVIOUS
  <2>1. k - 1 \in 0 .. n - 1 /\ k - 1 + 1 = k
    BY <1>1
  <2> QED BY <1>2, <2>1
<1>5. read = f.payload
  <2>1. read = [k \in 1 .. n |-> read[k]]
    BY <1>2
  <2>2. f.payload = [k \in 1 .. n |-> f.payload[k]]
    BY <1>3
  <2> HIDE DEF read, n
  <2> QED BY <1>4, <2>1, <2>2
<1>6. f = [cmd |-> f.cmd, payload |-> f.payload]
  BY DEF TextFrame
<1>7. Frame(command, read) = f
  <2> HIDE DEF read
  <2> QED BY <1>1, <1>5, <1>6 DEF Frame
<1> QED BY <1>7 DEF Success

\* A byte of a frame: the parser goes on, or the frame is handed over and one
\* byte is left.
LEMMA FrameStep ==
  ASSUME ParserOK, intact, NEW f \in TextFrame, NEW c \in Int, Inside(c, f),
         NEW byte \in U8, FrameByte(f, c + 1, byte),
         \/ ParseVersion(byte) \/ ParseCommand(byte) \/ ParseLength(byte)
         \/ ParseDeviceType(byte) \/ ParseDeviceId(byte) \/ ParseSeq(byte)
         \/ ParsePayload(byte)
  PROVE  \/ Inside(c + 1, f)' /\ UNCHANGED <<handled, transit>>
         \/ /\ c + 2 = FrameLen(f) /\ state' = "VER" /\ handled' = f
            /\ transit' = IF transit = <<>> THEN <<>> ELSE Tail(transit)
<1> DEFINE n == Len(f.payload)
           On == Inside(c + 1, f)' /\ UNCHANGED <<handled, transit>>
<1>1. n \in 1 .. 238
  BY FrameLenTyped
<1>2. CASE state = "CMD" /\ c = 1
  <2>1. ParseCommand(byte) /\ byte = f.cmd
    BY <1>2, OneState DEF FrameByte
  <2> QED BY <1>2, <2>1 DEF ParseCommand, Step, Inside
<1>3. CASE state = "LEN" /\ c = 2 /\ command = f.cmd
  <2>1. ParseLength(byte) /\ byte = n + 16
    BY <1>3, OneState DEF FrameByte
  <2> QED BY <1>3, <2>1 DEF ParseLength, Step, Inside, Fields
<1>4. CASE state = "DEV_TYPE" /\ c = 3 /\ Fields(f)
  <2>1. ParseDeviceType(byte) /\ read_len = 0
    BY <1>4, OneState DEF ParserOK, PositionOK, CountsField
  <2>2. state' = "DEV_ID" /\ read_len' = 0 /\ UNCHANGED <<command, length, handled, transit>>
    BY <2>1 DEF ParseDeviceType, Step
  <2>3. c + 1 = 4 + read_len'
    BY <1>4, <2>2
  <2> QED BY <1>4, <2>2, <2>3 DEF Inside, Fields
<1>5. CASE state = "DEV_ID" /\ c = 4 + read_len /\ Fields(f)
  <2>1. ParseDeviceId(byte) /\ read_len \in U8
    BY <1>5, OneState DEF ParserOK, PositionOK
  <2>2. UNCHANGED <<command, length, handled, transit>>
    BY <2>1 DEF ParseDeviceId, Step
  <2>3. \/ state' = "SEQ" /\ c + 1 = 12 + read_len'
        \/ state' = "DEV_ID" /\ c + 1 = 4 + read_len'
    BY <1>5, <2>1 DEF ParseDeviceId, Step, U8
  <2> QED BY <1>5, <2>2, <2>3 DEF Inside, Fields
<1>6. CASE state = "SEQ" /\ c = 12 + read_len /\ Fields(f)
  <2>1. ParseSeq(byte) /\ read_len \in U8 /\ length # 0
    BY <1>1, <1>6, OneState DEF ParserOK, PositionOK, Fields
  <2>2. UNCHANGED <<command, length, handled, transit>>
    BY <2>1 DEF ParseSeq, Step
  <2>3. \/ state' = "PL" /\ read_len' = 0 /\ c + 1 = 16 + read_len'
        \/ state' = "SEQ" /\ c + 1 = 12 + read_len'
    BY <1>6, <2>1 DEF ParseSeq, Step, U8
  <2>4. 0 < n /\ 0 .. 0 - 1 = {}
    <3> HIDE DEF n
    <3> QED BY <1>1
  <2> QED BY <1>6, <2>2, <2>3, <2>4 DEF Inside, Fields
<1>7. CASE /\ state = "PL" /\ c = 16 + read_len /\ read_len < n /\ Fields(f)
           /\ \A k \in 0 .. read_len - 1 :
                k \in DOMAIN payload /\ payload[k] = f.payload[k + 1]
  <2> DEFINE written == [k \in DOMAIN payload \cup {read_len} |->
                           IF k = read_len THEN byte ELSE payload[k]]
             len == (read_len + 1) % 256
  <2>1. ParsePayload(byte) /\ read_len \in U8
    BY <1>7, OneState DEF ParserOK, PositionOK
  <2> HIDE DEF n
  <2>num. /\ len = read_len + 1
          /\ c + 1 \in 17 .. n + 16 /\ c + 1 - 16 = read_len + 1
          /\ read_len + 1 = n => n - 1 = read_len /\ c + 2 = n + 17
    <3>1. read_len \in 0 .. 255 /\ read_len < n /\ c = 16 + read_len
      BY <1>7, <2>1 DEF U8, n
    <3>2. /\ (read_len + 1) % 256 = read_len + 1
          /\ 16 + read_len + 1 \in 17 .. n + 16 /\ 16 + read_len + 1 - 16 = read_len + 1
          /\ read_len + 1 = n => n - 1 = read_len /\ 16 + read_len + 2 = n + 17
      BY <1>1, <3>1, PayloadNumbers
    <3> QED BY <3>1, <3>2
  <2>2. len = read_len + 1
    BY <2>num
  <2>3. byte = f.payload[read_len + 1]
    BY <2>num DEF FrameByte, n
  <2>4. \A k \in 0 .. read_len : k \in DOMAIN written /\ written[k] = f.payload[k + 1]
    <3> SUFFICES ASSUME NEW k \in 0 .. read_len
                 PROVE  k \in DOMAIN written /\ written[k] = f.payload[k + 1]
      OBVIOUS
    <3>1. CASE k = read_len
      BY <2>3, <3>1
    <3>2. CASE k # read_len
      <4>1. k \in 0 .. read_len - 1
        BY <2>1, <3>2 DEF U8
      <4> QED BY <1>7, <3>2, <4>1
    <3> QED BY <3>1, <3>2
  <2>5. payload' = written /\ UNCHANGED <<command, length>>
    BY <2>1 DEF ParsePayload
  <2>6. len = length - 16 <=> read_len + 1 = n
    <3>1. length = n + 16
      BY <1>7 DEF Fields, n
    <3> QED BY <1>1, <2>1, <2>2, <3>1 DEF U8
  <2>7. IF len = length - 16 THEN Success(written, len) ELSE Step("PL", len)
    BY <2>1 DEF ParsePayload
  <2> HIDE DEF written, len
  <2>8. CASE read_len + 1 = n
    <3>1. n - 1 = read_len /\ c + 2 = n + 17
      BY <2>num, <2>8
    <3>2. Success(written, len)
      BY <2>6, <2>7, <2>8
    <3>3. \A k \in 0 .. n - 1 : k \in DOMAIN written /\ written[k] = f.payload[k + 1]
      BY <2>4, <3>1
    <3> QED BY <1>7, <3>1, <3>2, <3>3, HandsOver DEF FrameLen, n
  <2>9. CASE read_len + 1 # n
    <3>1. state' = "PL" /\ read_len' = read_len + 1 /\ UNCHANGED <<handled, transit>>
      BY <2>2, <2>6, <2>7, <2>9 DEF Step
    <3>2. c + 1 = 16 + read_len' /\ read_len' < n /\ read_len' - 1 = read_len
      BY <1>1, <1>7, <2>1, <2>9, <3>1 DEF U8
    <3>3. \A k \in 0 .. read_len' - 1 : k \in DOMAIN payload' /\ payload'[k] = f.payload[k + 1]
      BY <2>4, <2>5, <3>2
    <3>4. Fields(f)'
      BY <1>7, <2>5 DEF Fields
    <3> QED BY <3>1, <3>2, <3>3, <3>4 DEF Inside, n
  <2> QED BY <2>8, <2>9
<1> QED BY <1>2, <1>3, <1>4, <1>5, <1>6, <1>7 DEF Inside

-----------------------------------------------------------------------------
(* Every step keeps the place and is a step of the channel.                *)

LEMMA NothingInTransit ==
  /\ <<>> \in Seq(TextFrame)
  /\ \E at : at[1] = 0 /\ Marks(at, <<>>, <<>>)
<1> DEFINE at == [k \in 1 .. 1 |-> 0]
<1>1. Marks(at, <<>>, <<>>)
  BY EmptySeq DEF Marks
<1>2. at[1] = 0
  OBVIOUS
<1> HIDE DEF at
<1> QED BY <1>1, <1>2, EmptySeq

LEMMA InitFollows == Init => Following /\ Channel!Init
<1> SUFFICES ASSUME Init PROVE Following /\ Channel!Init
  OBVIOUS
<1>1. transit = <<>> /\ stream = <<>> /\ state = "VER" /\ handled = NoFrame
  BY DEF Init
<1>2. PICK at : at[1] = 0 /\ Marks(at, transit, stream)
  BY <1>1, NothingInTransit
<1>3. Position(at)
  BY <1>1, <1>2 DEF Position, Between
<1> QED BY <1>1, <1>2, <1>3, NothingInTransit DEF Following, Channel!Init

LEMMA SendFollows ==
  ASSUME TextMessages, IndInv, Following, NEW m \in Messages[end], Send(m)
  PROVE  Following' /\ [Channel!Next]_(Channel!vars)
<1> DEFINE f == Received(m)
           p == Packed(m)
<1>1. /\ f \in TextFrame /\ p \in Seq(U8) /\ Len(p) = FrameLen(f)
      /\ \A j \in 1 .. FrameLen(f) : FrameByte(f, j, p[j])
  BY PackedFits DEF IndInv, RestOK
<1>2. f \in UNION {{Received(l) : l \in Messages[e]} : e \in Ends}
  BY DEF IndInv, RestOK
<1> HIDE DEF f
<1>3. /\ stream' = stream \o p
      /\ transit' = IF intact THEN Append(transit, f) ELSE <<>>
      /\ UNCHANGED <<intact, state, read_len, command, length, payload, handled>>
  BY DEF Send, parser, f
<1> HIDE DEF p
<1>4. transit \in Seq(TextFrame) /\ stream \in Seq(U8)
  BY DEF Following, IndInv, RestOK
<1>5. CASE ~intact
  <2>1. transit = <<>> /\ transit' = <<>>
    BY <1>3, <1>5 DEF Following
  <2> QED BY <1>3, <1>5, <2>1, NothingInTransit DEF Following, Channel!vars
<1>6. CASE intact
  <2>1. PICK at : Marks(at, transit, stream) /\ Position(at)
    BY <1>6 DEF Following
  <2>2. PICK after : after[1] = at[1] /\ Marks(after, transit', stream')
    BY <1>1, <1>3, <1>4, <1>6, <2>1, MarksAppend
  <2>3. transit' \in Seq(TextFrame)
    BY <1>1, <1>3, <1>4, <1>6, AppendProperties
  <2>4. ASSUME Between(at) PROVE Following'
    <3>1. ASSUME at[1] = 1 PROVE stream'[1] = stream[1]
      <4>1. Len(stream) \in Nat /\ 1 <= Len(stream)
        BY <1>4, <2>1, <3>1, LenProperties DEF Marks
      <4>2. 1 \in 1 .. Len(stream)
        BY <4>1
      <4> QED BY <1>1, <1>3, <1>4, <4>2, ConcatBytes
    <3>2. Between(after)'
      BY <1>3, <2>2, <2>4, <3>1 DEF Between
    <3> QED BY <1>3, <2>2, <2>3, <3>2, <1>6 DEF Following, Position
  <2>5. ASSUME transit # <<>> /\ Inside(0 - at[1], transit[1]) PROVE Following'
    <3>1. transit' # <<>> /\ transit'[1] = transit[1]
      <4>1. 1 \in 1 .. Len(transit)
        BY <1>4, <2>5, EmptySeq
      <4> QED BY <1>1, <1>3, <1>4, <1>6, <4>1, AppendProperties
    <3>2. Inside(0 - after[1], transit[1])'
      BY <1>3, <2>2, <2>5, <3>1 DEF Inside, Fields
    <3> QED BY <1>3, <2>2, <2>3, <3>1, <3>2, <1>6 DEF Following, Position
  <2>6. Channel!Send(f)
    BY <1>3, <1>6 DEF Channel!Send
  <2> QED BY <1>2, <2>1, <2>4, <2>5, <2>6 DEF Position, Channel!Next
<1> QED BY <1>5, <1>6

\* Where the parser may be in a frame.
LEMMA InsideWithin ==
  ASSUME ParserOK, NEW f \in TextFrame, NEW c \in Int, Inside(c, f)
  PROVE  c + 1 \in 1 .. FrameLen(f) /\ 1 <= c
<1>1. Len(f.payload) \in 1 .. 238 /\ FrameLen(f) = Len(f.payload) + 17
  BY FrameLenTyped DEF FrameLen
<1>2. read_len \in 0 .. 255 /\ CountsField
  BY DEF ParserOK, PositionOK, U8
<1> DEFINE n == Len(f.payload)
<1>3. c \in 1 .. n + 15
  <2> HIDE DEF n
  <2>0. n \in 1 .. 238
    BY <1>1 DEF n
  <2>1. CASE c \in 1 .. 15
    BY <2>0, <2>1
  <2>2. CASE c = 16 + read_len /\ read_len < n
    BY <2>0, <1>2, <2>2
  <2>3. ASSUME read_len < 8 PROVE 4 + read_len \in 1 .. 15
    BY <1>2, <2>3
  <2>4. ASSUME read_len < 4 PROVE 12 + read_len \in 1 .. 15
    BY <1>2, <2>4
  <2> QED BY <1>2, <2>1, <2>2, <2>3, <2>4 DEF Inside, CountsField, n
<1> HIDE DEF n
<1>4. n \in 1 .. 238 /\ FrameLen(f) = n + 17
  BY <1>1 DEF n
<1> QED BY <1>3, <1>4

\* After a reconnect has cut a frame nothing is recorded any more.
LEMMA CutStep ==
  ASSUME ~intact, Parse
  PROVE  UNCHANGED <<handled, transit>>
BY DEF Parse, ParseVersion, ParseCommand, ParseLength, ParseDeviceType,
       ParseDeviceId, ParseSeq, ParsePayload, Step, Success

LEMMA FrameLenOne ==
  ASSUME NEW n \in 18 .. 255
  PROVE  1 \in 1 .. n /\ n \in 1 .. n
OBVIOUS

LEMMA ParseFollows ==
  ASSUME IndInv, Following, Parse
  PROVE  Following' /\ [Channel!Next]_(Channel!vars)
<1>1. transit \in Seq(TextFrame) /\ stream \in Seq(U8) /\ stream # <<>>
  BY DEF Following, IndInv, RestOK, Parse
<1>2. /\ stream' = Tail(stream) /\ intact' = intact
      /\ \/ ParseVersion(Head(stream)) \/ ParseCommand(Head(stream))
         \/ ParseLength(Head(stream)) \/ ParseDeviceType(Head(stream))
         \/ ParseDeviceId(Head(stream)) \/ ParseSeq(Head(stream))
         \/ ParsePayload(Head(stream))
  BY DEF Parse
<1>3. Head(stream) = stream[1] /\ Head(stream) \in U8
  BY <1>1, HeadTailProperties
<1>4. Len(stream) \in Nat \ {0} /\ Len(transit) \in Nat
  BY <1>1, EmptySeq, LenProperties
<1>5. CASE ~intact
  <2>1. UNCHANGED <<handled, transit>>
    BY <1>5, CutStep
  <2> QED BY <1>1, <1>2, <1>5, <2>1 DEF Following, Channel!vars
<1>6. CASE intact
  <2>1. PICK at : Marks(at, transit, stream) /\ Position(at)
    BY <1>6 DEF Following
  <2>2. PICK after : Marks(after, transit, stream') /\ after[1] = at[1] - 1
    <3> DEFINE before == [k \in 1 .. Len(transit) + 1 |-> at[k] - 1]
    <3>1. Marks(before, transit, stream')
      BY <1>1, <1>2, <2>1, MarksTail
    <3>2. before[1] = at[1] - 1
      BY <1>4
    <3> HIDE DEF before
    <3> QED BY <3>1, <3>2
  <2>3. /\ at[1] \in Int /\ at[1] <= Len(stream) /\ after[1] = at[1] - 1
        /\ transit = <<>> => at[1] = Len(stream)
    <3>1. 1 \in 1 .. Len(transit) + 1
      BY <1>4
    <3>2. transit = <<>> => Len(transit) + 1 = 1
      OBVIOUS
    <3> QED BY <2>1, <2>2, <3>1, <3>2 DEF Marks
  <2>f. PICK f : f = transit[1]
    OBVIOUS
  <2>4. ASSUME transit # <<>>
        PROVE  /\ f \in TextFrame /\ FrameLen(f) \in 18 .. 255
               /\ at[2] = at[1] + FrameLen(f) /\ at[2] <= Len(stream)
               /\ \A j \in 1 .. FrameLen(f) :
                    at[1] + j >= 1 => FrameByte(f, j, stream[at[1] + j])
    <3>1. Len(transit) \in Nat \ {0}
      BY <1>1, <2>4, EmptySeq
    <3>2. 1 \in 1 .. Len(transit) /\ 1 + 1 = 2 /\ 2 \in 1 .. Len(transit) + 1
      BY <3>1
    <3> QED BY <1>1, <2>1, <2>f, <3>2, ElementOfSeq, FrameLenTyped DEF Marks
  <2>5. ASSUME UNCHANGED <<handled, transit>>, Position(after)'
        PROVE  Following' /\ [Channel!Next]_(Channel!vars)
    BY <1>1, <1>2, <1>6, <2>2, <2>5 DEF Following, Channel!vars
  <2>6. CASE state = "VER" /\ at[1] = 0
    <3>1. transit # <<>>
      BY <1>4, <2>3, <2>6
    <3>2. FrameByte(f, 1, stream[1])
      <4>1. FrameLen(f) \in 18 .. 255
        BY <2>4, <3>1
      <4>2. 1 \in 1 .. FrameLen(f)
        BY <4>1, FrameLenOne
      <4>3. at[1] + 1 = 1 /\ 1 >= 1
        BY <2>6
      <4> QED BY <2>4, <3>1, <4>2, <4>3
    <3>3. state' = "CMD" /\ UNCHANGED <<handled, transit>>
      BY <1>2, <1>3, <2>6, <3>2, OneState, VersionStep DEF FrameByte
    <3>4. 0 - after[1] = 1
      BY <2>3, <2>6
    <3>5. Inside(0 - after[1], transit[1])'
      BY <3>3, <3>4, Zenon DEF Inside
    <3> QED BY <2>5, <3>1, <3>3, <3>5 DEF Position
  <2>7. CASE state = "VER" /\ at[1] = 1 /\ stream[1] # HIP_VERSION
    <3>1. state' = "VER" /\ UNCHANGED <<handled, transit>>
      BY <1>2, <1>3, <2>7, OneState, VersionStep
    <3>2. after[1] = 0
      BY <2>3, <2>7
    <3> QED BY <2>5, <3>1, <3>2 DEF Position, Between
  <2>8. CASE transit # <<>> /\ Inside(0 - at[1], f)
    <3> DEFINE c == 0 - at[1]
    <3>1. c \in Int /\ at[1] + (c + 1) = 1 /\ after[1] = at[1] - 1
      BY <2>3
    <3>2. c + 1 \in 1 .. FrameLen(f) /\ 1 <= c
      BY <2>4, <2>8, <3>1, InsideWithin DEF IndInv
    <3>3. FrameByte(f, c + 1, stream[1])
      BY <2>4, <2>8, <3>1, <3>2
    <3>4. \/ Inside(c + 1, f)' /\ UNCHANGED <<handled, transit>>
          \/ /\ c + 2 = FrameLen(f) /\ state' = "VER" /\ handled' = f
             /\ transit' = IF transit = <<>> THEN <<>> ELSE Tail(transit)
      BY <1>2, <1>3, <1>6, <2>4, <2>8, <3>1, <3>3, FrameStep DEF IndInv
    <3>5. CASE Inside(c + 1, f)' /\ UNCHANGED <<handled, transit>>
      <4>1. 0 - after[1] = c + 1
        BY <2>3, <3>1
      <4>2. Inside(0 - after[1], transit[1])'
        BY <2>f, <3>5, <4>1
      <4> QED BY <2>5, <2>8, <3>5, <4>2 DEF Position
    <3>6. CASE /\ c + 2 = FrameLen(f) /\ state' = "VER" /\ handled' = f
               /\ transit' = Tail(transit)
      <4>2. transit' \in Seq(TextFrame) /\ Len(transit') = Len(transit) - 1
        BY <1>1, <2>8, <3>6, HeadTailProperties
      <4>4. Len(transit) \in Nat \ {0}
        BY <1>1, <2>8, EmptySeq
      <4>1. PICK at2 : Marks(at2, transit', stream) /\ at2[1] = at[2]
        <5> DEFINE rest == [k \in 1 .. Len(transit) |-> at[k + 1]]
        <5>1. Marks(rest, transit', stream)
          BY <1>1, <2>1, <2>8, <3>6, MarksDrop
        <5>2. rest[1] = at[2]
          BY <4>4
        <5> HIDE DEF rest
        <5> QED BY <5>1, <5>2
      <4>3. PICK at3 : Marks(at3, transit', stream') /\ at3[1] = at2[1] - 1
        <5> DEFINE before == [k \in 1 .. Len(transit') + 1 |-> at2[k] - 1]
        <5>1. Marks(before, transit', stream')
          BY <1>1, <1>2, <4>1, <4>2, MarksTail
        <5>2. before[1] = at2[1] - 1
          BY <4>2, <4>4
        <5> HIDE DEF before
        <5> QED BY <5>1, <5>2
      <4>6. at[2] = 2 /\ 2 <= Len(stream)
        BY <2>3, <2>4, <2>8, <3>6
      <4>7. stream'[1] = stream[2]
        <5>1. 1 \in 1 .. Len(Tail(stream))
          BY <1>1, <1>4, <4>6, HeadTailProperties
        <5> QED BY <1>1, <1>2, <5>1, HeadTailProperties
      <4>8. stream[2] # HIP_VERSION
        <5>0. FrameLen(f) \in 18 .. 255 /\ at[1] + FrameLen(f) = 2
          BY <2>4, <2>8, <4>6
        <5>1. FrameLen(f) \in 1 .. FrameLen(f) /\ at[1] + FrameLen(f) = 2 /\ 2 >= 1
          BY <5>0, FrameLenOne
        <5>2. FrameByte(f, FrameLen(f), stream[2])
          BY <2>4, <2>8, <5>1
        <5> QED BY <5>2 DEF FrameByte
      <4>9. Position(at3)'
        <5>1. at3[1] = 1
          BY <4>1, <4>3, <4>6
        <5> QED BY <3>6, <4>7, <4>8, <5>1 DEF Position, Between
      <4>10. Following'
        BY <1>2, <1>6, <4>2, <4>3, <4>9 DEF Following
      <4>11. Channel!Arrive
        BY <1>1, <2>8, <2>f, <3>6, HeadTailProperties DEF Channel!Arrive
      <4> QED BY <4>10, <4>11 DEF Channel!Next
    <3> QED BY <2>8, <3>4, <3>5, <3>6
  <2> QED BY <2>1, <2>6, <2>7, <2>8, <2>f DEF Position, Between
<1> QED BY <1>5, <1>6

\* Nothing is left of a connection that broke, or the frame is cut.
LEMMA BreakFollows ==
  ASSUME IndInv, Following, Break
  PROVE  Following' /\ [Channel!Next]_(Channel!vars)
<1>1. transit' = <<>> /\ handled' = handled
  BY DEF Break
<1>2. \/ ~intact'
      \/ stream' = <<>> /\ state' = "VER"
  <2>1. CASE ServerReplaces
    BY <2>1 DEF ServerReplaces
  <2>2. CASE ClientReconnects
    <3>1. PICK n \in 0 .. Len(stream) :
            /\ stream' = SubSeq(stream, 1, n)
            /\ intact' = (intact /\ n = 0 /\ state = "VER")
      BY <2>2 DEF ClientReconnects
    <3>2. n = 0 => SubSeq(stream, 1, n) = <<>>
      BY SubSeqEmpty
    <3>3. state' = state
      BY <2>2 DEF ClientReconnects, parser
    <3> QED BY <3>1, <3>2, <3>3
  <2> QED BY <2>1, <2>2 DEF Break
<1>3. CASE ~intact'
  BY <1>1, <1>3, NothingInTransit DEF Following, Channel!Next, Channel!Break
<1>4. CASE stream' = <<>> /\ state' = "VER"
  <2>1. PICK at : at[1] = 0 /\ Marks(at, transit', stream')
    BY <1>1, <1>4, NothingInTransit
  <2>2. Position(at)'
    BY <1>4, <2>1 DEF Position, Between
  <2> QED BY <1>1, <2>1, <2>2, NothingInTransit DEF Following, Channel!Next, Channel!Break
<1> QED BY <1>2, <1>3, <1>4

\* The parser hands over exactly the frames that were sent, each once and in
\* order, for any text, any number of frames and any broken connections (at the
\* client's end until a reconnect has cut a frame).
THEOREM StreamIsFrameChannel == ASSUME TextMessages PROVE Spec => IsFrameChannel
<1>1. IndInv /\ Following /\ [Next]_vars => Following' /\ [Channel!Next]_(Channel!vars)
  <2> SUFFICES ASSUME IndInv, Following, [Next]_vars
               PROVE  Following' /\ [Channel!Next]_(Channel!vars)
    OBVIOUS
  <2>1. CASE UNCHANGED vars
    <3>1. UNCHANGED <<transit, handled, intact, stream, state, read_len, command, length,
                      payload>>
      BY <2>1 DEF vars, parser
    <3>2. Following'
      BY <3>1 DEF Following, Position, Between, Inside, Fields
    <3> QED BY <3>1, <3>2 DEF Channel!vars
  <2> QED BY <2>1, SendFollows, ParseFollows, BreakFollows DEF Next
<1> QED BY <1>1, InitFollows, Invariance, PTL DEF Spec, IsFrameChannel, Channel!Spec
=============================================================================
