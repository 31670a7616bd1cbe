----------------------------- MODULE HipStream -----------------------------
(***************************************************************************)
(* utility/hip: hip_pack makes a frame of a command and its data, hip_parse*)
(* finds the frames in the stream of bytes that reaches the other end.     *)
(* One direction of one connection: the sending end (tcp_server_send or    *)
(* tcp_client_send), the stream (socket and ring fifo) and the parser of   *)
(* the receiving end, one byte at a time as the commit thread feeds it.    *)
(*                                                                         *)
(* A connection may break and be replaced.  The server then frees the row  *)
(* and initialises fifo and parser again for the next client; the client   *)
(* (retry_connect_server) keeps both.                                      *)
(*                                                                         *)
(* The definitions named Mutant... are not part of the model: each is the   *)
(* definition that follows it with a mistake in it, and shows which        *)
(* property notices.                                                       *)
(***************************************************************************)
EXTENDS Integers, Sequences

CONSTANTS
  Messages,        \* receiving end |-> what is sent to it: a set of [cmd, data]
  CommFd,          \* the descriptor written into the reserved byte
  HIP_DEV_ID,      \* the device id's eight bytes, high byte first
  NoFrame,         \* no frame has been handed over
  MaxSends,        \* how many frames are sent in a behaviour
  MaxBreaks        \* how many connections break in a behaviour

HIP_VERSION == 48  \* 0x30
HIP_DEV_TYPE == 1

\* uint8_t
U8 == 0 .. 255

Ends == {"server", "client"}

ASSUME MessagesAssumption ==
  \A e \in Ends : \A m \in Messages[e] :
    m.cmd \in U8 /\ m.data \in Seq(U8) /\ Len(m.data) \in U8
ASSUME DeviceAssumption == HIP_DEV_ID \in [1 .. 8 -> U8] /\ CommFd \in U8
ASSUME BoundsAssumption == MaxSends \in Nat /\ MaxBreaks \in Nat

VARIABLES
  end,                    \* whose parser this is
  intact,                 \* history: no frame was cut by a reconnect
  stream,                 \* the bytes sent and not yet parsed, oldest first
  state, read_len,        \* the parser: hip_protocol_handle_t
  command, length,        \* the fields of hip_frame the handler uses
  payload,                \* what of hip_frame.payload is written: index |-> byte
  handled,                \* the frame the success handler was called with last
  transit,                \* history: the frames a handler is still to be called with
  sends, breaks           \* how many so far

parser == <<state, read_len, command, length, payload>>
vars == <<end, intact, stream, parser, handled, transit, sends, breaks>>

States == {"VER", "CMD", "LEN", "DEV_TYPE", "DEV_ID", "SEQ", "PL"}

\* A frame as the success handlers read it: the command, and length - 16 (a
\* uint8_t) bytes of the payload.
Frame(cmd, bytes) == [cmd |-> cmd, payload |-> bytes]

TypeOK ==
  /\ end \in Ends /\ intact \in BOOLEAN
  /\ stream \in Seq(U8)
  /\ state \in States /\ read_len \in U8
  /\ command \in U8 /\ length \in U8
  /\ \A k \in DOMAIN payload : k \in U8 /\ payload[k] \in U8
  /\ handled = NoFrame \/ (handled.cmd \in U8 /\ handled.payload \in Seq(U8))
  /\ sends \in 0 .. MaxSends /\ breaks \in 0 .. MaxBreaks

Init ==
  /\ end \in Ends /\ intact = TRUE
  /\ stream = <<>>
  /\ state = "VER" /\ read_len = 0
  /\ command = 0 /\ length = 0
  /\ payload = [k \in {} |-> 0]
  /\ handled = NoFrame
  /\ transit = <<>>
  /\ sends = 0 /\ breaks = 0

-----------------------------------------------------------------------------
(* The sending end.                                                        *)

\* hip_pack in a buffer of 255 bytes, and the caller's frame_buf[16].  The
\* returned length goes into a uint8_t: 239 bytes of data make 256, which is 0,
\* and the -1 of a refused frame is 255 bytes of a buffer never written.
Packed(m) ==
  LET n == Len(m.data)
      header == <<HIP_VERSION, m.cmd, n + 16, HIP_DEV_TYPE>> \o HIP_DEV_ID
                  \o <<0, 0, 0, 0>> \o <<CommFd>>
      frame_len == (n + 17) % 256
  IN  IF 255 < n + 16
        THEN [k \in 1 .. 255 |-> IF k = 17 THEN CommFd ELSE 0]
        ELSE SubSeq(header \o m.data, 1, frame_len)

\* The frame the parser makes of it: the reserved byte comes first, and the
\* last byte of the data is not part of the frame any more.
Received(m) ==
  Frame(m.cmd, <<CommFd>> \o SubSeq(m.data, 1, Len(m.data) - 1))

Send(m) ==
  /\ sends < MaxSends
  /\ sends' = sends + 1
  /\ stream' = stream \o Packed(m)
  /\ transit' = IF intact THEN Append(transit, Received(m)) ELSE <<>>
  /\ UNCHANGED <<end, intact, parser, handled, breaks>>

-----------------------------------------------------------------------------
(* hip_parse, called with the next byte.                                   *)

\* The next state for a byte that is not the last one of its frame.
Step(next, len) == state' = next /\ read_len' = len /\ UNCHANGED <<handled, transit>>

\* The success handler is called, and the parser waits for a version byte.
Success(bytes, len) ==
  /\ IF intact
       THEN /\ handled' = Frame(command, [k \in 1 .. (length - 16) % 256 |->
                            IF k - 1 \in DOMAIN bytes THEN bytes[k - 1] ELSE 0])
            /\ transit' = IF transit = <<>> THEN <<>> ELSE Tail(transit)
       ELSE UNCHANGED <<handled, transit>>
  /\ state' = "VER" /\ read_len' = len

ParseVersion(byte) ==
  /\ state = "VER"
  /\ IF byte = HIP_VERSION THEN Step("CMD", 0) ELSE Step("VER", read_len)
  /\ UNCHANGED <<command, length, payload>>

ParseCommand(byte) ==
  /\ state = "CMD"
  /\ command' = byte
  /\ Step("LEN", read_len)
  /\ UNCHANGED <<length, payload>>

ParseLength(byte) ==
  /\ state = "LEN"
  /\ length' = byte
  /\ Step("DEV_TYPE", read_len)
  /\ UNCHANGED <<command, payload>>

ParseDeviceType(byte) ==
  /\ state = "DEV_TYPE"
  /\ Step("DEV_ID", read_len)
  /\ UNCHANGED <<command, length, payload>>

MutantParseDeviceId(byte) ==
  /\ state = "DEV_ID"
  /\ Step(IF read_len + 1 = 8 THEN "SEQ" ELSE "DEV_ID", read_len + 1)
  /\ UNCHANGED <<command, length, payload>>

\* The device id and the sequence number are assembled from their bytes (by
\* shifts that are too short for it); nothing reads them.
ParseDeviceId(byte) ==
  /\ state = "DEV_ID"
  /\ IF read_len + 1 = 8 THEN Step("SEQ", 0) ELSE Step("DEV_ID", read_len + 1)
  /\ UNCHANGED <<command, length, payload>>

ParseSeq(byte) ==
  /\ state = "SEQ"
  /\ IF read_len + 1 # 4 THEN Step("SEQ", read_len + 1)
     ELSE IF length = 0 THEN Success(payload, 4)
     ELSE Step("PL", 0)
  /\ UNCHANGED <<command, length, payload>>

MutantParsePayload(byte) ==
  /\ state = "PL"
  /\ LET written == [k \in DOMAIN payload \cup {read_len} |->
                       IF k = read_len THEN byte ELSE payload[k]]
         len == (read_len + 1) % 256
     IN  /\ payload' = written
         /\ IF len = length - 17 THEN Success(written, len) ELSE Step("PL", len)
  /\ UNCHANGED <<command, length>>

\* read_len is a uint8_t, length - 16 an int: below 16 they never meet.
ParsePayload(byte) ==
  /\ state = "PL"
  /\ LET written == [k \in DOMAIN payload \cup {read_len} |->
                       IF k = read_len THEN byte ELSE payload[k]]
         len == (read_len + 1) % 256
     IN  /\ payload' = written
         /\ IF len = length - 16 THEN Success(written, len) ELSE Step("PL", len)
  /\ UNCHANGED <<command, length>>

Parse ==
  /\ stream # <<>>
  /\ stream' = Tail(stream)
  /\ LET byte == Head(stream)
     IN  \/ ParseVersion(byte) \/ ParseCommand(byte) \/ ParseLength(byte)
         \/ ParseDeviceType(byte) \/ ParseDeviceId(byte) \/ ParseSeq(byte)
         \/ ParsePayload(byte)
  /\ UNCHANGED <<end, intact, sends, breaks>>

-----------------------------------------------------------------------------
(* The connection breaks and is replaced.                                  *)

MutantServerReplaces ==
  /\ end = "server"
  /\ stream' = <<>>
  /\ UNCHANGED <<intact, parser>>

\* client_info_deinit and the next client_info_init: fifo and parser are new.
ServerReplaces ==
  /\ end = "server"
  /\ stream' = <<>>
  /\ state' = "VER" /\ read_len' = 0
  /\ payload' = [k \in {} |-> 0]
  /\ UNCHANGED <<intact, command, length>>

\* retry_connect_server: what was still in the socket is gone, what is in the
\* fifo and in the parser stays.  The properties say nothing any more when
\* there is anything: the rest of a frame is then taken from the next one.
ClientReconnects ==
  /\ end = "client"
  /\ \E n \in 0 .. Len(stream) :
       /\ stream' = SubSeq(stream, 1, n)
       /\ intact' = (intact /\ n = 0 /\ state = "VER")
  /\ UNCHANGED parser

Break ==
  /\ breaks < MaxBreaks
  /\ breaks' = breaks + 1
  /\ ServerReplaces \/ ClientReconnects
  /\ transit' = <<>>
  /\ UNCHANGED <<end, handled, sends>>

-----------------------------------------------------------------------------
Next == (\E m \in Messages[end] : Send(m)) \/ Parse \/ Break

Spec == Init /\ [][Next]_vars

\* The commit thread reads its fifo all the time.
FairSpec == Spec /\ WF_vars(Parse)

-----------------------------------------------------------------------------
(* Properties.                                                             *)

Channel == INSTANCE FrameChannel
             WITH Frames <- UNION {{Received(m) : m \in Messages[e]} : e \in Ends},
                  arrived <- handled

\* The parser hands over exactly the frames that were sent on this connection,
\* one after the other: a frame's left over last byte, a byte of the data that
\* looks like a version, a broken connection do not make it lose its place.
\* (At the client's end: as long as no reconnect has cut a frame.)
IsFrameChannel == Channel!Spec

\* What the program sends is text and its final NUL, short enough for a frame
\* whose length a uint8_t can count: then IsFrameChannel holds.
TextMessages ==
  \A e \in Ends : \A m \in Messages[e] :
    Len(m.data) \in 1 .. 238 /\ m.data[Len(m.data)] # HIP_VERSION

\* Every frame that was sent is handed over or lost with its connection.
FramesArrive == (transit # <<>>) ~> (transit = <<>>)
=============================================================================
