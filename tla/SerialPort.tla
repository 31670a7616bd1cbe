----------------------------- MODULE SerialPort -----------------------------
(***************************************************************************)
(* uart_app and utility/hup: how the frames of the device at the serial    *)
(* port reach the message queue.  The receiving thread copies what has     *)
(* arrived into r_fifo, the handling thread takes it out byte by byte and  *)
(* feeds hup_parse, whose success handler puts the frame into the queue    *)
(* and waits while the queue is full.                                      *)
(*                                                                         *)
(* The fifo is the bounded queue that RingFifo implements (ByteQueue).     *)
(* External parts: the device and the line (SendFrame, SendDamaged,        *)
(* SendNoise) and the app thread that empties the queue (AppTakes).  The   *)
(* sending thread is left out: tty_send never gets as far as w_fifo.       *)
(*                                                                         *)
(* The definitions named Mutant... are not part of the model: each is the  *)
(* definition that follows it with a mistake in it, and shows which        *)
(* property notices.                                                       *)
(***************************************************************************)
EXTENDS Integers, Sequences, FiniteSets

CONSTANTS
  Frames,     \* what the device sends: [header, cmd, data]
  Noise,      \* the bytes that may come between two frames
  Wrong,      \* the values that one byte of a frame may be changed to
  NoFrame,    \* no frame has been handed over
  NoByte,     \* the handling thread has no byte to parse
  RSize,      \* BUFFER_R_FIFO: one byte more than r_fifo holds
  ReadSize,   \* TTY_READ_BUFFER_SIZE
  Payload,    \* TTY_FRAME_PAYLOAD_SIZE
  QueueCap,   \* how many messages fit into the message queue
  MaxSends    \* bound: how many frames, damaged frames and noise bytes come

\* uint8_t
U8 == 0 .. 255

HUP_REQ_HDR_H == 170   \* 0xAA
HUP_ACK_HDR_H == 187   \* 0xBB
HUP_REQ_HDR_L == 221   \* 0xDD
HUP_ACK_HDR_L == 221   \* 0xDD

Headers == {HUP_REQ_HDR_H, HUP_ACK_HDR_H}

\* The device sends frames that have data, and not more than fits the buffer.
ASSUME FrameAssumption ==
  \A f \in Frames : /\ f.header \in Headers /\ f.cmd \in U8
                    /\ f.data \in Seq(U8) /\ Len(f.data) \in 1 .. Payload
\* Outside a frame the line carries nothing that looks like a header.
ASSUME NoiseAssumption == Noise \subseteq U8 \ Headers /\ Wrong \subseteq U8
ASSUME SizeAssumption ==
  /\ RSize \in Nat \ {0} /\ ReadSize \in Nat \ {0} /\ Payload \in U8 \ {0}
  /\ QueueCap \in Nat \ {0} /\ MaxSends \in Nat
ASSUME NoByteAssumption == NoByte \notin U8

VARIABLES
  line,                 \* the bytes at the port that are not read yet
  r_fifo,               \* the bytes in the fifo, oldest first
  temp,                 \* the byte the handling thread took out
  state, is_response, xor8,   \* hup_parse's assistance
  cmd, data_len, data,  \* hup_frame; read_len is the length of data
  queue,                \* the number of messages in the queue
  overrun,              \* data was written beyond its buffer
  lost,                 \* history: r_fifo has refused a byte
  handled,              \* history: the frame handed over last, while none is lost
  transit,              \* history: the frames still to be handed over
  sends                 \* how much the device has sent

parser == <<state, is_response, xor8, cmd, data_len, data>>
fifo == <<r_fifo, temp>>
vars == <<line, fifo, parser, queue, overrun, lost, handled, transit, sends>>

States == {"HDR_H", "HDR_L", "CMD", "DATA_LEN", "DATA", "CRC"}

TypeOK ==
  /\ line \in Seq(U8)
  /\ r_fifo \in Seq(U8) /\ Len(r_fifo) <= RSize - 1
  /\ temp \in U8 \cup {NoByte}
  /\ state \in States /\ is_response \in BOOLEAN /\ xor8 \in U8
  /\ cmd \in U8 /\ data_len \in U8
  /\ data \in Seq(U8) /\ Len(data) <= Payload
  /\ queue \in 0 .. QueueCap
  /\ overrun \in BOOLEAN /\ lost \in BOOLEAN
  /\ handled = NoFrame \/ (handled.cmd \in U8 /\ handled.data \in Seq(U8))
  /\ sends \in 0 .. MaxSends

Init ==
  /\ line = <<>>
  /\ r_fifo = <<>> /\ temp = NoByte
  /\ state = "HDR_H" /\ is_response = FALSE /\ xor8 = 0
  /\ cmd = 0 /\ data_len = 0 /\ data = <<>>
  /\ queue = 0
  /\ overrun = FALSE /\ lost = FALSE
  /\ handled = NoFrame /\ transit = <<>>
  /\ sends = 0

-----------------------------------------------------------------------------
(* The device and the line.                                                *)

\* The exclusive or of two bytes.
Xor(a, b) ==
  LET bit(k) == k * (((a \div k) + (b \div k)) % 2)
  IN  bit(1) + bit(2) + bit(4) + bit(8) + bit(16) + bit(32) + bit(64) + bit(128)

\* The exclusive or of all of them: a bit is set that an odd number of them has.
XorAll(bytes) ==
  LET ones(k) == {i \in DOMAIN bytes : (bytes[i] \div k) % 2 = 1}
      bit(k) == k * (Cardinality(ones(k)) % 2)
  IN  bit(1) + bit(2) + bit(4) + bit(8) + bit(16) + bit(32) + bit(64) + bit(128)

\* The bytes of each frame: two of header, command, length, data and check.
Bytes ==
  [f \in Frames |->
     LET all == <<f.header, HUP_REQ_HDR_L, f.cmd, Len(f.data)>> \o f.data
     IN  Append(all, XorAll(all))]

\* A request and a response are the same to the success handler.
Received(f) == [cmd |-> f.cmd, data |-> f.data]

Arrives(bytes) ==
  /\ sends < MaxSends
  /\ sends' = sends + 1
  /\ line' = line \o bytes
  /\ UNCHANGED <<fifo, parser, queue, overrun, lost, handled>>

SendFrame(f) ==
  /\ Arrives(Bytes[f])
  /\ transit' = IF lost THEN <<>> ELSE Append(transit, Received(f))

\* One byte changes on the line, but not the length; and if the parser has to
\* skip the rest of the frame, there is nothing in it like a header.
SendDamaged(f, k, byte) ==
  /\ k # 4 /\ byte # Bytes[f][k]
  /\ \A j \in 2 .. Len(Bytes[f]) : Bytes[f][j] \notin Headers
  /\ Arrives([Bytes[f] EXCEPT ![k] = byte])
  /\ UNCHANGED transit

SendNoise(byte) == Arrives(<<byte>>) /\ UNCHANGED transit

-----------------------------------------------------------------------------
(* The receiving thread: tty_read and the write into r_fifo.               *)

MutantReceive ==
  \E n \in 1 .. Len(line) :
    LET room == RSize - Len(r_fifo)
    IN  /\ n <= ReadSize
        /\ line' = SubSeq(line, n + 1, Len(line))
        /\ r_fifo' = r_fifo \o (IF n > room THEN <<>> ELSE SubSeq(line, 1, n))
        /\ lost' = (lost \/ n > room)
        /\ transit' = IF lost' THEN <<>> ELSE transit
        /\ UNCHANGED <<temp, parser, queue, overrun, handled, sends>>

\* What does not fit is refused as a whole; and one byte that passes the test
\* finds the fifo full all the same.  Nobody looks at the result.
Receive ==
  \E n \in 1 .. Len(line) :
    LET room == RSize - Len(r_fifo)
    IN  /\ n <= ReadSize
        /\ line' = SubSeq(line, n + 1, Len(line))
        /\ r_fifo' = r_fifo \o (IF n > room THEN <<>>
                                ELSE SubSeq(line, 1, IF n = room THEN n - 1 ELSE n))
        /\ lost' = (lost \/ n >= room)
        /\ transit' = IF lost' THEN <<>> ELSE transit
        /\ UNCHANGED <<temp, parser, queue, overrun, handled, sends>>

-----------------------------------------------------------------------------
(* The handling thread: hup_parse, called with the byte in temp.           *)

Take ==
  /\ temp = NoByte /\ r_fifo # <<>>
  /\ temp' = Head(r_fifo)
  /\ r_fifo' = Tail(r_fifo)
  /\ UNCHANGED <<line, parser, queue, overrun, lost, handled, transit, sends>>

\* hup_parse_assist_reset.
Reset == state' = "HDR_H" /\ is_response' = FALSE /\ xor8' = 0 /\ data' = <<>>

Quiet == UNCHANGED <<queue, overrun, handled, transit>>

ParseHeaderHigh ==
  /\ state = "HDR_H"
  /\ IF temp \in Headers
       THEN /\ is_response' = (temp = HUP_ACK_HDR_H)
            /\ state' = "HDR_L" /\ xor8' = Xor(xor8, temp)
            /\ UNCHANGED data
       ELSE Reset
  /\ Quiet /\ UNCHANGED <<cmd, data_len>>

MutantParseHeaderLow ==
  /\ state = "HDR_L"
  /\ IF temp = HUP_REQ_HDR_L
       THEN /\ state' = "CMD" /\ xor8' = Xor(xor8, temp)
            /\ UNCHANGED <<data, is_response>>
       ELSE Reset
  /\ Quiet /\ UNCHANGED <<cmd, data_len>>

\* The two low bytes are the same, so that a response becomes a request here.
ParseHeaderLow ==
  /\ state = "HDR_L"
  /\ IF temp \in {HUP_REQ_HDR_L, HUP_ACK_HDR_L}
       THEN /\ is_response' = (temp # HUP_REQ_HDR_L)
            /\ state' = "CMD" /\ xor8' = Xor(xor8, temp)
            /\ UNCHANGED data
       ELSE Reset
  /\ Quiet /\ UNCHANGED <<cmd, data_len>>

ParseCmd ==
  /\ state = "CMD"
  /\ cmd' = temp
  /\ state' = "DATA_LEN" /\ xor8' = Xor(xor8, temp)
  /\ Quiet /\ UNCHANGED <<is_response, data_len, data>>

ParseDataLen ==
  /\ state = "DATA_LEN"
  /\ data_len' = temp
  /\ state' = "DATA" /\ xor8' = Xor(xor8, temp)
  /\ Quiet /\ UNCHANGED <<is_response, cmd, data>>

MutantParseData ==
  /\ state = "DATA"
  /\ IF Len(data) < Payload
       THEN /\ data' = Append(data, temp) /\ xor8' = Xor(xor8, temp)
            /\ state' = IF Len(data) = data_len THEN "CRC" ELSE "DATA"
            /\ UNCHANGED overrun
       ELSE overrun' = TRUE /\ UNCHANGED <<state, xor8, data>>
  /\ UNCHANGED <<is_response, cmd, data_len, queue, handled, transit>>

\* The length is not looked at before the byte is written: a frame without
\* data, or with too much, runs over the buffer.  What the program does then
\* is undefined and not followed.
ParseData ==
  /\ state = "DATA"
  /\ IF Len(data) < Payload
       THEN /\ data' = Append(data, temp) /\ xor8' = Xor(xor8, temp)
            /\ state' = IF Len(data) + 1 = data_len THEN "CRC" ELSE "DATA"
            /\ UNCHANGED overrun
       ELSE overrun' = TRUE /\ UNCHANGED <<state, xor8, data>>
  /\ UNCHANGED <<is_response, cmd, data_len, queue, handled, transit>>

\* hup_success_handle_func: msgsnd refuses a message of type 0, and waits when
\* the queue is full.
HandOver ==
  /\ cmd = 0 \/ queue < QueueCap
  /\ queue' = IF cmd = 0 THEN queue ELSE queue + 1
  /\ IF lost THEN UNCHANGED <<handled, transit>>
     ELSE /\ handled' = [cmd |-> cmd, data |-> SubSeq(data, 1, data_len)]
          /\ transit' = IF transit = <<>> THEN <<>> ELSE Tail(transit)
  /\ UNCHANGED overrun

MutantParseCrc ==
  /\ state = "CRC"
  /\ IF temp = xor8 /\ ~is_response THEN HandOver /\ Reset
     ELSE Quiet /\ state' = "HDR_H" /\ data' = <<>> /\ UNCHANGED <<is_response, xor8>>
  /\ UNCHANGED <<cmd, data_len>>

ParseCrc ==
  /\ state = "CRC"
  /\ IF temp = xor8 /\ ~is_response THEN HandOver ELSE Quiet
  /\ Reset
  /\ UNCHANGED <<cmd, data_len>>

Parse ==
  /\ temp # NoByte /\ ~overrun
  /\ \/ ParseHeaderHigh \/ ParseHeaderLow \/ ParseCmd \/ ParseDataLen
     \/ ParseData \/ ParseCrc
  /\ temp' = NoByte
  /\ UNCHANGED <<line, r_fifo, lost, sends>>

Handle == Take \/ Parse

AppTakes ==
  /\ queue > 0
  /\ queue' = queue - 1
  /\ UNCHANGED <<line, fifo, parser, overrun, lost, handled, transit, sends>>

-----------------------------------------------------------------------------
Next ==
  \/ Receive \/ Handle \/ AppTakes
  \/ \E f \in Frames : SendFrame(f) \/ \E k \in DOMAIN Bytes[f], byte \in Wrong :
                                         SendDamaged(f, k, byte)
  \/ \E byte \in Noise : SendNoise(byte)

Spec == Init /\ [][Next]_vars

\* The threads run; the device need not send anything.
FairSpec == Spec /\ WF_vars(Receive) /\ WF_vars(Handle) /\ WF_vars(AppTakes)

-----------------------------------------------------------------------------
(* Properties.                                                             *)

Channel == INSTANCE FrameChannel
             WITH Frames <- {Received(f) : f \in Frames}, arrived <- handled

\* Requests and responses are handed over alike, each once, unchanged and in
\* order; a damaged frame or noise between frames costs no other frame.  Once
\* r_fifo has refused a byte, nothing is said any more.
IsFrameChannel == Channel!Spec

\* A frame that has come in whole is handed over, or r_fifo refuses a byte.
FramesArrive == (transit # <<>>) ~> (transit = <<>>)

\* With a device that sends well-formed frames on a line that may change bytes
\* (but not the length), hup_parse runs over its buffer only after r_fifo has
\* refused a byte and the parser has lost its place.
OverrunNeedsLoss == overrun => lost
=============================================================================
