---------------------------- MODULE MCHipStream ----------------------------
(* The messages the program sends: a heartbeat or a request with the text  *)
(* of an address (16 bytes), and serial data passed through, always with   *)
(* the final NUL (strlen + 1).  48 is both "0" and the version byte.       *)
EXTENDS HipStream

\* "10.0.0.1" in a buffer of 16 bytes.
AddrIp == <<49, 48, 46, 48, 46, 48, 46, 49, 0, 0, 0, 0, 0, 0, 0, 0>>

Text(n) == [k \in 1 .. n |-> IF k = n THEN 0 ELSE 48]

\* DETECT_REQUEST, KEEP_ALIVE, UART_PASS_THROUGH.
Request == [cmd |-> 5, data |-> AddrIp]
Heartbeat == [cmd |-> 7, data |-> AddrIp]
Serial(n) == [cmd |-> 8, data |-> Text(n)]

\* The server gets the empty text, a text of version bytes, and the longest data
\* that fits.  At the client's end what matters is a break inside a frame.
MCMessages ==
  [server |-> {Request, Heartbeat, Serial(1), Serial(3), Serial(238)},
   client |-> {Heartbeat, Serial(3)}]

\* 0x000012345678abcd
MCDeviceId == <<0, 0, 18, 52, 86, 120, 171, 205>>

ASSUME MCTextMessages == TextMessages
=============================================================================
