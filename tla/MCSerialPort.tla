---------------------------- MODULE MCSerialPort ----------------------------
(* A request whose data looks like a header, a response with the longest   *)
(* data, and a request that the message queue refuses.                     *)
EXTENDS SerialPort

MCFrames ==
  {[header |-> HUP_REQ_HDR_H, cmd |-> 5, data |-> <<170>>],
   [header |-> HUP_ACK_HDR_H, cmd |-> 8, data |-> <<4, 0>>],
   [header |-> HUP_REQ_HDR_H, cmd |-> 0, data |-> <<1>>]}
=============================================================================
