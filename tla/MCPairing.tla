----------------------------- MODULE MCPairing -----------------------------
(* What may arrive at a client's serial port: an LED command, a pairing    *)
(* answer and a message to pass through, both addressed to comm_fd.        *)
EXTENDS Pairing

Typed(cmd) == [cmd |-> cmd, fd |-> CommFd, serial |-> TRUE]
MCSerialInput == {Typed(1), Typed(DETECT_REQUEST), Typed(UART_PASS_THROUGH)}
=============================================================================
