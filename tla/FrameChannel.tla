---------------------------- MODULE FrameChannel ----------------------------
(***************************************************************************)
(* What utility/hip promises the two ends of a connection: whole frames    *)
(* arrive, each once, unchanged and in the order they were sent; what was  *)
(* under way when the connection broke is lost, and nothing of it arrives  *)
(* on the next connection.                                                 *)
(***************************************************************************)
EXTENDS Sequences

CONSTANTS
  Frames,    \* the frames as the receiver's handler is to see them
  NoFrame    \* no frame has arrived yet

VARIABLES
  transit,   \* the frames sent and not yet arrived, oldest first
  arrived    \* the frame that arrived last

vars == <<transit, arrived>>

Init == transit = <<>> /\ arrived = NoFrame

Send(f) == transit' = Append(transit, f) /\ UNCHANGED arrived

Arrive ==
  /\ transit # <<>>
  /\ arrived' = Head(transit)
  /\ transit' = Tail(transit)

Break == transit' = <<>> /\ UNCHANGED arrived

Next == (\E f \in Frames : Send(f)) \/ Arrive \/ Break

Spec == Init /\ [][Next]_vars
=============================================================================
