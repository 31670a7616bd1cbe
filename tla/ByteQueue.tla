----------------------------- MODULE ByteQueue -----------------------------
(***************************************************************************)
(* What utility/fifo promises the two threads that share one buffer_fifo:  *)
(* a bounded first-in first-out queue of bytes.  The writing thread hands  *)
(* over the bytes of one buffer_fifo_write call one after the other, the   *)
(* reading thread takes the oldest byte, and nothing else ever changes.    *)
(***************************************************************************)
EXTENDS Naturals, Sequences

CONSTANTS
  Capacity,   \* the number of bytes the queue can hold
  Bytes       \* the values of a byte

VARIABLES
  queue,      \* the bytes handed over and not yet taken, oldest first
  pending,    \* the bytes of the current or last write call not handed over
  taken       \* the byte the reading thread took last

vars == <<queue, pending, taken>>

Init ==
  /\ queue = <<>>
  /\ pending = <<>>
  /\ taken \in Bytes

\* A write call begins: the bytes left over from the last one are forgotten.
Offer ==
  /\ pending' \in Seq(Bytes) \ {<<>>}
  /\ UNCHANGED <<queue, taken>>

\* The writing thread appends its next byte; never to a full queue.
Put ==
  /\ pending # <<>>
  /\ Len(queue) < Capacity
  /\ queue' = Append(queue, Head(pending))
  /\ pending' = Tail(pending)
  /\ UNCHANGED taken

\* The reading thread takes the oldest byte.
Take ==
  /\ queue # <<>>
  /\ taken' = Head(queue)
  /\ queue' = Tail(queue)
  /\ UNCHANGED pending

Next == Offer \/ Put \/ Take

Spec == Init /\ [][Next]_vars
=============================================================================
