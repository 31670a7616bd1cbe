------------------------------ MODULE RingFifo ------------------------------
(***************************************************************************)
(* utility/fifo/ring_buffer_fifo.c: the byte ring between one writing and  *)
(* one reading thread (the socket thread and the HIP parsing thread, or    *)
(* two of the serial port's threads).  There is no lock and no atomic: the *)
(* threads share read, write and buffer, and every access to a variable of *)
(* the other thread is a step of its own here.                             *)
(*                                                                         *)
(* The stores of the writing thread reach the reading thread in program    *)
(* order on x86 (the server's build).  Nothing in the code orders them on  *)
(* ARM (the client's build): with StoresInOrder = FALSE the store of a     *)
(* byte may become visible after the store of the index.                   *)
(*                                                                         *)
(* The definitions named Mutant... are not part of the model: each is the   *)
(* definition that follows it with a mistake in it, and shows which        *)
(* property notices.                                                       *)
(***************************************************************************)
EXTENDS Integers, Sequences

CONSTANTS
  Size,           \* the size given to buffer_fifo_init (a power of two)
  Bytes,          \* the values of a byte
  NoByte,         \* no store of this slot is waiting to become visible
  MaxWrite,       \* the longest buffer given to buffer_fifo_write
  MaxRead,        \* the largest size given to buffer_fifo_read
  StoresInOrder   \* TRUE on x86, FALSE on ARM

ASSUME SizeAssumption == Size \in Nat /\ Size >= 2
ASSUME BytesAssumption == Bytes # {} /\ NoByte \notin Bytes
ASSUME RequestAssumption == MaxWrite \in Nat /\ MaxRead \in Nat
ASSUME OrderAssumption == StoresInOrder \in BOOLEAN

VARIABLES
  read, write, buffer,  \* the fields of buffer_fifo_t
  delayed,  \* slot |-> the byte stored there that the reader cannot see yet
  wpc,      \* where the writing thread is
  todo,     \* the bytes of the current or last write call not stored
  ret,      \* what the last buffer_fifo_write returned
  rpc,      \* where the reading thread is
  want,     \* the size of the current buffer_fifo_read
  count,    \* how many of them it has read
  byte      \* the last byte it copied out

ring   == <<read, write, buffer, delayed>>
writer == <<wpc, todo, ret>>
reader == <<rpc, want, count, byte>>
vars   == <<ring, writer, reader>>

Slots == 0 .. Size - 1

\* (write - read) & size_mark, which is the remainder for a power of two.
ring_fifo_data_number == (write - read) % Size

MutantNeverFull == FALSE

ring_fifo_is_full == ring_fifo_data_number = Size - 1

ring_fifo_is_empty == write = read

\* The byte the writing thread put in a slot, visible or not.
Stored(i) == IF delayed[i] = NoByte THEN buffer[i] ELSE delayed[i]

TypeOK ==
  /\ read \in Slots /\ write \in Slots
  /\ buffer \in [Slots -> Bytes]
  /\ delayed \in [Slots -> Bytes \cup {NoByte}]
  /\ wpc \in {"idle", "test", "store", "advance"}
  /\ todo \in Seq(Bytes)
  /\ ret \in {-1, 0}
  /\ rpc \in {"idle", "test", "load", "advance"}
  /\ want \in Nat /\ count \in Nat
  /\ byte \in Bytes

\* malloc leaves the buffer's bytes unspecified.
Init ==
  /\ read = 0 /\ write = 0
  /\ buffer \in [Slots -> Bytes]
  /\ delayed = [i \in Slots |-> NoByte]
  /\ wpc = "idle" /\ todo = <<>> /\ ret = 0
  /\ rpc = "idle" /\ want = 0 /\ count = 0
  /\ byte \in Bytes

-----------------------------------------------------------------------------
(* The writing thread: buffer_fifo_write and ring_fifo_single_write.       *)

MutantWriteCall(bytes) ==
  /\ wpc = "idle"
  /\ todo' = bytes
  /\ IF Len(bytes) > Size - ring_fifo_data_number + 1
       THEN ret' = -1 /\ wpc' = "idle"
       ELSE ret' = ret /\ wpc' = "test"
  /\ UNCHANGED <<ring, reader>>

\* The call is refused when it asks for more than Size - data_number bytes.
\* (The ring holds one byte less than Size: see OnlyLastByteCut.)
WriteCall(bytes) ==
  /\ wpc = "idle"
  /\ todo' = bytes
  /\ IF Len(bytes) > Size - ring_fifo_data_number
       THEN ret' = -1 /\ wpc' = "idle"
       ELSE ret' = ret /\ wpc' = "test"
  /\ UNCHANGED <<ring, reader>>

\* A full ring ends the loop; the call returns 0 all the same.
WriteTest ==
  /\ wpc = "test"
  /\ IF ring_fifo_is_full
       THEN wpc' = "idle" /\ ret' = 0
       ELSE wpc' = "store" /\ ret' = ret
  /\ UNCHANGED <<ring, todo, reader>>

MutantWriteStore ==
  /\ wpc = "store"
  /\ wpc' = "advance"
  /\ buffer' = [buffer EXCEPT ![(write + 1) % Size] = Head(todo)]
  /\ UNCHANGED <<read, write, delayed, todo, ret, reader>>

WriteStore ==
  /\ wpc = "store"
  /\ wpc' = "advance"
  /\ \/ /\ buffer' = [buffer EXCEPT ![write] = Head(todo)]
        /\ delayed' = [delayed EXCEPT ![write] = NoByte]
     \/ /\ ~StoresInOrder
        /\ delayed' = [delayed EXCEPT ![write] = Head(todo)]
        /\ UNCHANGED buffer
  /\ UNCHANGED <<read, write, todo, ret, reader>>

MutantWriteAdvance ==
  /\ wpc = "advance"
  /\ write' = write + 1
  /\ todo' = Tail(todo)
  /\ IF Len(todo) = 1
       THEN wpc' = "idle" /\ ret' = 0
       ELSE wpc' = "test" /\ ret' = ret
  /\ UNCHANGED <<read, buffer, delayed, reader>>

WriteAdvance ==
  /\ wpc = "advance"
  /\ write' = (write + 1) % Size
  /\ todo' = Tail(todo)
  /\ IF Len(todo) = 1
       THEN wpc' = "idle" /\ ret' = 0
       ELSE wpc' = "test" /\ ret' = ret
  /\ UNCHANGED <<read, buffer, delayed, reader>>

\* The memory system makes a delayed store visible.
Drain(i) ==
  /\ delayed[i] # NoByte
  /\ buffer' = [buffer EXCEPT ![i] = delayed[i]]
  /\ delayed' = [delayed EXCEPT ![i] = NoByte]
  /\ UNCHANGED <<read, write, writer, reader>>

-----------------------------------------------------------------------------
(* The reading thread: buffer_fifo_read and ring_fifo_single_read.         *)

MutantReadCall(size) ==
  /\ rpc = "idle"
  /\ rpc' = "test" /\ want' = size /\ count' = 0
  /\ UNCHANGED <<ring, writer, byte>>

\* An empty ring: the call returns -1 and nothing changes.
ReadCall(size) ==
  /\ rpc = "idle"
  /\ ~ring_fifo_is_empty
  /\ rpc' = "test" /\ want' = size /\ count' = 0
  /\ UNCHANGED <<ring, writer, byte>>

MutantReadTest ==
  /\ rpc = "test"
  /\ rpc' = IF ring_fifo_data_number <= 1 THEN "idle" ELSE "load"
  /\ UNCHANGED <<ring, writer, want, count, byte>>

ReadTest ==
  /\ rpc = "test"
  /\ rpc' = IF ring_fifo_is_empty THEN "idle" ELSE "load"
  /\ UNCHANGED <<ring, writer, want, count, byte>>

ReadLoad ==
  /\ rpc = "load"
  /\ rpc' = "advance"
  /\ byte' = buffer[read]
  /\ UNCHANGED <<ring, writer, want, count>>

ReadAdvance ==
  /\ rpc = "advance"
  /\ read' = (read + 1) % Size
  /\ count' = count + 1
  /\ rpc' = IF count + 1 < want THEN "test" ELSE "idle"
  /\ UNCHANGED <<write, buffer, delayed, writer, want, byte>>

-----------------------------------------------------------------------------
Requests == UNION {[1 .. n -> Bytes] : n \in 1 .. MaxWrite}

WriteStep ==
  \/ \E bytes \in Requests : WriteCall(bytes)
  \/ WriteTest \/ WriteStore \/ WriteAdvance

ReadStep ==
  \/ \E size \in 1 .. MaxRead : ReadCall(size)
  \/ ReadTest \/ ReadLoad \/ ReadAdvance

Next == WriteStep \/ ReadStep \/ \E i \in Slots : Drain(i)

Spec == Init /\ [][Next]_vars

\* Both threads keep running; the reading thread polls the ring forever
\* (while (commit_flag) buffer_fifo_read(...)), nobody has to write.
FairSpec ==
  /\ Spec
  /\ WF_vars(ReadStep)
  /\ WF_vars(WriteTest \/ WriteStore \/ WriteAdvance)

-----------------------------------------------------------------------------
(* Properties.                                                             *)

\* The two threads never touch the same slot at the same time: while the
\* reader is between its emptiness test and its index update and the writer
\* between its fullness test and its index update, they are at different
\* slots.  This is what makes the ring usable without a lock.
SlotsDisjoint ==
  (rpc \in {"load", "advance"} /\ wpc \in {"store", "advance"}) => read # write

\* A read that got past the first emptiness test finds a byte: a return value
\* of 0 always comes with at least one byte copied out, which
\* handle_hip_parse relies on when it hands the byte to hip_parse.
ReadZeroMeansByte ==
  rpc = "test" /\ count = 0 => ~ring_fifo_is_empty

\* An admitted write loses at most its last byte, whatever the reading thread
\* does in between: the admission test counts one slot too many, never two.
OnlyLastByteCut ==
  wpc = "idle" /\ ret = 0 => Len(todo) <= 1

\* The byte copied out is the one the writing thread put into the slot; on a
\* machine that reorders the writer's stores it may be the slot's last one.
CopiedByteWasWritten ==
  rpc = "advance" => byte = Stored(read)

\* The bytes between read and write, without the one already copied out.
Contents ==
  LET first == IF rpc = "advance" THEN 1 ELSE 0
  IN [k \in 1 .. ring_fifo_data_number - first
        |-> Stored((read + (first + k - 1)) % Size)]

Queue == INSTANCE ByteQueue
           WITH Capacity <- Size - 1, queue <- Contents,
                pending <- todo, taken <- byte

\* The ring is a first-in first-out queue of Size - 1 bytes: every byte is
\* copied out once, in the order written, and none is made up.
IsByteQueue == Queue!Spec

\* A byte in the ring is taken: the read index moves on.
BytesAreTaken ==
  \A i \in Slots : (~ring_fifo_is_empty /\ read = i) ~> read # i

=============================================================================
