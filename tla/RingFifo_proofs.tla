--------------------------- MODULE RingFifo_proofs ---------------------------
(***************************************************************************)
(* Proofs about RingFifo for every size, every set of bytes and every      *)
(* length of the calls.  The only facts about % are the three lemmas; with *)
(* them every obligation is linear arithmetic over the slots.              *)
(***************************************************************************)
EXTENDS RingFifo, SequenceTheorems, TLAPS

\* The remainder of a slot number, of the next one and of a difference.
LEMMA NextSlot ==
  ASSUME NEW i \in Slots, NEW k \in 0 .. Size
  PROVE  (i + k) % Size = IF i + k < Size THEN i + k ELSE i + k - Size
BY SizeAssumption, SMT DEF Slots

\* (write - read) & size_mark counts the slots from read up to write.
LEMMA SlotDistance ==
  ASSUME NEW r \in Slots, NEW w \in Slots
  PROVE  (w - r) % Size = IF r <= w THEN w - r ELSE w - r + Size
BY SizeAssumption, SMT DEF Slots

-----------------------------------------------------------------------------
\* The inductive invariant: what each thread knows between its test and the
\* step the test was made for, although the other thread moves meanwhile.
RoomTested ==
  wpc \in {"store", "advance"} => ring_fifo_data_number < Size - 1

ByteTested ==
  /\ rpc \in {"load", "advance"} => read # write
  /\ rpc = "test" /\ count = 0 => read # write

TodoFits ==
  /\ wpc # "idle" => todo # <<>> /\ Len(todo) <= Size - ring_fifo_data_number
  /\ wpc = "idle" /\ ret = 0 => Len(todo) <= 1

IndInv == TypeOK /\ RoomTested /\ ByteTested /\ TodoFits

\* Both threads start outside any call, with an empty ring.
LEMMA InitIndInv == Init => IndInv
<1> SUFFICES ASSUME Init PROVE IndInv
  OBVIOUS
<1>1. TypeOK
  BY SizeAssumption, SMT DEF Init, TypeOK, Slots
<1>2. RoomTested /\ ByteTested /\ TodoFits
  BY SMT DEF Init, RoomTested, ByteTested, TodoFits
<1> QED
  BY <1>1, <1>2 DEF IndInv

\* A request is a non-empty sequence of bytes.
LEMMA RequestsAreSequences ==
  ASSUME NEW bytes \in Requests
  PROVE  bytes \in Seq(Bytes) /\ bytes # <<>>
BY RequestAssumption, SMT DEF Requests


\* A step that moves neither index keeps the number of bytes.
LEMMA NumberOfBytes ==
  ASSUME TypeOK
  PROVE  /\ ring_fifo_data_number \in 0 .. Size - 1
         /\ ring_fifo_data_number = 0 <=> read = write
         /\ read <= write => ring_fifo_data_number = write - read
         /\ read > write => ring_fifo_data_number = write - read + Size
<1>1. read \in Slots /\ write \in Slots
  BY DEF TypeOK
<1>2. ring_fifo_data_number = IF read <= write THEN write - read
                                               ELSE write - read + Size
  BY <1>1, SlotDistance DEF ring_fifo_data_number
<1> QED
  BY <1>1, <1>2, SizeAssumption, SMT DEF Slots

\* A step of the writing thread adds a byte, a step of the reading thread
\* takes one away.
LEMMA IndexMoves ==
  ASSUME TypeOK
  PROVE  LET next(i) == (i + 1) % Size
             n == ring_fifo_data_number
         IN  /\ next(write) \in Slots /\ next(read) \in Slots
             /\ n < Size - 1 => (next(write) - read) % Size = n + 1
             /\ n > 0 => (write - next(read)) % Size = n - 1
             /\ n < Size - 1 => next(write) # read
<1> DEFINE next(i) == IF i + 1 < Size THEN i + 1 ELSE 0
<1>1. read \in Slots /\ write \in Slots
  BY DEF TypeOK
<1>2. /\ (write + 1) % Size = next(write)
      /\ (read + 1) % Size = next(read)
  <2>1. 1 \in 0 .. Size
    BY SizeAssumption
  <2>2. \A i \in Slots : (i + 1) % Size = IF i + 1 < Size THEN i + 1
                                                        ELSE i + 1 - Size
    BY <2>1, NextSlot
  <2>3. \A i \in Slots : (i + 1) % Size = next(i)
    BY <2>2, SizeAssumption DEF Slots
  <2> QED
    BY <1>1, <2>3
<1>3. next(write) \in Slots /\ next(read) \in Slots
  BY <1>1, SizeAssumption, SMT DEF Slots
<1>4. /\ (next(write) - read) % Size = IF read <= next(write)
                                         THEN next(write) - read
                                         ELSE next(write) - read + Size
      /\ (write - next(read)) % Size = IF next(read) <= write
                                         THEN write - next(read)
                                         ELSE write - next(read) + Size
  BY <1>1, <1>3, SlotDistance
<1> HIDE DEF next
<1>5. LET n == ring_fifo_data_number
      IN  /\ n < Size - 1 => (next(write) - read) % Size = n + 1
          /\ n > 0 => (write - next(read)) % Size = n - 1
          /\ n < Size - 1 => next(write) # read
  BY <1>1, <1>4, NumberOfBytes, SizeAssumption, SMT DEF Slots, next
<1> QED
  BY <1>2, <1>3, <1>5, Zenon

-----------------------------------------------------------------------------
\* One step of either thread.
LEMMA StepIndInv == IndInv /\ [Next]_vars => IndInv'
<1> SUFFICES ASSUME IndInv, [Next]_vars PROVE IndInv'
  OBVIOUS
<1>0. TypeOK /\ RoomTested /\ ByteTested /\ TodoFits
  BY DEF IndInv
<1> USE <1>0, NumberOfBytes
<1>1. ASSUME NEW bytes \in Requests, WriteCall(bytes) PROVE IndInv'
  <2>1. TypeOK'
    BY <1>1, RequestsAreSequences DEF WriteCall, ring, reader, TypeOK
  <2>2. ring_fifo_data_number' = ring_fifo_data_number
    BY <1>1 DEF WriteCall, ring, ring_fifo_data_number
  <2>3. RoomTested' /\ ByteTested'
    BY <1>1 DEF WriteCall, ring, reader, RoomTested, ByteTested
  <2>4. TodoFits'
    <3>1. CASE Len(bytes) > Size - ring_fifo_data_number
      BY <1>1, <3>1 DEF WriteCall, TodoFits
    <3>2. CASE ~(Len(bytes) > Size - ring_fifo_data_number)
      <4>1. Len(bytes) \in Nat /\ bytes # <<>>
        BY RequestsAreSequences
      <4>2. Len(bytes) <= Size - ring_fifo_data_number
        BY <3>2, <4>1, SizeAssumption
      <4>3. wpc' = "test" /\ todo' = bytes
        BY <1>1, <3>2 DEF WriteCall
      <4> QED
        BY <2>2, <4>1, <4>2, <4>3 DEF TodoFits
    <3> QED
      BY <3>1, <3>2
  <2> QED
    BY <2>1, <2>3, <2>4 DEF IndInv
<1>2. CASE WriteTest
  <2>1. TypeOK'
    BY <1>2 DEF WriteTest, ring, reader, TypeOK
  <2>2. ring_fifo_data_number' = ring_fifo_data_number
    BY <1>2 DEF WriteTest, ring, ring_fifo_data_number
  <2>3. (RoomTested /\ ByteTested /\ TodoFits)'
    BY <1>2, <2>2, SizeAssumption
       DEF WriteTest, ring, reader, RoomTested, ByteTested, TodoFits,
           ring_fifo_is_full, TypeOK
  <2> QED
    BY <2>1, <2>3 DEF IndInv
<1>3. CASE WriteStore
  <2>1. TypeOK'
    <3>1. Head(todo) \in Bytes
      BY <1>3 DEF WriteStore, TypeOK, TodoFits
    <3> QED
      BY <1>3, <3>1 DEF WriteStore, reader, TypeOK
  <2>2. ring_fifo_data_number' = ring_fifo_data_number
    BY <1>3 DEF WriteStore, ring_fifo_data_number
  <2>3. (RoomTested /\ ByteTested /\ TodoFits)'
    BY <1>3, <2>2 DEF WriteStore, reader, RoomTested, ByteTested, TodoFits
  <2> QED
    BY <2>1, <2>3 DEF IndInv
<1>4. CASE WriteAdvance
  <2>1. todo # <<>> /\ Len(todo) <= Size - ring_fifo_data_number
        /\ ring_fifo_data_number < Size - 1
    BY <1>4 DEF WriteAdvance, RoomTested, TodoFits
  <2>2. /\ write' \in Slots /\ write' # read
        /\ ring_fifo_data_number' = ring_fifo_data_number + 1
    BY <1>4, <2>1, IndexMoves DEF WriteAdvance, ring_fifo_data_number
  <2>3. todo' \in Seq(Bytes) /\ Len(todo') = Len(todo) - 1
    BY <1>4, <2>1 DEF WriteAdvance, TypeOK
  <2>4. TypeOK'
    BY <1>4, <2>2, <2>3 DEF WriteAdvance, reader, TypeOK
  <2>5. RoomTested' /\ ByteTested'
    BY <1>4, <2>2 DEF WriteAdvance, reader, RoomTested, ByteTested
  <2>6. TodoFits'
    <3>1. Len(todo) \in Nat \ {0}
      BY <2>1 DEF TypeOK
    <3>2. CASE Len(todo) = 1
      BY <1>4, <2>3, <3>2 DEF WriteAdvance, TodoFits
    <3>3. CASE Len(todo) # 1
      <4>1. wpc' = "test" /\ Len(todo') <= Size - ring_fifo_data_number'
        BY <1>4, <2>1, <2>2, <2>3, <3>1, <3>3, SizeAssumption DEF WriteAdvance
      <4>2. todo' # <<>>
        BY <2>3, <3>1, <3>3
      <4> QED
        BY <4>1, <4>2 DEF TodoFits
    <3> QED
      BY <3>2, <3>3
  <2> QED
    BY <2>4, <2>5, <2>6 DEF IndInv
<1>5. ASSUME NEW i \in Slots, Drain(i) PROVE IndInv'
  <2>1. TypeOK'
    BY <1>5 DEF Drain, writer, reader, TypeOK
  <2>2. (RoomTested /\ ByteTested /\ TodoFits)'
    BY <1>5 DEF Drain, writer, reader, RoomTested, ByteTested, TodoFits,
                ring_fifo_data_number
  <2> QED
    BY <2>1, <2>2 DEF IndInv
<1>6. ASSUME NEW size \in 1 .. MaxRead, ReadCall(size) PROVE IndInv'
  <2>1. TypeOK'
    BY <1>6, RequestAssumption DEF ReadCall, ring, writer, TypeOK
  <2>2. (RoomTested /\ ByteTested /\ TodoFits)'
    BY <1>6 DEF ReadCall, ring, writer, RoomTested, ByteTested, TodoFits,
                ring_fifo_data_number, ring_fifo_is_empty
  <2> QED
    BY <2>1, <2>2 DEF IndInv
<1>7. CASE ReadTest
  <2>1. TypeOK'
    BY <1>7 DEF ReadTest, ring, writer, TypeOK
  <2>2. (RoomTested /\ ByteTested /\ TodoFits)'
    BY <1>7 DEF ReadTest, ring, writer, RoomTested, ByteTested, TodoFits,
                ring_fifo_data_number, ring_fifo_is_empty
  <2> QED
    BY <2>1, <2>2 DEF IndInv
<1>8. CASE ReadLoad
  <2>1. TypeOK'
    BY <1>8 DEF ReadLoad, ring, writer, TypeOK
  <2>2. (RoomTested /\ ByteTested /\ TodoFits)'
    BY <1>8 DEF ReadLoad, ring, writer, RoomTested, ByteTested, TodoFits,
                ring_fifo_data_number
  <2> QED
    BY <2>1, <2>2 DEF IndInv
<1>9. CASE ReadAdvance
  <2>1. ring_fifo_data_number \in 1 .. Size - 1
    BY <1>9, SizeAssumption DEF ReadAdvance, ByteTested
  <2>2. /\ read' \in Slots
        /\ ring_fifo_data_number' = ring_fifo_data_number - 1
    BY <1>9, <2>1, IndexMoves, SizeAssumption
       DEF ReadAdvance, ring_fifo_data_number
  <2>3. TypeOK'
    BY <1>9, <2>2 DEF ReadAdvance, writer, TypeOK
  <2>4. RoomTested' /\ TodoFits'
    BY <1>9, <2>1, <2>2, SizeAssumption
       DEF ReadAdvance, writer, RoomTested, TodoFits, TypeOK
  <2>5. ByteTested'
    BY <1>9 DEF ReadAdvance, ByteTested, TypeOK
  <2> QED
    BY <2>3, <2>4, <2>5 DEF IndInv
<1>10. CASE UNCHANGED vars
  BY <1>10 DEF vars, ring, writer, reader, IndInv, TypeOK, RoomTested,
               ByteTested, TodoFits, ring_fifo_data_number
<1> QED
  BY <1>1, <1>2, <1>3, <1>4, <1>5, <1>6, <1>7, <1>8, <1>9, <1>10
     DEF Next, WriteStep, ReadStep

-----------------------------------------------------------------------------
\* Each thread keeps what its tests have established, for any memory order.
THEOREM Invariance == Spec => []IndInv
BY InitIndInv, StepIndInv, PTL DEF Spec

\* Every variable of the ring keeps its type: in particular the indices never
\* leave the allocated buffer.
THEOREM TypeCorrect == Spec => []TypeOK
BY Invariance, PTL DEF IndInv

\* The two threads of ring_buffer_fifo.c are never at the same slot.
THEOREM ThreadsApart == Spec => []SlotsDisjoint
<1>1. IndInv => SlotsDisjoint
  BY DEF IndInv, ByteTested, SlotsDisjoint
<1> QED
  BY <1>1, Invariance, PTL

\* buffer_fifo_read returns 0 only with a byte.
THEOREM ReadReturnsByte == Spec => []ReadZeroMeansByte
<1>1. IndInv => ReadZeroMeansByte
  BY DEF IndInv, ByteTested, ReadZeroMeansByte, ring_fifo_is_empty
<1> QED
  BY <1>1, Invariance, PTL

\* buffer_fifo_write that returns 0 drops at most the last byte.
THEOREM CutAtMostOne == Spec => []OnlyLastByteCut
<1>1. IndInv => OnlyLastByteCut
  BY DEF IndInv, TodoFits, OnlyLastByteCut
<1> QED
  BY <1>1, Invariance, PTL

-----------------------------------------------------------------------------
\* When stores become visible in order nothing is ever delayed, the byte is in
\* its slot before the index covers it, and the byte copied out is the slot's.
InOrder ==
  /\ \A i \in Slots : delayed[i] = NoByte
  /\ wpc = "advance" => buffer[write] = Head(todo)
  /\ rpc = "advance" => byte = buffer[read]

LEMMA StepInOrder ==
  ASSUME StoresInOrder, IndInv, InOrder, [Next]_vars
  PROVE  InOrder'
<1> USE DEF InOrder
<1>0. TypeOK /\ RoomTested /\ ByteTested /\ TodoFits
  BY DEF IndInv
<1>1. ASSUME NEW bytes \in Requests, WriteCall(bytes) PROVE InOrder'
  BY <1>1 DEF WriteCall, ring, reader
<1>2. CASE WriteTest
  BY <1>2 DEF WriteTest, ring, reader
<1>3. CASE WriteStore
  <2>1. /\ buffer' = [buffer EXCEPT ![write] = Head(todo)]
        /\ delayed' = [delayed EXCEPT ![write] = NoByte]
    BY <1>3 DEF WriteStore
  <2>2. rpc = "advance" => read # write
    BY <1>0 DEF ByteTested
  <2> QED
    BY <1>0, <1>3, <2>1, <2>2 DEF WriteStore, reader, TypeOK
<1>4. CASE WriteAdvance
  BY <1>4 DEF WriteAdvance, reader
<1>5. ASSUME NEW i \in Slots, Drain(i) PROVE InOrder'
  BY <1>5 DEF Drain
<1>6. ASSUME NEW size \in 1 .. MaxRead, ReadCall(size) PROVE InOrder'
  BY <1>6 DEF ReadCall, ring, writer
<1>7. CASE ReadTest
  BY <1>7 DEF ReadTest, ring, writer
<1>8. CASE ReadLoad
  BY <1>8 DEF ReadLoad, ring, writer
<1>9. CASE ReadAdvance
  BY <1>9 DEF ReadAdvance, writer
<1>10. CASE UNCHANGED vars
  BY <1>10 DEF vars, ring, writer, reader
<1> QED
  BY <1>1, <1>2, <1>3, <1>4, <1>5, <1>6, <1>7, <1>8, <1>9, <1>10
     DEF Next, WriteStep, ReadStep

LEMMA InvarianceInOrder == ASSUME StoresInOrder PROVE Spec => []InOrder
<1>1. Init => InOrder
  BY DEF Init, InOrder
<1>2. IndInv /\ InOrder /\ [Next]_vars => InOrder'
  BY StepInOrder
<1> QED
  BY <1>1, <1>2, Invariance, PTL DEF Spec

\* On a machine that keeps the order of stores the reading thread copies out
\* what the writing thread put into the slot.
THEOREM CopiedInOrder ==
  ASSUME StoresInOrder PROVE Spec => []CopiedByteWasWritten
<1>1. IndInv /\ InOrder => CopiedByteWasWritten
  BY DEF IndInv, TypeOK, InOrder, CopiedByteWasWritten, Stored
<1> QED
  BY <1>1, Invariance, InvarianceInOrder, PTL

-----------------------------------------------------------------------------
\* The ring implements the byte queue.  The queue's contents are the slots
\* from read up to write, without the byte the reading thread has copied out.
First == IF rpc = "advance" THEN 1 ELSE 0

\* The slots in use are not the one the writing thread fills next.
LEMMA SlotsInUse ==
  ASSUME TypeOK, NEW j \in 0 .. ring_fifo_data_number - 1
  PROVE  /\ (read + j) % Size \in Slots
         /\ (read + j) % Size # write
<1>1. read \in Slots /\ write \in Slots /\ j \in 0 .. Size
  BY NumberOfBytes, SizeAssumption DEF TypeOK
<1>2. (read + j) % Size = IF read + j < Size THEN read + j ELSE read + j - Size
  BY <1>1, NextSlot
<1> QED
  BY <1>1, <1>2, NumberOfBytes, SizeAssumption DEF Slots

\* One slot after another: the j-th slot after the next one is the (j+1)-th.
LEMMA SlotShift ==
  ASSUME TypeOK, NEW j \in 0 .. Size - 1
  PROVE  (((read + 1) % Size) + j) % Size = (read + (j + 1)) % Size
<1>1. read \in Slots /\ 1 \in 0 .. Size /\ j \in 0 .. Size /\ j + 1 \in 0 .. Size
  BY SizeAssumption DEF TypeOK
<1>2. (read + 1) % Size = IF read + 1 < Size THEN read + 1 ELSE read + 1 - Size
  BY <1>1, NextSlot
<1>3. (read + (j + 1)) % Size = IF read + (j + 1) < Size
                                  THEN read + (j + 1)
                                  ELSE read + (j + 1) - Size
  BY <1>1, NextSlot
<1> DEFINE r == (read + 1) % Size
<1>4. r \in Slots
  BY <1>1, <1>2, SizeAssumption DEF Slots
<1>5. (r + j) % Size = IF r + j < Size THEN r + j ELSE r + j - Size
  BY <1>1, <1>4, NextSlot
<1> QED
  BY <1>1, <1>2, <1>3, <1>5, SizeAssumption DEF Slots

\* The slot after the last one in use is the one at write.
LEMMA SlotAtWrite ==
  ASSUME TypeOK
  PROVE  (read + ring_fifo_data_number) % Size = write
<1>1. read \in Slots /\ write \in Slots /\ ring_fifo_data_number \in 0 .. Size
  BY NumberOfBytes, SizeAssumption DEF TypeOK
<1>2. (read + ring_fifo_data_number) % Size =
        IF read + ring_fifo_data_number < Size
          THEN read + ring_fifo_data_number
          ELSE read + ring_fifo_data_number - Size
  BY <1>1, NextSlot
<1> QED
  BY <1>1, <1>2, NumberOfBytes, SizeAssumption DEF Slots

ContentsShape ==
  /\ Contents \in Seq(Bytes)
  /\ Len(Contents) = ring_fifo_data_number - First
  /\ \A k \in 1 .. Len(Contents) :
       Contents[k] = buffer[(read + (First + k - 1)) % Size]

\* The contents are as many bytes of the slots from read on.
LEMMA ContentsAreBytes == IndInv /\ InOrder => ContentsShape
<1> SUFFICES ASSUME IndInv, InOrder PROVE ContentsShape
  OBVIOUS
<1> DEFINE left == ring_fifo_data_number - First
<1>1. TypeOK /\ ByteTested
  BY DEF IndInv
<1>2. left \in Nat /\ First \in {0, 1} /\ ring_fifo_data_number \in Nat
  BY <1>1, NumberOfBytes, SizeAssumption DEF ByteTested, First
<1> DEFINE slot(k) == (read + (First + k - 1)) % Size
<1>3. ASSUME NEW k \in 1 .. left
      PROVE  Stored(slot(k)) \in Bytes /\ Stored(slot(k)) = buffer[slot(k)]
  <2>1. First + k - 1 \in 0 .. ring_fifo_data_number - 1
    BY <1>2
  <2>2. slot(k) \in Slots
    BY <1>1, <2>1, SlotsInUse
  <2> QED
    BY <1>1, <2>2 DEF TypeOK, InOrder, Stored
<1>4. Contents = [k \in 1 .. left |-> Stored(slot(k))]
  BY DEF Contents, First
<1> HIDE DEF slot, left
<1>5. Contents \in Seq(Bytes) /\ Len(Contents) = left
  BY <1>2, <1>3, <1>4
<1>6. \A k \in 1 .. left : Contents[k] = buffer[slot(k)]
  BY <1>3, <1>4
<1> QED
  BY <1>5, <1>6 DEF slot, left, ContentsShape

\* ... after a step as before it.
LEMMA ContentsAreBytesNext == IndInv' /\ InOrder' => ContentsShape'
BY ContentsAreBytes, PTL

\* A step that touches neither the indices, the slots nor the reader's place
\* leaves the queue alone.
LEMMA ContentsUnchanged ==
  ASSUME UNCHANGED ring, (rpc = "advance")' = (rpc = "advance")
  PROVE  Contents' = Contents
BY DEF ring, Contents, Stored, ring_fifo_data_number

\* Storing the next byte does not show: its slot is not in use.
LEMMA StoreIsHidden ==
  ASSUME StoresInOrder, IndInv, InOrder, IndInv', InOrder', WriteStore
  PROVE  Contents' = Contents
<1>0. ContentsShape /\ ContentsShape'
  BY ContentsAreBytes, ContentsAreBytesNext
<1>1. TypeOK /\ ByteTested /\ TypeOK'
  BY DEF IndInv
<1>2. First' = First /\ ring_fifo_data_number' = ring_fifo_data_number
  BY DEF WriteStore, reader, First, ring_fifo_data_number
<1>3. Contents \in Seq(Bytes) /\ Contents' \in Seq(Bytes)
      /\ Len(Contents') = Len(Contents)
  BY <1>2, <1>0 DEF ContentsShape
<1>4. ASSUME NEW k \in 1 .. Len(Contents) PROVE Contents'[k] = Contents[k]
  <2> DEFINE slot == (read + (First + k - 1)) % Size
  <2>1. First + k - 1 \in 0 .. ring_fifo_data_number - 1
    <3>1. Len(Contents) = ring_fifo_data_number - First
      BY <1>0 DEF ContentsShape
    <3>2. First \in {0, 1} /\ ring_fifo_data_number \in Nat
      BY <1>1, NumberOfBytes, SizeAssumption DEF First
    <3> QED
      BY <3>1, <3>2
  <2>2. slot \in Slots /\ slot # write
    BY <1>1, <2>1, SlotsInUse
  <2>3. Contents[k] = buffer[slot]
    BY <1>0 DEF ContentsShape
  <2>4. Contents'[k] = buffer'[slot]
    <3>1. Contents'[k] = buffer'[(read' + (First' + k - 1)) % Size]
      BY <1>3, <1>0 DEF ContentsShape
    <3> QED
      BY <1>2, <3>1 DEF WriteStore
  <2>5. buffer'[slot] = buffer[slot]
    BY <1>1, <2>2 DEF WriteStore, TypeOK
  <2> QED
    BY <2>3, <2>4, <2>5
<1> QED
  BY <1>3, <1>4, SeqEqual

\* Moving write appends the byte just stored.
LEMMA AdvanceAppends ==
  ASSUME StoresInOrder, IndInv, InOrder, IndInv', InOrder', WriteAdvance
  PROVE  Contents' = Append(Contents, Head(todo))
<1>0. ContentsShape /\ ContentsShape'
  BY ContentsAreBytes, ContentsAreBytesNext
<1>1. TypeOK /\ ByteTested /\ RoomTested /\ TodoFits
  BY DEF IndInv
<1>2. First' = First /\ First \in {0, 1} /\ read' = read /\ buffer' = buffer
  BY DEF WriteAdvance, reader, First
<1>3. ring_fifo_data_number' = ring_fifo_data_number + 1
  BY <1>1, IndexMoves DEF WriteAdvance, RoomTested, ring_fifo_data_number
<1>4. ring_fifo_data_number \in Nat /\ Head(todo) \in Bytes
  BY <1>1, NumberOfBytes, SizeAssumption DEF WriteAdvance, TodoFits, TypeOK
<1>5. /\ Contents \in Seq(Bytes) /\ Contents' \in Seq(Bytes)
      /\ Len(Contents) = ring_fifo_data_number - First
      /\ Len(Contents') = Len(Contents) + 1
  BY <1>2, <1>3, <1>4, <1>0 DEF ContentsShape
<1> DEFINE slot(k) == (read + (First + k - 1)) % Size
<1>6. \A k \in 1 .. Len(Contents) : Contents[k] = buffer[slot(k)]
  BY <1>0 DEF ContentsShape
<1>7. \A k \in 1 .. Len(Contents') : Contents'[k] = buffer[slot(k)]
  <2>1. \A k \in 1 .. Len(Contents') :
          Contents'[k] = buffer'[(read' + (First' + k - 1)) % Size]
    BY <1>0 DEF ContentsShape
  <2> QED
    BY <1>2, <2>1
<1>8. buffer[slot(Len(Contents) + 1)] = Head(todo)
  <2>1. First + (Len(Contents) + 1) - 1 = ring_fifo_data_number
    BY <1>2, <1>4, <1>5
  <2> QED
    BY <1>1, <2>1, SlotAtWrite DEF InOrder, WriteAdvance
<1> HIDE DEF slot
<1>9. ASSUME NEW k \in 1 .. Len(Contents')
      PROVE  Contents'[k] = Append(Contents, Head(todo))[k]
  <2>1. CASE k = Len(Contents) + 1
    BY <1>4, <1>5, <1>7, <1>8, <2>1
  <2>2. CASE k # Len(Contents) + 1
    BY <1>4, <1>5, <1>6, <1>7, <2>2
  <2> QED
    BY <2>1, <2>2
<1>10. /\ Append(Contents, Head(todo)) \in Seq(Bytes)
       /\ Len(Append(Contents, Head(todo))) = Len(Contents')
  BY <1>4, <1>5
<1> QED
  BY <1>5, <1>9, <1>10, SeqEqual

\* Copying a byte out takes the queue's first one.
LEMMA LoadTakes ==
  ASSUME StoresInOrder, IndInv, InOrder, IndInv', InOrder', ReadLoad
  PROVE  /\ Contents # <<>>
         /\ byte' = Head(Contents)
         /\ Contents' = Tail(Contents)
<1>0. ContentsShape /\ ContentsShape'
  BY ContentsAreBytes, ContentsAreBytesNext
<1>1. TypeOK /\ ByteTested
  BY DEF IndInv
<1>2. /\ First = 0 /\ First' = 1 /\ read' = read /\ buffer' = buffer
      /\ ring_fifo_data_number' = ring_fifo_data_number
  BY DEF ReadLoad, ring, First, ring_fifo_data_number
<1>3. ring_fifo_data_number \in Nat \ {0}
  BY <1>1, NumberOfBytes, SizeAssumption DEF ReadLoad, ByteTested
<1>4. /\ Contents \in Seq(Bytes) /\ Contents' \in Seq(Bytes)
      /\ Len(Contents) = ring_fifo_data_number
      /\ Len(Contents') = Len(Contents) - 1
  BY <1>2, <1>3, <1>0 DEF ContentsShape
<1>5. Contents # <<>>
  BY <1>3, <1>4
<1>6. byte' = Head(Contents)
  <2>1. Contents[1] = buffer[(read + (First + 1 - 1)) % Size]
    BY <1>3, <1>4, <1>0 DEF ContentsShape
  <2>2. (read + 0) % Size = read
    <3>1. read \in Slots /\ 0 \in 0 .. Size /\ read + 0 < Size
      BY <1>1, SizeAssumption DEF TypeOK, Slots
    <3>2. (read + 0) % Size = read + 0
      BY <3>1, NextSlot
    <3> QED
      BY <3>1, <3>2 DEF Slots
  <2> QED
    BY <1>2, <1>4, <1>5, <2>1, <2>2 DEF ReadLoad
<1>7. ASSUME NEW k \in 1 .. Len(Contents')
      PROVE  Contents'[k] = Tail(Contents)[k]
  <2>1. k \in Nat /\ k + 1 \in 1 .. Len(Contents)
    BY <1>3, <1>4
  <2>2. Contents'[k] = buffer'[(read' + (First' + k - 1)) % Size]
    BY <1>0 DEF ContentsShape
  <2>3. Contents[k + 1] = buffer[(read + (First + (k + 1) - 1)) % Size]
    BY <2>1, <1>0 DEF ContentsShape
  <2>4. First' + k - 1 = First + (k + 1) - 1
    BY <1>2, <2>1
  <2> QED
    BY <1>2, <1>4, <1>5, <2>1, <2>2, <2>3, <2>4
<1> QED
  BY <1>3, <1>4, <1>5, <1>6, <1>7, SeqEqual

\* Moving read only catches up with the byte already copied out.
LEMMA CatchUpIsHidden ==
  ASSUME StoresInOrder, IndInv, InOrder, IndInv', InOrder', ReadAdvance
  PROVE  Contents' = Contents
<1>0. ContentsShape /\ ContentsShape'
  BY ContentsAreBytes, ContentsAreBytesNext
<1>1. TypeOK /\ ByteTested
  BY DEF IndInv
<1>2. /\ First = 1 /\ First' = 0
      /\ read' = (read + 1) % Size /\ buffer' = buffer
  BY DEF ReadAdvance, First
<1>3. /\ ring_fifo_data_number \in 1 .. Size - 1
      /\ ring_fifo_data_number' = ring_fifo_data_number - 1
  BY <1>1, NumberOfBytes, IndexMoves, SizeAssumption
     DEF ReadAdvance, ByteTested, ring_fifo_data_number
<1>4. /\ Contents \in Seq(Bytes) /\ Contents' \in Seq(Bytes)
      /\ Len(Contents) = ring_fifo_data_number - 1
      /\ Len(Contents') = Len(Contents)
  BY <1>0, <1>2, <1>3, SizeAssumption DEF ContentsShape
<1>5. ASSUME NEW k \in 1 .. Len(Contents) PROVE Contents'[k] = Contents[k]
  <2>1. k - 1 \in 0 .. Size - 1 /\ (k - 1) + 1 = First + k - 1
        /\ First' + k - 1 = k - 1
    BY <1>2, <1>3, <1>4, SizeAssumption
  <2>2. (((read + 1) % Size) + (k - 1)) % Size = (read + ((k - 1) + 1)) % Size
    BY <1>1, <2>1, SlotShift
  <2>3. Contents[k] = buffer[(read + (First + k - 1)) % Size]
    BY <1>0 DEF ContentsShape
  <2>4. Contents'[k] = buffer'[(read' + (First' + k - 1)) % Size]
    BY <1>4, <1>0 DEF ContentsShape
  <2> QED
    BY <1>2, <2>1, <2>2, <2>3, <2>4
<1> QED
  BY <1>4, <1>5, SeqEqual

\* Every step of the ring is a step of the queue or changes nothing of it.
LEMMA StepSimulates ==
  ASSUME StoresInOrder, IndInv, InOrder, IndInv', InOrder', [Next]_vars
  PROVE  [Queue!Next]_(Queue!vars)
<1>0. TypeOK /\ RoomTested /\ ByteTested /\ TodoFits
  BY DEF IndInv
<1> USE DEF Queue!vars
<1>1. ASSUME NEW bytes \in Requests, WriteCall(bytes)
      PROVE  Queue!Offer
  <2>1. Contents' = Contents
    BY <1>1, ContentsUnchanged DEF WriteCall, reader
  <2> QED
    BY <1>1, <2>1, RequestsAreSequences DEF WriteCall, reader, Queue!Offer
<1>2. CASE WriteTest
  BY <1>2, ContentsUnchanged DEF WriteTest, reader
<1>3. CASE WriteStore
  BY <1>3, StoreIsHidden DEF WriteStore, reader
<1>4. ASSUME WriteAdvance PROVE Queue!Put
  <2>1. Contents' = Append(Contents, Head(todo))
    BY <1>4, AdvanceAppends
  <2>2. todo # <<>> /\ ring_fifo_data_number < Size - 1
    BY <1>0, <1>4 DEF WriteAdvance, TodoFits, RoomTested
  <2>3. Len(Contents) < Size - 1
    <3>1. Len(Contents) = ring_fifo_data_number - First
      BY ContentsAreBytes DEF ContentsShape
    <3>2. ring_fifo_data_number \in Nat /\ First \in {0, 1}
      BY <1>0, NumberOfBytes, SizeAssumption DEF First
    <3> QED
      BY <2>2, <3>1, <3>2, SizeAssumption
  <2> QED
    BY <1>4, <2>1, <2>2, <2>3 DEF WriteAdvance, reader, Queue!Put
<1>5. ASSUME NEW i \in Slots, Drain(i) PROVE FALSE
  BY <1>5 DEF Drain, InOrder
<1>6. ASSUME NEW size \in 1 .. MaxRead, ReadCall(size)
      PROVE  UNCHANGED Queue!vars
  <2>1. Contents' = Contents
    BY <1>6, ContentsUnchanged DEF ReadCall
  <2> QED
    BY <1>6, <2>1 DEF ReadCall, writer
<1>7. CASE ReadTest
  <2>1. Contents' = Contents
    <3>1. rpc = "test" /\ rpc' \in {"idle", "load"}
      BY <1>7 DEF ReadTest
    <3> QED
      BY <1>7, <3>1, ContentsUnchanged DEF ReadTest
  <2> QED
    BY <1>7, <2>1 DEF ReadTest, writer
<1>8. ASSUME ReadLoad PROVE Queue!Take
  BY <1>8, LoadTakes DEF ReadLoad, writer, Queue!Take
<1>9. CASE ReadAdvance
  BY <1>9, CatchUpIsHidden DEF ReadAdvance, writer
<1>10. CASE UNCHANGED vars
  BY <1>10, ContentsUnchanged DEF vars, writer, reader
<1> QED
  BY <1>1, <1>2, <1>3, <1>4, <1>5, <1>6, <1>7, <1>8, <1>9, <1>10
     DEF Next, WriteStep, ReadStep, Queue!Next

LEMMA InitSimulates == Init => Queue!Init
<1> SUFFICES ASSUME Init PROVE Queue!Init
  OBVIOUS
<1>1. IndInv /\ InOrder
  BY InitIndInv DEF Init, InOrder
<1>2. Contents = <<>>
  <2>1. ring_fifo_data_number = 0
    BY <1>1, NumberOfBytes DEF Init, IndInv
  <2>2. Contents \in Seq(Bytes) /\ Len(Contents) = 0
    BY <1>1, <2>1, ContentsAreBytes DEF ContentsShape, First, Init
  <2> QED
    BY <2>2
<1> QED
  BY <1>2 DEF Init, Queue!Init

\* Where stores become visible in order, the ring is a first-in first-out
\* queue that holds Size - 1 bytes, for every size and every use of it by one
\* writing and one reading thread.
THEOREM RingIsByteQueue == ASSUME StoresInOrder PROVE Spec => IsByteQueue
<1>1. IndInv /\ InOrder /\ IndInv' /\ InOrder' /\ [Next]_vars
        => [Queue!Next]_(Queue!vars)
  BY StepSimulates
<1> QED
  BY <1>1, InitSimulates, Invariance, InvarianceInOrder, PTL
     DEF Spec, IsByteQueue, Queue!Spec
=============================================================================
