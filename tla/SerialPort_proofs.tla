-------------------------- MODULE SerialPort_proofs --------------------------
(***************************************************************************)
(* The serial port's parser and its buffers, for any frames, noise and     *)
(* damage, and any sizes: the fifo holds at most RSize - 1 bytes and the   *)
(* queue at most its capacity, what is handed over is as long as the frame *)
(* says, and no frame is ever taken for a response.                        *)
(*                                                                         *)
(* The second half shows that the port implements FrameChannel.  What is   *)
(* on its way to the parser is seen as pieces: frames, damaged or not, and *)
(* bytes that are skipped.  The invariant Following says where the pieces  *)
(* begin, which of them are frames in transit, and how far the parser has  *)
(* come in the first one.  The check byte tells the frames from the        *)
(* damaged ones: the exclusive or of all bytes has in each bit whether the *)
(* number of bytes with that bit is odd, so one changed byte changes it.   *)
(***************************************************************************)
EXTENDS SerialPort, SequenceTheorems, FiniteSetTheorems, TLAPS

-----------------------------------------------------------------------------
(* The exclusive or of bytes is a byte, and notices a change of one of them. *)

\* What a bit contributes.
LEMMA BitTyped ==
  ASSUME NEW k \in Nat, NEW x \in Nat
  PROVE  k * (x % 2) \in {0, k}
<1>1. x % 2 = 0 \/ x % 2 = 1
  OBVIOUS
<1>2. CASE x % 2 = 0
  BY <1>2
<1>3. CASE x % 2 = 1
  BY <1>3
<1> QED BY <1>1, <1>2, <1>3

\* Eight bits, each of them there or not.
LEMMA SumTyped ==
  ASSUME NEW b1 \in {0, 1}, NEW b2 \in {0, 2}, NEW b4 \in {0, 4}, NEW b8 \in {0, 8},
         NEW b16 \in {0, 16}, NEW b32 \in {0, 32}, NEW b64 \in {0, 64},
         NEW b128 \in {0, 128}
  PROVE  b1 + b2 + b4 + b8 + b16 + b32 + b64 + b128 \in U8
BY DEF U8

LEMMA XorTyped == ASSUME NEW a \in U8, NEW b \in U8 PROVE Xor(a, b) \in U8
<1> DEFINE bit(k) == k * (((a \div k) + (b \div k)) % 2)
<1>1. ASSUME NEW k \in {1, 2, 4, 8, 16, 32, 64, 128} PROVE bit(k) \in {0, k}
  <2>1. (a \div k) + (b \div k) \in Nat
    BY DEF U8
  <2> QED BY <2>1, BitTyped
<1> HIDE DEF bit
<1>2. bit(1) + bit(2) + bit(4) + bit(8) + bit(16) + bit(32) + bit(64) + bit(128) \in U8
  BY <1>1, SumTyped
<1> QED BY <1>2 DEF Xor, bit

LEMMA XorAllFinite ==
  ASSUME NEW s, IsFiniteSet(DOMAIN s)
  PROVE  XorAll(s) \in U8
<1> DEFINE ones(k) == {i \in DOMAIN s : (s[i] \div k) % 2 = 1}
           bit(k) == k * (Cardinality(ones(k)) % 2)
<1>1. ASSUME NEW k \in {1, 2, 4, 8, 16, 32, 64, 128} PROVE bit(k) \in {0, k}
  <2>1. ones(k) \in SUBSET (DOMAIN s)
    OBVIOUS
  <2> HIDE DEF ones
  <2>2. IsFiniteSet(ones(k))
    BY <2>1, FS_Subset
  <2>3. Cardinality(ones(k)) \in Nat
    BY <2>2, FS_CardinalityType
  <2> QED BY <2>3, BitTyped
<1> HIDE DEF bit, ones
<1>2. bit(1) + bit(2) + bit(4) + bit(8) + bit(16) + bit(32) + bit(64) + bit(128) \in U8
  BY <1>1, SumTyped
<1>3. XorAll(s)
        = bit(1) + bit(2) + bit(4) + bit(8) + bit(16) + bit(32) + bit(64) + bit(128)
  BY Zenon DEF XorAll, bit, ones
<1> QED BY <1>2, <1>3

LEMMA XorAllTyped == ASSUME NEW s \in Seq(U8) PROVE XorAll(s) \in U8
<1>1. DOMAIN s = 1 .. Len(s) /\ Len(s) \in Nat
  OBVIOUS
<1>2. IsFiniteSet(DOMAIN s)
  BY <1>1, FS_Interval
<1> QED BY <1>2, XorAllFinite

\* A byte is the sum of its bits.
LEMMA ByteIsBits ==
  ASSUME NEW x \in U8
  PROVE  x = 1 * ((x \div 1) % 2) + 2 * ((x \div 2) % 2) + 4 * ((x \div 4) % 2)
             + 8 * ((x \div 8) % 2) + 16 * ((x \div 16) % 2) + 32 * ((x \div 32) % 2)
             + 64 * ((x \div 64) % 2) + 128 * ((x \div 128) % 2)
BY SMTT(60) DEF U8

Powers == {1, 2, 4, 8, 16, 32, 64, 128}

\* Where bit k is set, and whether it is set an odd number of times.
Ones(s, k) == {i \in DOMAIN s : (s[i] \div k) % 2 = 1}

Odd(s, k) == Cardinality(Ones(s, k)) % 2

LEMMA OnesFinite ==
  ASSUME NEW s \in Seq(U8), NEW k \in Powers
  PROVE  /\ IsFiniteSet(Ones(s, k)) /\ Cardinality(Ones(s, k)) \in Nat
         /\ Odd(s, k) \in 0 .. 1
<1>1. DOMAIN s = 1 .. Len(s) /\ Len(s) \in Nat
  BY LenProperties
<1>2. IsFiniteSet(DOMAIN s)
  BY <1>1, FS_Interval
<1>3. Ones(s, k) \in SUBSET (DOMAIN s)
  BY DEF Ones
<1>4. IsFiniteSet(Ones(s, k)) /\ Cardinality(Ones(s, k)) \in Nat
  BY <1>2, <1>3, FS_Subset, FS_CardinalityType
<1>5. \A n \in Nat : n % 2 \in 0 .. 1
  OBVIOUS
<1> QED BY <1>4, <1>5 DEF Odd

\* The bits of the exclusive or are those that are set an odd number of times.
LEMMA XorAllBits ==
  ASSUME NEW s \in Seq(U8)
  PROVE  /\ XorAll(s) = 1 * Odd(s, 1) + 2 * Odd(s, 2) + 4 * Odd(s, 4) + 8 * Odd(s, 8)
                        + 16 * Odd(s, 16) + 32 * Odd(s, 32) + 64 * Odd(s, 64)
                        + 128 * Odd(s, 128)
         /\ \A k \in Powers : (XorAll(s) \div k) % 2 = Odd(s, k)
<1>1. XorAll(s) = 1 * Odd(s, 1) + 2 * Odd(s, 2) + 4 * Odd(s, 4) + 8 * Odd(s, 8)
                  + 16 * Odd(s, 16) + 32 * Odd(s, 32) + 64 * Odd(s, 64)
                  + 128 * Odd(s, 128)
  BY Zenon DEF XorAll, Odd, Ones
<1>2. \A k \in Powers : Odd(s, k) \in 0 .. 1
  BY OnesFinite
<1>3. /\ Odd(s, 1) \in 0 .. 1 /\ Odd(s, 2) \in 0 .. 1 /\ Odd(s, 4) \in 0 .. 1
      /\ Odd(s, 8) \in 0 .. 1 /\ Odd(s, 16) \in 0 .. 1 /\ Odd(s, 32) \in 0 .. 1
      /\ Odd(s, 64) \in 0 .. 1 /\ Odd(s, 128) \in 0 .. 1
  BY <1>2 DEF Powers
<1>4. LET x == XorAll(s)
      IN  /\ (x \div 1) % 2 = Odd(s, 1) /\ (x \div 2) % 2 = Odd(s, 2)
          /\ (x \div 4) % 2 = Odd(s, 4) /\ (x \div 8) % 2 = Odd(s, 8)
          /\ (x \div 16) % 2 = Odd(s, 16) /\ (x \div 32) % 2 = Odd(s, 32)
          /\ (x \div 64) % 2 = Odd(s, 64) /\ (x \div 128) % 2 = Odd(s, 128)
  <2>1. PICK c1, c2, c4, c8 \in 0 .. 1 : c1 = Odd(s, 1) /\ c2 = Odd(s, 2)
                                         /\ c4 = Odd(s, 4) /\ c8 = Odd(s, 8)
    BY <1>3
  <2>2. PICK c16, c32, c64, c128 \in 0 .. 1 : c16 = Odd(s, 16) /\ c32 = Odd(s, 32)
                                              /\ c64 = Odd(s, 64) /\ c128 = Odd(s, 128)
    BY <1>3
  <2>3. PICK x : x = XorAll(s)
    OBVIOUS
  <2>4. x = 1 * c1 + 2 * c2 + 4 * c4 + 8 * c8 + 16 * c16 + 32 * c32 + 64 * c64
            + 128 * c128
    BY <1>1, <2>1, <2>2, <2>3
  <2>5. /\ (x \div 1) % 2 = c1 /\ (x \div 2) % 2 = c2
        /\ (x \div 4) % 2 = c4 /\ (x \div 8) % 2 = c8
        /\ (x \div 16) % 2 = c16 /\ (x \div 32) % 2 = c32
        /\ (x \div 64) % 2 = c64 /\ (x \div 128) % 2 = c128
    BY <2>4
  <2> QED BY <2>1, <2>2, <2>3, <2>5
<1> QED BY <1>1, <1>4 DEF Powers

\* One byte more.
LEMMA OddAppend ==
  ASSUME NEW s \in Seq(U8), NEW b \in U8, NEW k \in Powers
  PROVE  Odd(Append(s, b), k) = (Odd(s, k) + (b \div k)) % 2
<1> DEFINE t == Append(s, b)
           n == Len(s) + 1
<1>1. /\ DOMAIN t = DOMAIN s \cup {n} /\ n \notin DOMAIN s
      /\ t[n] = b /\ \A i \in DOMAIN s : t[i] = s[i]
  <2>1. DOMAIN s = 1 .. Len(s) /\ Len(s) \in Nat
    BY LenProperties
  <2>2. /\ t \in Seq(U8) /\ Len(t) = Len(s) + 1 /\ t[Len(s) + 1] = b
        /\ \A i \in 1 .. Len(s) : t[i] = s[i]
    BY AppendProperties
  <2>3. DOMAIN t = 1 .. Len(s) + 1
    BY <2>2, LenProperties
  <2> QED BY <2>1, <2>2, <2>3
<1> HIDE DEF t, n
<1>2. IsFiniteSet(Ones(s, k)) /\ Cardinality(Ones(s, k)) \in Nat
  BY OnesFinite
<1>3. b \div k \in Nat
  BY DEF U8, Powers
<1>4. \A c, d \in Nat : /\ d % 2 = 0 \/ d % 2 = 1
                        /\ d % 2 = 1 => (c + 1) % 2 = ((c % 2) + d) % 2
                        /\ d % 2 # 1 => c % 2 = ((c % 2) + d) % 2
  OBVIOUS
<1>5. CASE (b \div k) % 2 = 1
  <2>1. Ones(t, k) = Ones(s, k) \cup {n} /\ n \notin Ones(s, k)
    BY <1>1, <1>5 DEF Ones
  <2>2. Cardinality(Ones(t, k)) = Cardinality(Ones(s, k)) + 1
    BY <1>2, <2>1, FS_AddElement
  <2> QED BY <1>2, <1>3, <1>4, <1>5, <2>2 DEF Odd, t
<1>6. CASE (b \div k) % 2 # 1
  <2>1. Ones(t, k) = Ones(s, k)
    BY <1>1, <1>6 DEF Ones
  <2> QED BY <1>2, <1>3, <1>4, <1>6, <2>1 DEF Odd, t
<1> QED BY <1>5, <1>6

\* hup_parse folds the bytes one by one: that is the exclusive or of all of them.
LEMMA XorAllAppend ==
  ASSUME NEW s \in Seq(U8), NEW b \in U8
  PROVE  XorAll(Append(s, b)) = Xor(XorAll(s), b)
<1> DEFINE t == Append(s, b)
           x == XorAll(s)
<1>1. t \in Seq(U8)
  BY AppendProperties
<1>2. ASSUME NEW k \in Powers
      PROVE  Odd(t, k) = ((x \div k) + (b \div k)) % 2
  <2>1. (x \div k) % 2 = Odd(s, k)
    BY XorAllBits
  <2>2. Odd(t, k) = (Odd(s, k) + (b \div k)) % 2
    BY OddAppend
  <2>3. x \div k \in Nat /\ b \div k \in Nat
    <3>1. x \in U8
      BY XorAllTyped
    <3> HIDE DEF x
    <3> QED BY <3>1 DEF U8, Powers
  <2>4. \A c, d \in Nat : ((c % 2) + d) % 2 = (c + d) % 2
    OBVIOUS
  <2> HIDE DEF x, t
  <2>5. (((x \div k) % 2) + (b \div k)) % 2 = ((x \div k) + (b \div k)) % 2
    BY <2>3, <2>4
  <2> QED BY <2>1, <2>2, <2>5
<1>3. XorAll(t) = 1 * Odd(t, 1) + 2 * Odd(t, 2) + 4 * Odd(t, 4) + 8 * Odd(t, 8)
                  + 16 * Odd(t, 16) + 32 * Odd(t, 32) + 64 * Odd(t, 64)
                  + 128 * Odd(t, 128)
  BY <1>1, XorAllBits
<1>4. /\ 1 \in Powers /\ 2 \in Powers /\ 4 \in Powers /\ 8 \in Powers
      /\ 16 \in Powers /\ 32 \in Powers /\ 64 \in Powers /\ 128 \in Powers
  BY DEF Powers
<1> HIDE DEF t, x
<1>5. XorAll(t) = Xor(x, b)
  <2> DEFINE e(k) == ((x \div k) + (b \div k)) % 2
  <2>1. Xor(x, b) = 1 * e(1) + 2 * e(2) + 4 * e(4) + 8 * e(8) + 16 * e(16)
                    + 32 * e(32) + 64 * e(64) + 128 * e(128)
    BY Zenon DEF Xor
  <2>2. \A k \in Powers : Odd(t, k) = e(k)
    BY <1>2
  <2> HIDE DEF e
  <2>3. /\ Odd(t, 1) = e(1) /\ Odd(t, 2) = e(2) /\ Odd(t, 4) = e(4) /\ Odd(t, 8) = e(8)
        /\ Odd(t, 16) = e(16) /\ Odd(t, 32) = e(32) /\ Odd(t, 64) = e(64)
        /\ Odd(t, 128) = e(128)
    BY <1>4, <2>2
  <2> QED BY <1>3, <2>1, <2>3
<1> QED BY <1>5 DEF t, x

\* Of two bytes that are not the same a bit is not the same.
LEMMA BitsDiffer ==
  ASSUME NEW a \in U8, NEW b \in U8, a # b
  PROVE  \E k \in Powers : (a \div k) % 2 # (b \div k) % 2
<1> SUFFICES ASSUME \A k \in Powers : (a \div k) % 2 = (b \div k) % 2 PROVE FALSE
  OBVIOUS
<1>1. /\ 1 \in Powers /\ 2 \in Powers /\ 4 \in Powers /\ 8 \in Powers
      /\ 16 \in Powers /\ 32 \in Powers /\ 64 \in Powers /\ 128 \in Powers
  BY DEF Powers
<1>2. /\ a = 1 * ((a \div 1) % 2) + 2 * ((a \div 2) % 2) + 4 * ((a \div 4) % 2)
             + 8 * ((a \div 8) % 2) + 16 * ((a \div 16) % 2) + 32 * ((a \div 32) % 2)
             + 64 * ((a \div 64) % 2) + 128 * ((a \div 128) % 2)
      /\ b = 1 * ((b \div 1) % 2) + 2 * ((b \div 2) % 2) + 4 * ((b \div 4) % 2)
             + 8 * ((b \div 8) % 2) + 16 * ((b \div 16) % 2) + 32 * ((b \div 32) % 2)
             + 64 * ((b \div 64) % 2) + 128 * ((b \div 128) % 2)
  BY ByteIsBits
<1>3. /\ (a \div 1) % 2 = (b \div 1) % 2 /\ (a \div 2) % 2 = (b \div 2) % 2
      /\ (a \div 4) % 2 = (b \div 4) % 2 /\ (a \div 8) % 2 = (b \div 8) % 2
      /\ (a \div 16) % 2 = (b \div 16) % 2 /\ (a \div 32) % 2 = (b \div 32) % 2
      /\ (a \div 64) % 2 = (b \div 64) % 2 /\ (a \div 128) % 2 = (b \div 128) % 2
  BY <1>1, Zenon
<1> QED BY <1>2, <1>3

\* The check byte notices every change of one byte, whatever the others are.
THEOREM OneByteIsNoticed ==
  ASSUME NEW s \in Seq(U8), NEW t \in Seq(U8), Len(t) = Len(s),
         NEW p \in 1 .. Len(s), t[p] # s[p],
         \A i \in 1 .. Len(s) : i # p => t[i] = s[i]
  PROVE  XorAll(t) # XorAll(s)
<1> DEFINE b == t[p]
<1>1. /\ DOMAIN t = DOMAIN s /\ p \in DOMAIN s /\ t[p] = b
      /\ \A i \in DOMAIN s : i # p => t[i] = s[i]
  <2>1. DOMAIN t = 1 .. Len(t) /\ DOMAIN s = 1 .. Len(s)
    BY LenProperties
  <2> QED BY <2>1
<1>2. b \in U8 /\ s[p] \in U8
  <2>1. p \in 1 .. Len(t)
    OBVIOUS
  <2> QED BY <2>1, ElementOfSeq
<1>3. PICK k \in Powers : (b \div k) % 2 # (s[p] \div k) % 2
  BY <1>2, BitsDiffer
<1> HIDE DEF b
<1>4. /\ IsFiniteSet(Ones(s, k)) /\ Cardinality(Ones(s, k)) \in Nat
      /\ IsFiniteSet(Ones(t, k)) /\ Cardinality(Ones(t, k)) \in Nat
  BY <1>2, OnesFinite
<1>5. \A n \in Nat : n % 2 # (n + 1) % 2
  OBVIOUS
<1>6. \A n \in Nat : n % 2 \in {0, 1}
  OBVIOUS
<1>7. Odd(t, k) # Odd(s, k)
  <2>1. ASSUME p \in Ones(t, k), p \notin Ones(s, k) PROVE Odd(t, k) # Odd(s, k)
    <3>1. Ones(t, k) = Ones(s, k) \cup {p}
      BY <1>1, <2>1 DEF Ones
    <3>2. Cardinality(Ones(t, k)) = Cardinality(Ones(s, k)) + 1
      BY <1>4, <2>1, <3>1, FS_AddElement
    <3> QED BY <1>4, <1>5, <3>2 DEF Odd
  <2>2. ASSUME p \in Ones(s, k), p \notin Ones(t, k) PROVE Odd(t, k) # Odd(s, k)
    <3>1. Ones(s, k) = Ones(t, k) \cup {p}
      BY <1>1, <2>2 DEF Ones
    <3>2. Cardinality(Ones(s, k)) = Cardinality(Ones(t, k)) + 1
      BY <1>4, <2>2, <3>1, FS_AddElement
    <3> QED BY <1>4, <1>5, <3>2 DEF Odd
  <2>3. b \div k \in Nat /\ s[p] \div k \in Nat
    <3>1. \A c \in U8 : c \div k \in Nat
      BY DEF U8, Powers
    <3> QED BY <1>2, <3>1
  <2>4. (b \div k) % 2 = 1 \/ (s[p] \div k) % 2 = 1
    BY <1>3, <1>6, <2>3
  <2> QED BY <1>1, <1>3, <2>1, <2>2, <2>4 DEF Ones
<1> QED BY <1>7, XorAllBits

-----------------------------------------------------------------------------
(* Sequences of bytes.                                                     *)

LEMMA ConcatTyped ==
  ASSUME NEW S, NEW s \in Seq(S), NEW t \in Seq(S)
  PROVE  s \o t \in Seq(S) /\ Len(s \o t) = Len(s) + Len(t)
BY ConcatProperties

LEMMA AppendTyped ==
  ASSUME NEW S, NEW s \in Seq(S), NEW e \in S
  PROVE  Append(s, e) \in Seq(S) /\ Len(Append(s, e)) = Len(s) + 1
BY AppendProperties

\* Part of a sequence.
LEMMA PartTyped ==
  ASSUME NEW S, NEW s \in Seq(S), NEW m \in Nat \ {0}, NEW n \in 0 .. Len(s)
  PROVE  SubSeq(s, m, n) \in Seq(S)
<1>1. \A i \in m .. n : s[i] \in S
  BY ElementOfSeq
<1> QED BY <1>1, SubSeqProperties

LEMMA PrefixTyped ==
  ASSUME NEW S, NEW s \in Seq(S), NEW n \in 0 .. Len(s)
  PROVE  SubSeq(s, 1, n) \in Seq(S) /\ Len(SubSeq(s, 1, n)) = n
<1>1. \A i \in 1 .. n : s[i] \in S
  BY ElementOfSeq
<1> QED BY <1>1, SubSeqProperties

LEMMA HeaderIsByte == ASSUME NEW h \in Headers PROVE h \in U8
BY DEF Headers, HUP_REQ_HDR_H, HUP_ACK_HDR_H, U8

LEMMA LengthIsByte == ASSUME NEW n \in 1 .. Payload PROVE n \in U8
BY SizeAssumption DEF U8

\* What the device sends for a frame are bytes.
LEMMA BytesTyped == \A f \in Frames : Bytes[f] \in Seq(U8)
<1> SUFFICES ASSUME NEW f \in Frames PROVE Bytes[f] \in Seq(U8)
  OBVIOUS
<1> DEFINE start == <<f.header, HUP_REQ_HDR_L, f.cmd, Len(f.data)>>
           all == start \o f.data
<1>1. f.header \in Headers /\ f.cmd \in U8 /\ f.data \in Seq(U8)
      /\ Len(f.data) \in 1 .. Payload
  BY FrameAssumption
<1> HIDE DEF start, all
<1>2. f.header \in U8 /\ HUP_REQ_HDR_L \in U8 /\ Len(f.data) \in U8
  <2>1. f.header \in U8
    BY <1>1, HeaderIsByte
  <2>2. HUP_REQ_HDR_L \in U8
    BY DEF HUP_REQ_HDR_L, U8
  <2>3. Len(f.data) \in U8
    BY <1>1, LengthIsByte
  <2> QED BY <2>1, <2>2, <2>3
<1>3. start \in Seq(U8)
  BY <1>1, <1>2 DEF start
<1>4. all \in Seq(U8)
  BY <1>1, <1>3, ConcatTyped DEF all
<1>5. Append(all, XorAll(all)) \in Seq(U8)
  BY <1>4, XorAllTyped, AppendTyped
<1> QED BY <1>5 DEF Bytes, all, start

-----------------------------------------------------------------------------
(* The invariant.                                                          *)

LineOK ==
  /\ line \in Seq(U8)
  /\ r_fifo \in Seq(U8) /\ Len(r_fifo) <= RSize - 1
  /\ temp \in U8 \cup {NoByte}
  /\ sends \in 0 .. MaxSends /\ lost \in BOOLEAN

\* When the check byte is looked at, the data is as long as the frame says, and
\* what the first header byte said of a response is forgotten.
ParserOK ==
  /\ state \in States /\ is_response \in BOOLEAN /\ xor8 \in U8
  /\ cmd \in U8 /\ data_len \in U8
  /\ data \in Seq(U8) /\ Len(data) <= Payload
  /\ state = "CRC" => Len(data) = data_len
  /\ state # "HDR_L" => ~is_response

QueueOK ==
  /\ queue \in 0 .. QueueCap /\ overrun \in BOOLEAN
  /\ handled = NoFrame \/ (handled.cmd \in U8 /\ handled.data \in Seq(U8))

IndInv == LineOK /\ ParserOK /\ QueueOK

LEMMA InitIndInv == Init => IndInv
<1> SUFFICES ASSUME Init PROVE IndInv
  OBVIOUS
<1>1. <<>> \in Seq(U8) /\ Len(<<>>) = 0
  OBVIOUS
<1>2. LineOK
  <2>1. Len(r_fifo) <= RSize - 1 /\ sends \in 0 .. MaxSends
    BY <1>1, SizeAssumption DEF Init
  <2> QED BY <1>1, <2>1, Zenon DEF Init, LineOK
<1>3. ParserOK
  <2>1. xor8 \in U8 /\ cmd \in U8 /\ data_len \in U8 /\ Len(data) <= Payload
    BY <1>1, SizeAssumption DEF Init, U8
  <2>2. state \in States /\ state # "CRC" /\ is_response \in BOOLEAN /\ ~is_response
    BY DEF Init, States
  <2> QED BY <1>1, <2>1, <2>2, Zenon DEF Init, ParserOK
<1>4. QueueOK
  <2>1. queue \in 0 .. QueueCap
    BY SizeAssumption DEF Init
  <2> QED BY <2>1, Zenon DEF Init, QueueOK
<1> QED BY <1>2, <1>3, <1>4 DEF IndInv

-----------------------------------------------------------------------------
(* The device, the receiving thread, the app thread.                       *)

LEMMA ArrivesTyped ==
  ASSUME IndInv, NEW bytes \in Seq(U8), Arrives(bytes)
  PROVE  IndInv'
<1>1. line' \in Seq(U8)
  BY ConcatTyped DEF Arrives, IndInv, LineOK
<1>2. sends' \in 0 .. MaxSends
  BY SizeAssumption DEF Arrives, IndInv, LineOK
<1>3. LineOK'
  BY <1>1, <1>2 DEF Arrives, fifo, IndInv, LineOK
<1>4. ParserOK' /\ QueueOK'
  BY DEF Arrives, parser, IndInv, ParserOK, QueueOK
<1> QED BY <1>3, <1>4 DEF IndInv

LEMMA DeviceStep ==
  ASSUME IndInv,
         \/ \E f \in Frames : SendFrame(f) \/ \E k \in DOMAIN Bytes[f], byte \in Wrong :
                                                 SendDamaged(f, k, byte)
         \/ \E byte \in Noise : SendNoise(byte)
  PROVE  IndInv'
<1>1. ASSUME NEW f \in Frames, SendFrame(f) PROVE IndInv'
  BY <1>1, BytesTyped, ArrivesTyped DEF SendFrame
<1>2. ASSUME NEW f \in Frames, NEW k \in DOMAIN Bytes[f], NEW byte \in Wrong,
             SendDamaged(f, k, byte)
      PROVE  IndInv'
  <2>1. Bytes[f] \in Seq(U8) /\ byte \in U8
    BY BytesTyped, NoiseAssumption
  <2>2. k \in 1 .. Len(Bytes[f])
    BY <2>1
  <2>3. [Bytes[f] EXCEPT ![k] = byte] \in Seq(U8)
    BY <2>1, <2>2, ExceptSeq
  <2> QED BY <1>2, <2>3, ArrivesTyped DEF SendDamaged
<1>3. ASSUME NEW byte \in Noise, SendNoise(byte) PROVE IndInv'
  <2>1. <<byte>> \in Seq(U8)
    BY NoiseAssumption
  <2> QED BY <1>3, <2>1, ArrivesTyped DEF SendNoise
<1> QED BY <1>1, <1>2, <1>3

\* Whatever room there is, the fifo never holds more than RSize - 1 bytes.
LEMMA ReceiveStep == ASSUME IndInv, Receive PROVE IndInv'
<1> DEFINE room == RSize - Len(r_fifo)
<1>1. PICK n \in 1 .. Len(line) :
        /\ line' = SubSeq(line, n + 1, Len(line))
        /\ r_fifo' = r_fifo \o (IF n > room THEN <<>>
                                 ELSE SubSeq(line, 1, IF n = room THEN n - 1 ELSE n))
        /\ lost' = (lost \/ n >= room)
        /\ UNCHANGED <<temp, parser, queue, overrun, handled, sends>>
  BY DEF Receive
<1>2. line \in Seq(U8) /\ r_fifo \in Seq(U8) /\ Len(r_fifo) <= RSize - 1
  BY DEF IndInv, LineOK
<1>3. line' \in Seq(U8)
  BY <1>1, <1>2, PartTyped
<1>4. r_fifo' \in Seq(U8) /\ Len(r_fifo') <= RSize - 1
  <2>1. CASE n > room
    <3>1. r_fifo' = r_fifo
      BY <1>1, <1>2, <2>1, ConcatEmptySeq
    <3> QED BY <1>2, <3>1
  <2>2. CASE ~(n > room)
    <3> DEFINE m == IF n = room THEN n - 1 ELSE n
    <3>1. m \in 0 .. Len(line) /\ Len(r_fifo) + m <= RSize - 1
      BY <1>2, <2>2, SizeAssumption
    <3>2. r_fifo' = r_fifo \o SubSeq(line, 1, m)
      BY <1>1, <2>2
    <3> HIDE DEF m
    <3>3. SubSeq(line, 1, m) \in Seq(U8) /\ Len(SubSeq(line, 1, m)) = m
      BY <1>2, <3>1, PrefixTyped
    <3>4. r_fifo' \in Seq(U8) /\ Len(r_fifo') = Len(r_fifo) + Len(SubSeq(line, 1, m))
      BY <1>2, <3>2, <3>3, ConcatTyped
    <3> QED BY <3>1, <3>3, <3>4
  <2> QED BY <2>1, <2>2
<1>5. LineOK'
  BY <1>1, <1>3, <1>4 DEF IndInv, LineOK
<1>6. ParserOK' /\ QueueOK'
  BY <1>1 DEF parser, IndInv, ParserOK, QueueOK
<1> QED BY <1>5, <1>6 DEF IndInv

LEMMA TakeStep == ASSUME IndInv, Take PROVE IndInv'
<1>1. r_fifo \in Seq(U8) /\ r_fifo # <<>>
  BY DEF Take, IndInv, LineOK
<1>2. Head(r_fifo) \in U8 /\ Tail(r_fifo) \in Seq(U8) /\ Len(Tail(r_fifo)) <= Len(r_fifo)
  BY <1>1, HeadTailProperties
<1>3. LineOK'
  BY <1>1, <1>2, SizeAssumption DEF Take, IndInv, LineOK
<1>4. ParserOK' /\ QueueOK'
  BY DEF Take, parser, IndInv, ParserOK, QueueOK
<1> QED BY <1>3, <1>4 DEF IndInv

LEMMA AppStep == ASSUME IndInv, AppTakes PROVE IndInv'
<1>1. LineOK' /\ ParserOK'
  BY DEF AppTakes, fifo, parser, IndInv, LineOK, ParserOK
<1>2. QueueOK'
  BY SizeAssumption DEF AppTakes, IndInv, QueueOK
<1> QED BY <1>1, <1>2 DEF IndInv

-----------------------------------------------------------------------------
(* The parser, one lemma for the states in which a byte is only noted, one  *)
(* for the data, one for the check byte.                                    *)

\* hup_parse_assist_reset.
LEMMA ResetTyped ==
  ASSUME ParserOK, Reset, UNCHANGED <<cmd, data_len>>
  PROVE  ParserOK'
<1>1. xor8' \in U8 /\ data' \in Seq(U8) /\ Len(data') <= Payload
  BY SizeAssumption DEF Reset, U8
<1>2. state' \in States /\ state' # "CRC"
  BY DEF Reset, States
<1>3. is_response' \in BOOLEAN /\ ~is_response'
  BY Zenon DEF Reset
<1> QED BY <1>1, <1>2, <1>3 DEF ParserOK

LEMMA NotedStep ==
  ASSUME IndInv, temp \in U8,
         \/ ParseHeaderHigh \/ ParseHeaderLow \/ ParseCmd \/ ParseDataLen
  PROVE  ParserOK' /\ QueueOK'
<1> USE DEF IndInv
<1>1. Xor(xor8, temp) \in U8
  BY XorTyped DEF ParserOK
<1>2. <<>> \in Seq(U8) /\ Len(<<>>) = 0 /\ 0 \in U8
  BY DEF U8
<1>3. QueueOK'
  BY DEF ParseHeaderHigh, ParseHeaderLow, ParseCmd, ParseDataLen, Quiet, QueueOK
<1>4. ASSUME Reset, UNCHANGED <<cmd, data_len>> PROVE ParserOK'
  BY <1>4, ResetTyped
<1>5. CASE ParseHeaderHigh
  <2>1. CASE temp \in Headers
    <3>1. is_response' \in BOOLEAN
      BY <1>5, <2>1, Zenon DEF ParseHeaderHigh
    <3>2. state' = "HDR_L" /\ state' \in States /\ xor8' \in U8
      BY <1>1, <1>5, <2>1 DEF ParseHeaderHigh, States
    <3>3. UNCHANGED <<cmd, data_len, data>>
      BY <1>5, <2>1 DEF ParseHeaderHigh
    <3>4. ParserOK'
      BY <3>1, <3>2, <3>3 DEF ParserOK
    <3> QED BY <1>3, <3>4
  <2>2. CASE temp \notin Headers
    BY <1>3, <1>4, <1>5, <2>2 DEF ParseHeaderHigh
  <2> QED BY <2>1, <2>2
<1>6. CASE ParseHeaderLow
  <2>1. CASE temp \in {HUP_REQ_HDR_L, HUP_ACK_HDR_L}
    <3>1. ~is_response' /\ is_response' \in BOOLEAN
      <4>1. temp = HUP_REQ_HDR_L
        BY <2>1 DEF HUP_REQ_HDR_L, HUP_ACK_HDR_L
      <4> QED BY <1>6, <2>1, <4>1, Zenon DEF ParseHeaderLow
    <3>2. state' = "CMD" /\ state' \in States /\ xor8' \in U8
      BY <1>1, <1>6, <2>1 DEF ParseHeaderLow, States
    <3>3. UNCHANGED <<cmd, data_len, data>>
      BY <1>6, <2>1 DEF ParseHeaderLow
    <3>4. ParserOK'
      BY <3>1, <3>2, <3>3 DEF ParserOK
    <3> QED BY <1>3, <3>4
  <2>2. CASE temp \notin {HUP_REQ_HDR_L, HUP_ACK_HDR_L}
    BY <1>3, <1>4, <1>6, <2>2 DEF ParseHeaderLow
  <2> QED BY <2>1, <2>2
<1>7. CASE ParseCmd
  <2>1. ParserOK'
    BY <1>1, <1>7 DEF ParseCmd, ParserOK, States
  <2> QED BY <1>3, <2>1
<1>8. CASE ParseDataLen
  <2>1. ParserOK'
    BY <1>1, <1>8 DEF ParseDataLen, ParserOK, States
  <2> QED BY <1>3, <2>1
<1> QED BY <1>3, <1>5, <1>6, <1>7, <1>8

LEMMA DataStep ==
  ASSUME IndInv, temp \in U8, ParseData
  PROVE  ParserOK' /\ QueueOK'
<1> USE DEF IndInv
<1>1. QueueOK'
  BY DEF ParseData, QueueOK
<1>2. CASE Len(data) < Payload
  <2>1. Xor(xor8, temp) \in U8
    BY XorTyped DEF ParserOK
  <2>2. Append(data, temp) \in Seq(U8) /\ Len(Append(data, temp)) = Len(data) + 1
    BY AppendTyped DEF ParserOK
  <2>3. Len(data) \in Nat
    BY DEF ParserOK
  <2>4. data' \in Seq(U8) /\ Len(data') <= Payload
    <3>1. data' = Append(data, temp)
      BY <1>2 DEF ParseData
    <3>2. Len(data) + 1 <= Payload
      BY <1>2, <2>3, SizeAssumption DEF U8
    <3> QED BY <2>2, <3>1, <3>2
  <2>5. state' = "CRC" => Len(data') = data_len'
    BY <1>2, <2>2 DEF ParseData
  <2> QED BY <1>1, <1>2, <2>1, <2>4, <2>5 DEF ParseData, ParserOK, States
<1>3. CASE ~(Len(data) < Payload)
  BY <1>1, <1>3 DEF ParseData, ParserOK, States
<1> QED BY <1>2, <1>3

\* What is handed over is the data as far as the frame's length.
LEMMA CrcStep ==
  ASSUME IndInv, ParseCrc
  PROVE  ParserOK' /\ QueueOK'
<1> USE DEF IndInv
<1>1. ParserOK'
  BY ResetTyped DEF ParseCrc
<1>2. ASSUME Quiet PROVE QueueOK'
  BY <1>2 DEF Quiet, QueueOK
<1>3. ASSUME HandOver PROVE QueueOK'
  <2>1. data \in Seq(U8) /\ data_len = Len(data) /\ cmd \in U8
    BY DEF ParseCrc, ParserOK
  <2>2. SubSeq(data, 1, data_len) \in Seq(U8)
    BY <2>1, PrefixTyped
  <2>3. queue' \in 0 .. QueueCap
    BY <1>3, SizeAssumption DEF HandOver, QueueOK
  <2>4. overrun' \in BOOLEAN
    BY <1>3 DEF HandOver, QueueOK
  <2>5. handled' = NoFrame \/ (handled'.cmd \in U8 /\ handled'.data \in Seq(U8))
    <3>1. CASE lost
      BY <1>3, <3>1 DEF HandOver, QueueOK
    <3>2. CASE ~lost
      <4>1. handled' = [cmd |-> cmd, data |-> SubSeq(data, 1, data_len)]
        BY <1>3, <3>2 DEF HandOver
      <4> QED BY <2>1, <2>2, <4>1
    <3> QED BY <3>1, <3>2
  <2> QED BY <2>3, <2>4, <2>5 DEF QueueOK
<1>4. Quiet \/ HandOver
  BY DEF ParseCrc
<1> QED BY <1>1, <1>2, <1>3, <1>4

LEMMA ParseStep == ASSUME IndInv, Parse PROVE IndInv'
<1>1. temp \in U8
  BY DEF Parse, IndInv, LineOK
<1>2. LineOK'
  BY DEF Parse, IndInv, LineOK
<1>3. ParserOK' /\ QueueOK'
  BY <1>1, NotedStep, DataStep, CrcStep DEF Parse
<1> QED BY <1>2, <1>3 DEF IndInv

-----------------------------------------------------------------------------
\* The invariant holds in every behaviour of the port: what arrives, is lost or
\* is parsed, in whatever order the threads run.
THEOREM Invariance == Spec => []IndInv
<1>1. IndInv /\ [Next]_vars => IndInv'
  <2> SUFFICES ASSUME IndInv, [Next]_vars PROVE IndInv'
    OBVIOUS
  <2>1. CASE Receive
    BY <2>1, ReceiveStep
  <2>2. CASE Handle
    BY <2>2, TakeStep, ParseStep DEF Handle
  <2>3. CASE AppTakes
    BY <2>3, AppStep
  <2>4. CASE \/ \E f \in Frames :
                  SendFrame(f) \/ \E k \in DOMAIN Bytes[f], byte \in Wrong :
                                    SendDamaged(f, k, byte)
             \/ \E byte \in Noise : SendNoise(byte)
    BY <2>4, DeviceStep
  <2>5. CASE UNCHANGED vars
    BY <2>5 DEF vars, fifo, parser, IndInv, LineOK, ParserOK, QueueOK
  <2> QED BY <2>1, <2>2, <2>3, <2>4, <2>5 DEF Next
<1> QED BY InitIndInv, <1>1, PTL DEF Spec

\* Every variable keeps its type: r_fifo is never filled beyond RSize - 1 bytes
\* (uart_app's write into it), data never beyond its buffer without overrun being
\* said, and the message queue never beyond its capacity.
THEOREM TypeCorrect == Spec => []TypeOK
<1>1. IndInv => TypeOK
  BY DEF IndInv, LineOK, ParserOK, QueueOK, TypeOK
<1> QED BY Invariance, <1>1, PTL

\* hup_parse_header_l_handle: when the check byte is looked at, the frame counts
\* as a request, whatever its first header byte said; so a good frame is always
\* handed over, and the data is as long as the frame says.
CheckedAsRequest == state = "CRC" => ~is_response /\ Len(data) = data_len

THEOREM NeverAResponse == Spec => []CheckedAsRequest
<1>1. IndInv => CheckedAsRequest
  BY DEF IndInv, ParserOK, CheckedAsRequest
<1> QED BY Invariance, <1>1, PTL
-----------------------------------------------------------------------------
(* What is on its way to the parser, piece by piece.                       *)

\* The bytes that hup_parse has yet to see, the next one first.
Pending == (IF temp = NoByte THEN <<>> ELSE <<temp>>) \o (r_fifo \o line)

\* There is nothing like a header behind the first c bytes.
Unmarked(s, c) == \A j \in c + 1 .. Len(s) : s[j] \notin Headers

\* What the device sends is a piece that hup_parse takes for a frame, up to the
\* check byte, or a piece that it skips.
Whole(s) ==
  /\ s[1] \in Headers /\ s[2] = HUP_REQ_HDR_L
  /\ s[4] \in 1 .. Payload /\ Len(s) = s[4] + 5

Skipped(s) ==
  /\ Len(s) >= 1
  /\ \/ Unmarked(s, 0)
     \/ Len(s) >= 2 /\ s[1] \in Headers /\ s[2] # HUP_REQ_HDR_L /\ Unmarked(s, 2)

Piece == {s \in Seq(U8) : Whole(s) \/ Skipped(s)}

\* The check byte agrees with the others, and this is what is handed over then.
Good(s) == Whole(s) /\ s[Len(s)] = XorAll(SubSeq(s, 1, Len(s) - 1))

Carried(s) == [cmd |-> s[3], data |-> SubSeq(s, 5, s[4] + 4)]

Record == [cmd : U8, data : Seq(U8)]

\* Piece k begins behind byte at[k], and the last one ends with the bytes.  Of
\* the first piece some bytes may be parsed: then at[1] is negative.
Laid(at, pieces, bytes) ==
  /\ at \in [1 .. Len(pieces) + 1 -> Int]
  /\ at[Len(pieces) + 1] = Len(bytes)
  /\ \A k \in 1 .. Len(pieces) + 1 : at[k] <= Len(bytes)
  /\ \A k \in 1 .. Len(pieces) : at[k + 1] = at[k] + Len(pieces[k])
  /\ \A k \in 1 .. Len(pieces) : \A j \in 1 .. Len(pieces[k]) :
       at[k] + j >= 1 => bytes[at[k] + j] = pieces[k][j]

\* Before piece k there are before[k] good ones, and those are the frames.
Counted(before, pieces, frames) ==
  /\ before \in [1 .. Len(pieces) + 1 -> Nat]
  /\ before[1] = 0 /\ before[Len(pieces) + 1] = Len(frames)
  /\ \A i, k \in 1 .. Len(pieces) + 1 : i <= k => before[i] <= before[k]
  /\ \A k \in 1 .. Len(pieces) :
       IF Good(pieces[k])
         THEN before[k + 1] = before[k] + 1 /\ frames[before[k] + 1] = Carried(pieces[k])
         ELSE before[k + 1] = before[k]

\* Between two pieces, in a frame behind byte c, in a piece that is skipped.
Fresh == state = "HDR_H" /\ xor8 = 0 /\ data = <<>>

Known(s) == cmd = s[3] /\ data_len = s[4]

InFrame(c, s) ==
  /\ Whole(s) /\ xor8 = XorAll(SubSeq(s, 1, c)) /\ data = SubSeq(s, 5, c)
  /\ \/ state = "HDR_L" /\ c = 1
     \/ state = "CMD" /\ c = 2
     \/ state = "DATA_LEN" /\ c = 3 /\ cmd = s[3]
     \/ state = "DATA" /\ c \in 4 .. s[4] + 3 /\ Known(s)
     \/ state = "CRC" /\ c = s[4] + 4 /\ Known(s)

InSkipped(c, s) ==
  /\ Skipped(s)
  /\ \/ state = "HDR_L" /\ c = 1 /\ s[1] \in Headers
     \/ Fresh /\ c \in 1 .. Len(s) - 1 /\ Unmarked(s, c)

Place(at, pieces) ==
  \/ Fresh /\ at[1] = 0
  \/ /\ pieces # <<>>
     /\ InFrame(0 - at[1], pieces[1]) \/ InSkipped(0 - at[1], pieces[1])

\* Until r_fifo refuses a byte, the parser is where the pieces are.
Following ==
  /\ transit \in Seq(Record)
  /\ lost => transit = <<>>
  /\ ~lost => /\ ~overrun
              /\ \E pieces \in Seq(Piece) : \E at, before :
                   /\ Laid(at, pieces, Pending) /\ Counted(before, pieces, transit)
                   /\ Place(at, pieces)
-----------------------------------------------------------------------------
(* What the device sends are pieces.                                       *)

\* A piece of a sequence, byte by byte, and with one byte more.
LEMMA PartBytes ==
  ASSUME NEW s \in Seq(U8), NEW m \in Nat \ {0}, NEW n \in 0 .. Len(s)
  PROVE  /\ SubSeq(s, m, n) \in Seq(U8)
         /\ Len(SubSeq(s, m, n)) = IF m <= n THEN n - m + 1 ELSE 0
         /\ \A i \in 1 .. n - m + 1 : SubSeq(s, m, n)[i] = s[m + i - 1]
<1>1. \A i \in m .. n : s[i] \in U8
  BY ElementOfSeq
<1> QED BY <1>1, SubSeqProperties

LEMMA PartAppend ==
  ASSUME NEW s \in Seq(U8), NEW m \in Nat \ {0}, NEW n \in 1 .. Len(s), m <= n
  PROVE  SubSeq(s, m, n) = Append(SubSeq(s, m, n - 1), s[n])
<1>1. m \in 1 .. Len(s) /\ n \in m .. Len(s) /\ n - 1 \in 0 .. Len(s)
  BY LenProperties
<1>2. SubSeq(s, m, n) = SubSeq(s, m, n - 1) \o <<s[n]>>
  BY <1>1, SubSeqRecursiveSecond
<1>3. SubSeq(s, m, n - 1) \in Seq(U8) /\ s[n] \in U8
  BY <1>1, PartBytes, ElementOfSeq
<1> QED BY <1>2, <1>3, AppendIsConcat

LEMMA ConcatBytes ==
  ASSUME NEW s \in Seq(U8), NEW t \in Seq(U8)
  PROVE  /\ s \o t \in Seq(U8) /\ Len(s \o t) = Len(s) + Len(t)
         /\ \A i \in 1 .. Len(s) : (s \o t)[i] = s[i]
         /\ \A i \in 1 .. Len(t) : (s \o t)[Len(s) + i] = t[i]
<1>1. Len(s) \in Nat /\ Len(t) \in Nat
  BY LenProperties
<1>2. \A m, n \in Nat : \A i \in 1 .. m : i \in 1 .. m + n /\ i <= m
  OBVIOUS
<1>3. \A m, n \in Nat : \A i \in 1 .. n :
        m + i \in 1 .. m + n /\ ~(m + i <= m) /\ m + i - m = i
  OBVIOUS
<1>4. \A i \in 1 .. Len(s) : (s \o t)[i] = s[i]
  BY <1>1, <1>2, ConcatProperties
<1>5. \A i \in 1 .. Len(t) : (s \o t)[Len(s) + i] = t[i]
  BY <1>1, <1>3, ConcatProperties
<1> QED BY <1>4, <1>5, ConcatProperties

\* The bytes of a frame.
LEMMA FrameBytes ==
  ASSUME NEW f \in Frames
  PROVE  LET b == Bytes[f]
             n == Len(f.data)
         IN  /\ n \in 1 .. Payload /\ b \in Seq(U8) /\ Len(b) = n + 5
             /\ b[1] = f.header /\ b[2] = HUP_REQ_HDR_L /\ b[3] = f.cmd /\ b[4] = n
             /\ \A i \in 1 .. n : b[4 + i] = f.data[i]
             /\ b[n + 5] = XorAll(SubSeq(b, 1, n + 4))
<1> DEFINE b == Bytes[f]
           n == Len(f.data)
           start == <<f.header, HUP_REQ_HDR_L, f.cmd, n>>
           all == start \o f.data
           whole == Append(all, XorAll(all))
<1>1. f.header \in U8 /\ f.cmd \in U8 /\ f.data \in Seq(U8) /\ n \in 1 .. Payload /\ n \in U8
  BY FrameAssumption, HeaderIsByte, LengthIsByte
<1>2. HUP_REQ_HDR_L \in U8
  BY DEF HUP_REQ_HDR_L, U8
<1>3. n \in 1 .. 255 /\ n \in Nat
  BY <1>1, SizeAssumption DEF U8
<1>4. b = whole
  BY DEF Bytes
<1> HIDE DEF b
<1>5. /\ start \in Seq(U8) /\ Len(start) = 4 /\ start[1] = f.header
      /\ start[2] = HUP_REQ_HDR_L /\ start[3] = f.cmd /\ start[4] = n
  <2> HIDE DEF n
  <2> QED BY <1>1, <1>2
<1> HIDE DEF start
<1>6. /\ all \in Seq(U8) /\ Len(all) = Len(start) + Len(f.data)
      /\ \A i \in 1 .. Len(start) : all[i] = start[i]
      /\ \A i \in 1 .. Len(f.data) : all[Len(start) + i] = f.data[i]
  BY <1>1, <1>5, ConcatBytes
<1> HIDE DEF n, all
<1>7. /\ Len(all) = 4 + n
      /\ \A i \in 1 .. 4 : all[i] = start[i]
      /\ \A i \in 1 .. n : all[4 + i] = f.data[i]
  BY <1>5, <1>6 DEF n
<1>8. /\ whole \in Seq(U8) /\ Len(whole) = Len(all) + 1
      /\ \A i \in 1 .. Len(all) : whole[i] = all[i]
      /\ whole[Len(all) + 1] = XorAll(all)
  BY <1>6, XorAllTyped, AppendProperties
<1> HIDE DEF whole
<1>9. Len(whole) = n + 5 /\ whole[n + 5] = XorAll(all)
  <2>1. 4 + n + 1 = n + 5
    BY <1>3
  <2> QED BY <1>7, <1>8, <2>1
<1>10. \A i \in 1 .. 4 : whole[i] = start[i]
  <2>1. \A i \in 1 .. 4 : i \in 1 .. 4 + n
    BY <1>3
  <2> QED BY <1>7, <1>8, <2>1
<1>11. \A i \in 1 .. n : whole[4 + i] = f.data[i]
  <2>1. \A i \in 1 .. n : 4 + i \in 1 .. 4 + n
    BY <1>3
  <2> QED BY <1>7, <1>8, <2>1
<1>12. SubSeq(whole, 1, n + 4) = all
  <2>1. n + 4 \in 0 .. Len(whole) /\ n + 4 - 1 + 1 = n + 4 /\ 1 <= n + 4
        /\ n + 4 = 4 + n /\ \A i \in 1 .. n + 4 : 1 + i - 1 = i
    BY <1>3, <1>9
  <2>2. /\ SubSeq(whole, 1, n + 4) \in Seq(U8) /\ Len(SubSeq(whole, 1, n + 4)) = n + 4
        /\ \A i \in 1 .. n + 4 : SubSeq(whole, 1, n + 4)[i] = whole[i]
    BY <1>8, <2>1, PartBytes
  <2> QED BY <1>6, <1>7, <1>8, <2>1, <2>2, SeqEqual
<1>13. whole[1] = f.header /\ whole[2] = HUP_REQ_HDR_L /\ whole[3] = f.cmd /\ whole[4] = n
  BY <1>5, <1>10
<1> QED BY <1>1, <1>4, <1>8, <1>9, <1>11, <1>12, <1>13 DEF b, n

\* The numbers of the bytes of a frame of n bytes of data.
LEMMA FrameNumbers ==
  ASSUME NEW n \in 1 .. 255
  PROVE  /\ n + 5 \in Nat /\ n + 5 - 1 = n + 4 /\ n + 4 \in 0 .. n + 5 /\ n + 5 >= 2
         /\ n + 4 - 5 + 1 = n /\ 5 <= n + 4
         /\ \A i \in 1 .. n : 5 + i - 1 = 4 + i
         /\ \A k \in 1 .. n + 5 : k # n + 5 => k \in 1 .. n + 4
         /\ n + 5 \in 1 .. n + 5
         /\ 1 \in 1 .. n + 5 /\ 2 \in 1 .. n + 5 /\ 3 \in 1 .. n + 5 /\ 4 \in 1 .. n + 5
OBVIOUS

LEMMA PayloadIsByte == \A n \in 1 .. Payload : n \in 1 .. 255
BY SizeAssumption DEF U8

LEMMA FrameIsPiece ==
  ASSUME NEW f \in Frames
  PROVE  /\ Bytes[f] \in Piece /\ Good(Bytes[f]) /\ Carried(Bytes[f]) = Received(f)
         /\ Received(f) \in Record
<1> DEFINE b == Bytes[f]
           n == Len(f.data)
<1>1. f.header \in Headers /\ f.cmd \in U8 /\ f.data \in Seq(U8)
  BY FrameAssumption
<1>2. /\ n \in 1 .. Payload /\ b \in Seq(U8) /\ Len(b) = n + 5
      /\ b[1] = f.header /\ b[2] = HUP_REQ_HDR_L /\ b[3] = f.cmd /\ b[4] = n
      /\ \A i \in 1 .. n : b[4 + i] = f.data[i]
      /\ b[n + 5] = XorAll(SubSeq(b, 1, n + 4))
  BY FrameBytes
<1> HIDE DEF b, n
<1>3. n \in 1 .. 255
  BY <1>2, PayloadIsByte
<1>num. /\ n + 5 - 1 = n + 4 /\ n + 4 \in 0 .. n + 5
        /\ n + 4 - 5 + 1 = n /\ 5 <= n + 4 /\ 5 \in Nat \ {0}
  BY <1>3
<1>len. Len(b) = n + 5
  BY <1>2
<1>4. Whole(b)
  BY <1>1, <1>2 DEF Whole
<1>5. Good(b)
  <2>1. Len(b) = n + 5 /\ Len(b) - 1 = n + 4
    BY <1>3, <1>len
  <2> QED BY <1>2, <1>4, <2>1, Zenon DEF Good
<1>6. SubSeq(b, 5, n + 4) = f.data
  <2>1. /\ SubSeq(b, 5, n + 4) \in Seq(U8) /\ Len(SubSeq(b, 5, n + 4)) = n
        /\ \A i \in 1 .. n : SubSeq(b, 5, n + 4)[i] = b[5 + i - 1]
    <3>1. n + 4 \in 0 .. Len(b) /\ n + 4 - 5 + 1 = n /\ 5 <= n + 4 /\ 5 \in Nat \ {0}
      BY <1>num, <1>len
    <3>2. /\ SubSeq(b, 5, n + 4) \in Seq(U8)
          /\ Len(SubSeq(b, 5, n + 4)) = IF 5 <= n + 4 THEN n + 4 - 5 + 1 ELSE 0
          /\ \A i \in 1 .. n + 4 - 5 + 1 : SubSeq(b, 5, n + 4)[i] = b[5 + i - 1]
      BY <1>2, <3>1, PartBytes
    <3> QED BY <3>1, <3>2
  <2>2. \A i \in 1 .. n : SubSeq(b, 5, n + 4)[i] = f.data[i]
    BY <1>2, <1>3, <2>1, FrameNumbers
  <2> QED BY <1>1, <2>1, <2>2, SeqEqual DEF n
<1>7. Carried(b) = Received(f)
  BY <1>2, <1>6 DEF Carried, Received
<1> QED BY <1>1, <1>2, <1>4, <1>5, <1>7 DEF Piece, b, Received, Record

LEMMA SkippedIsNotGood ==
  ASSUME NEW s, Skipped(s)
  PROVE  ~Whole(s) /\ ~Good(s)
<1>1. Len(s) >= 1 /\ Unmarked(s, 0) => s[1] \notin Headers
  BY DEF Unmarked
<1> QED BY <1>1 DEF Skipped, Whole, Good

\* What the device changes of a frame is noticed, if it is looked at.
LEMMA DamageIsNoticed ==
  ASSUME NEW b \in Seq(U8), NEW n \in 1 .. 255, Len(b) = n + 5,
         b[n + 5] = XorAll(SubSeq(b, 1, n + 4)),
         NEW t \in Seq(U8), Len(t) = n + 5, NEW k \in 1 .. n + 5, t[k] # b[k],
         \A j \in 1 .. n + 5 : j # k => t[j] = b[j]
  PROVE  t[n + 5] # XorAll(SubSeq(t, 1, n + 4))
<1> DEFINE u == SubSeq(t, 1, n + 4)
           v == SubSeq(b, 1, n + 4)
<1>1. /\ n + 4 \in 0 .. n + 5 /\ 1 <= n + 4 /\ n + 4 - 1 + 1 = n + 4 /\ 1 \in Nat \ {0}
      /\ \A i \in 1 .. n + 4 : 1 + i - 1 = i /\ i \in 1 .. n + 5 /\ i # n + 5
      /\ k # n + 5 => k \in 1 .. n + 4
      /\ n + 5 \in 1 .. n + 5
  OBVIOUS
<1>2. \A s \in Seq(U8) : Len(s) = n + 5 =>
        /\ SubSeq(s, 1, n + 4) \in Seq(U8) /\ Len(SubSeq(s, 1, n + 4)) = n + 4
        /\ \A i \in 1 .. n + 4 : SubSeq(s, 1, n + 4)[i] = s[i]
  <2> SUFFICES ASSUME NEW s \in Seq(U8), Len(s) = n + 5
               PROVE  /\ SubSeq(s, 1, n + 4) \in Seq(U8)
                      /\ Len(SubSeq(s, 1, n + 4)) = n + 4
                      /\ \A i \in 1 .. n + 4 : SubSeq(s, 1, n + 4)[i] = s[i]
    OBVIOUS
  <2>1. n + 4 \in 0 .. Len(s)
    BY <1>1
  <2>2. /\ SubSeq(s, 1, n + 4) \in Seq(U8)
        /\ Len(SubSeq(s, 1, n + 4)) = IF 1 <= n + 4 THEN n + 4 - 1 + 1 ELSE 0
        /\ \A i \in 1 .. n + 4 - 1 + 1 : SubSeq(s, 1, n + 4)[i] = s[1 + i - 1]
    BY <1>1, <2>1, PartBytes
  <2> QED BY <1>1, <2>2
<1>3. /\ u \in Seq(U8) /\ Len(u) = n + 4 /\ \A i \in 1 .. n + 4 : u[i] = t[i]
      /\ v \in Seq(U8) /\ Len(v) = n + 4 /\ \A i \in 1 .. n + 4 : v[i] = b[i]
  BY <1>2
<1> HIDE DEF u, v
<1>4. CASE k = n + 5
  <2>1. \A i \in 1 .. n + 4 : u[i] = v[i]
    BY <1>1, <1>3, <1>4
  <2>2. u = v
    BY <1>3, <2>1, SeqEqual
  <2> QED BY <1>4, <2>2 DEF u, v
<1>5. CASE k # n + 5
  <2>1. k \in 1 .. Len(v) /\ u[k] # v[k]
    BY <1>1, <1>3, <1>5
  <2>2. Len(u) = Len(v) /\ \A i \in 1 .. Len(v) : i # k => u[i] = v[i]
    BY <1>1, <1>3
  <2>3. XorAll(u) # XorAll(v)
    BY <1>3, <2>1, <2>2, OneByteIsNoticed
  <2>4. t[n + 5] = b[n + 5]
    BY <1>1, <1>5
  <2> QED BY <2>3, <2>4 DEF u, v
<1> QED BY <1>4, <1>5

\* A frame of which a byte has changed, but not the length, is skipped or has a
\* check byte that does not agree.
LEMMA DamagedIsPiece ==
  ASSUME NEW f \in Frames, NEW k \in DOMAIN Bytes[f], NEW byte \in U8,
         k # 4, byte # Bytes[f][k],
         \A j \in 2 .. Len(Bytes[f]) : Bytes[f][j] \notin Headers
  PROVE  [Bytes[f] EXCEPT ![k] = byte] \in Piece /\ ~Good([Bytes[f] EXCEPT ![k] = byte])
<1> DEFINE b == Bytes[f]
           n == Len(f.data)
           t == [b EXCEPT ![k] = byte]
<1>1. /\ n \in 1 .. Payload /\ b \in Seq(U8) /\ Len(b) = n + 5
      /\ b[1] = f.header /\ b[2] = HUP_REQ_HDR_L /\ b[4] = n
      /\ b[n + 5] = XorAll(SubSeq(b, 1, n + 4))
  BY FrameBytes
<1>2. f.header \in Headers
  BY FrameAssumption
<1>3. byte # b[k] /\ \A j \in 2 .. Len(b) : b[j] \notin Headers
  OBVIOUS
<1>4. k \in DOMAIN b
  OBVIOUS
<1> HIDE DEF b, n
<1>5. n \in 1 .. 255 /\ k \in 1 .. n + 5
  <2>1. DOMAIN b = 1 .. Len(b)
    BY <1>1, LenProperties
  <2> QED BY <1>1, <1>4, <2>1, PayloadIsByte
<1>6. /\ t \in Seq(U8) /\ Len(t) = n + 5 /\ t[k] = byte
      /\ \A j \in 1 .. n + 5 : j # k => t[j] = b[j]
  <2>1. k \in 1 .. Len(b)
    BY <1>1, <1>5
  <2>2. /\ t \in Seq(U8) /\ Len(t) = Len(b)
        /\ \A j \in 1 .. Len(b) : t[j] = IF j = k THEN byte ELSE b[j]
    BY <1>1, <2>1, ExceptSeq
  <2> QED BY <1>1, <1>5, <2>2
<1> HIDE DEF t
<1>num. /\ n + 5 - 1 = n + 4 /\ n + 5 >= 2 /\ n + 5 >= 1
        /\ 1 \in 1 .. n + 5 /\ 2 \in 1 .. n + 5 /\ 4 \in 1 .. n + 5 /\ n + 5 \in 1 .. n + 5
        /\ \A j \in 0 + 1 .. n + 5 : j = 1 \/ (j \in 1 .. n + 5 /\ j \in 2 .. n + 5)
        /\ \A j \in 2 + 1 .. n + 5 : j \in 1 .. n + 5 /\ j \in 2 .. n + 5 /\ j # 2 /\ j # 1
        /\ k # n + 5 => k \in 1 .. n + 4
        /\ n + 4 \in 0 .. n + 5 /\ n + 4 - 1 + 1 = n + 4 /\ 1 <= n + 4
  BY <1>5
<1>7. ASSUME Whole(t) PROVE ~Good(t)
  <2>1. t[n + 5] # XorAll(SubSeq(t, 1, n + 4))
    BY <1>1, <1>3, <1>5, <1>6, DamageIsNoticed
  <2>2. Len(t) = n + 5 /\ Len(t) - 1 = n + 4
    BY <1>5, <1>6
  <2> QED BY <2>1, <2>2 DEF Good
<1>8. ASSUME k = 1, byte \notin Headers PROVE Skipped(t)
  <2>1. Unmarked(t, 0)
    BY <1>1, <1>3, <1>6, <1>8, <1>num DEF Unmarked
  <2> QED BY <1>6, <1>num, <2>1 DEF Skipped
<1>9. ASSUME k = 2 PROVE Skipped(t)
  <2>1. t[1] \in Headers /\ t[2] # HUP_REQ_HDR_L
    BY <1>1, <1>2, <1>3, <1>6, <1>9, <1>num
  <2>2. Unmarked(t, 2)
    BY <1>1, <1>3, <1>6, <1>9, <1>num DEF Unmarked
  <2> QED BY <1>6, <1>num, <2>1, <2>2 DEF Skipped
<1>10. ASSUME k # 2, k = 1 => byte \in Headers PROVE Whole(t)
  <2>1. t[1] \in Headers /\ t[2] = HUP_REQ_HDR_L /\ t[4] = n
    BY <1>1, <1>2, <1>6, <1>10, <1>num
  <2> QED BY <1>1, <1>6, <2>1 DEF Whole
<1>11. t \in Piece /\ ~Good(t)
  BY <1>6, <1>7, <1>8, <1>9, <1>10, SkippedIsNotGood DEF Piece
<1> QED BY <1>11 DEF t, b

LEMMA NoiseIsPiece ==
  ASSUME NEW byte \in Noise
  PROVE  <<byte>> \in Piece /\ ~Good(<<byte>>)
<1>1. <<byte>> \in Seq(U8) /\ Len(<<byte>>) = 1 /\ <<byte>>[1] = byte /\ byte \notin Headers
  BY NoiseAssumption
<1>2. Unmarked(<<byte>>, 0)
  BY <1>1 DEF Unmarked
<1>3. Skipped(<<byte>>)
  BY <1>1, <1>2 DEF Skipped
<1> QED BY <1>1, <1>3, SkippedIsNotGood DEF Piece
-----------------------------------------------------------------------------
(* Pieces come, are parsed byte by byte, and go.                           *)

LEMMA PieceTyped ==
  ASSUME NEW p \in Piece
  PROVE  p \in Seq(U8) /\ Len(p) \in Nat /\ Len(p) \in Int /\ 1 <= Len(p)
<1>1. p \in Seq(U8) /\ Len(p) \in Nat
  BY LenProperties DEF Piece
<1>2. Skipped(p) => Len(p) >= 1
  BY DEF Skipped
<1>3. Whole(p) => Len(p) >= 1
  <2>1. \A n \in 1 .. Payload : n + 5 >= 1
    BY SizeAssumption DEF U8
  <2> QED BY <2>1 DEF Whole
<1> QED BY <1>1, <1>2, <1>3 DEF Piece

\* Byte j of a piece of n bytes that begins behind a and ends within b bytes.
LEMMA ByteWithin ==
  ASSUME NEW a \in Int, NEW n \in Nat, NEW b \in Int, a + n <= b,
         NEW j \in 1 .. n, a + j >= 1
  PROVE  a + j \in 1 .. b
OBVIOUS

\* A piece is sent.
LEMMA LaidAppend ==
  ASSUME NEW pieces \in Seq(Piece), NEW bytes \in Seq(U8), NEW at,
         Laid(at, pieces, bytes),
         NEW p \in Piece
  PROVE  \E after : after[1] = at[1] /\ Laid(after, Append(pieces, p), bytes \o p)
<1> DEFINE L == Len(pieces)
           B == Len(bytes)
           N == Len(p)
           after == [k \in 1 .. L + 2 |-> IF k = L + 2 THEN B + N ELSE at[k]]
           more == Append(pieces, p)
           all == bytes \o p
<1>1. L \in Nat /\ B \in Nat /\ N \in Nat
  BY LenProperties, PieceTyped
<1>2. /\ Len(more) = L + 1
      /\ \A k \in 1 .. L : more[k] = pieces[k]
      /\ more[L + 1] = p
  BY AppendProperties
<1>3. /\ Len(all) = B + N
      /\ \A i \in 1 .. B : all[i] = bytes[i]
      /\ \A i \in 1 .. N : all[B + i] = p[i]
  BY ConcatProperties, <1>1
<1>4. \A k \in 1 .. L : pieces[k] \in Piece /\ Len(pieces[k]) \in Nat
  BY ElementOfSeq, PieceTyped
<1>5. /\ at \in [1 .. L + 1 -> Int]
      /\ at[L + 1] = B
      /\ \A k \in 1 .. L + 1 : at[k] <= B
      /\ \A k \in 1 .. L : at[k + 1] = at[k] + Len(pieces[k])
      /\ \A k \in 1 .. L : \A j \in 1 .. Len(pieces[k]) :
           at[k] + j >= 1 => bytes[at[k] + j] = pieces[k][j]
  BY DEF Laid
<1> HIDE DEF L, B, N, more, all
<1>6. after \in [1 .. L + 2 -> Int] /\ after[L + 2] = B + N
  <2>1. B + N \in Int /\ L + 2 \in 1 .. L + 2
    BY <1>1
  <2>2. \A k \in 1 .. L + 2 : k # L + 2 => k \in 1 .. L + 1
    BY <1>1
  <2> HIDE DEF N
  <2> QED BY <1>5, <2>1, <2>2
<1>7. \A k \in 1 .. L + 1 : after[k] = at[k]
  BY <1>1
<1>8. \A k \in 1 .. L + 2 : after[k] <= B + N
  BY <1>1, <1>5, <1>6, <1>7
<1>9. \A k \in 1 .. L + 1 : after[k + 1] = after[k] + Len(more[k])
  <2>1. \A k \in 1 .. L : after[k + 1] = after[k] + Len(more[k])
    <3> SUFFICES ASSUME NEW k \in 1 .. L
                 PROVE  after[k + 1] = after[k] + Len(more[k])
      OBVIOUS
    <3>1. k \in 1 .. L + 1 /\ k + 1 \in 1 .. L + 1
      BY <1>1
    <3>2. after[k] = at[k] /\ after[k + 1] = at[k + 1] /\ more[k] = pieces[k]
      BY <1>2, <1>7, <3>1
    <3>3. at[k + 1] = at[k] + Len(pieces[k])
      BY <1>5
    <3> HIDE DEF after
    <3> QED BY <3>2, <3>3, Zenon
  <2>2. after[L + 2] = after[L + 1] + Len(more[L + 1])
    BY <1>1, <1>2, <1>5, <1>6, <1>7 DEF N
  <2>3. \A k \in 1 .. L + 1 : k \in 1 .. L \/ (k = L + 1 /\ k + 1 = L + 2)
    BY <1>1
  <2> QED BY <2>1, <2>2, <2>3
<1>10. \A k \in 1 .. L + 1 : \A j \in 1 .. Len(more[k]) :
         after[k] + j >= 1 => all[after[k] + j] = more[k][j]
  <2> SUFFICES ASSUME NEW k \in 1 .. L + 1, NEW j \in 1 .. Len(more[k]),
                      after[k] + j >= 1
               PROVE  all[after[k] + j] = more[k][j]
    OBVIOUS
  <2>1. CASE k = L + 1
    <3>1. more[k] = p /\ after[k] = B /\ j \in 1 .. N
      BY <1>1, <1>2, <1>5, <1>7, <2>1 DEF N
    <3>2. all[B + j] = p[j]
      BY <1>3, <3>1
    <3> QED BY <3>1, <3>2 DEF N
  <2>2. CASE k # L + 1
    <3>1. k \in 1 .. L /\ more[k] = pieces[k] /\ after[k] = at[k]
      BY <1>1, <1>2, <1>7, <2>2
    <3>2. at[k + 1] = at[k] + Len(pieces[k]) /\ at[k + 1] <= B
      BY <1>1, <1>5, <3>1
    <3>3. at[k] + j \in 1 .. B
      <4>1. at[k] \in Int /\ Len(pieces[k]) \in Nat
        BY <1>1, <1>4, <1>5, <3>1
      <4>2. at[k] + Len(pieces[k]) <= B /\ at[k] + j >= 1 /\ B \in Int
        BY <1>1, <3>1, <3>2
      <4>3. j \in 1 .. Len(pieces[k])
        BY <3>1
      <4> QED BY <4>1, <4>2, <4>3, ByteWithin
    <3>4. all[at[k] + j] = bytes[at[k] + j]
      BY <1>3, <3>3
    <3> QED BY <1>5, <3>1, <3>3, <3>4
  <2> QED BY <2>1, <2>2
<1>11. Laid(after, more, all)
  <2> HIDE DEF after
  <2>1. L + 1 + 1 = L + 2
    BY <1>1
  <2> QED BY <1>2, <1>3, <1>6, <1>8, <1>9, <1>10, <2>1 DEF Laid
<1>12. after[1] = at[1]
  BY <1>1, <1>7
<1> QED BY <1>11, <1>12 DEF more, all

\* A byte is parsed.
LEMMA LaidTail ==
  ASSUME NEW pieces \in Seq(Piece), NEW bytes \in Seq(U8), bytes # <<>>, NEW at,
         Laid(at, pieces, bytes)
  PROVE  Laid([k \in 1 .. Len(pieces) + 1 |-> at[k] - 1], pieces, Tail(bytes))
<1> DEFINE L == Len(pieces)
           B == Len(bytes)
           after == [k \in 1 .. L + 1 |-> at[k] - 1]
           rest == Tail(bytes)
<1>1. L \in Nat /\ B \in Nat \ {0}
  BY LenProperties, EmptySeq
<1>2. Len(rest) = B - 1 /\ \A i \in 1 .. B - 1 : rest[i] = bytes[i + 1]
  BY HeadTailProperties
<1>3. \A k \in 1 .. L : /\ Len(pieces[k]) \in Nat
                        /\ Len(pieces[k]) \in Int
  BY ElementOfSeq, PieceTyped
<1>4. /\ at \in [1 .. L + 1 -> Int]
      /\ at[L + 1] = B
      /\ \A k \in 1 .. L + 1 : at[k] <= B
      /\ \A k \in 1 .. L : at[k + 1] = at[k] + Len(pieces[k])
      /\ \A k \in 1 .. L : \A j \in 1 .. Len(pieces[k]) :
           at[k] + j >= 1 => bytes[at[k] + j] = pieces[k][j]
  BY DEF Laid
<1> HIDE DEF L, B, rest
<1>5. after \in [1 .. L + 1 -> Int] /\ after[L + 1] = B - 1
  BY <1>1, <1>4
<1>6. \A k \in 1 .. L + 1 : after[k] <= B - 1
  BY <1>1, <1>4
<1>7. \A k \in 1 .. L : after[k + 1] = after[k] + Len(pieces[k])
  <2> SUFFICES ASSUME NEW k \in 1 .. L
               PROVE  after[k + 1] = after[k] + Len(pieces[k])
    OBVIOUS
  <2>1. k \in 1 .. L + 1 /\ k + 1 \in 1 .. L + 1
    BY <1>1
  <2>2. after[k] = at[k] - 1 /\ after[k + 1] = at[k + 1] - 1
    BY <2>1
  <2>3. at[k] \in Int
    BY <1>4, <2>1
  <2>4. Len(pieces[k]) \in Int
    BY <1>3
  <2>5. at[k + 1] = at[k] + Len(pieces[k])
    BY <1>4
  <2> HIDE DEF after
  <2>7. PICK n \in Int : n = Len(pieces[k])
    BY <2>4
  <2>9. at[k + 1] = at[k] + n
    BY <2>5, <2>7
  <2>10. after[k + 1] = after[k] + n
    <3>1. PICK a \in Int : a = at[k]
      BY <2>3
    <3>2. PICK b \in Int : b = at[k + 1] /\ b = a + n
      BY <2>9, <3>1
    <3>3. after[k] = a - 1 /\ after[k + 1] = b - 1
      BY <2>2, <3>1, <3>2
    <3>4. b - 1 = a - 1 + n
      BY <3>2
    <3> QED BY <3>3, <3>4
  <2> QED BY <2>7, <2>10, Zenon
<1>8. \A k \in 1 .. L : \A j \in 1 .. Len(pieces[k]) :
        after[k] + j >= 1 => rest[after[k] + j] = pieces[k][j]
  <2> SUFFICES ASSUME NEW k \in 1 .. L, NEW j \in 1 .. Len(pieces[k]),
                      after[k] + j >= 1
               PROVE  rest[after[k] + j] = pieces[k][j]
    OBVIOUS
  <2>1. at[k + 1] = at[k] + Len(pieces[k]) /\ at[k + 1] <= B /\ at[k] \in Int
    BY <1>1, <1>4
  <2>2. after[k] = at[k] - 1
    BY <1>1
  <2>3. after[k] + j \in 1 .. B - 1 /\ after[k] + j + 1 = at[k] + j /\ at[k] + j >= 1
    <3>1. Len(pieces[k]) \in Nat /\ B - 1 \in Int /\ at[k] - 1 \in Int
      BY <1>1, <1>3, <2>1
    <3>2. at[k] - 1 + Len(pieces[k]) <= B - 1
      <4>1. \A a, n, b \in Int : a + n <= b => a - 1 + n <= b - 1
        OBVIOUS
      <4>2. at[k] + Len(pieces[k]) <= B
        BY <2>1
      <4>3. Len(pieces[k]) \in Int /\ B \in Int
        BY <1>1, <1>3
      <4> QED BY <2>1, <4>1, <4>2, <4>3
    <3>3. after[k] + j \in 1 .. B - 1
      BY <2>2, <3>1, <3>2, ByteWithin
    <3> QED BY <2>1, <2>2, <3>1, <3>3
  <2>4. rest[after[k] + j] = bytes[at[k] + j]
    BY <1>2, <2>3
  <2> QED BY <1>4, <2>3, <2>4
<1> HIDE DEF after
<1>9. Laid(after, pieces, rest)
  BY <1>2, <1>5, <1>6, <1>7, <1>8 DEF Laid, L
<1> QED BY <1>9 DEF after, L, rest

\* The first frame is handed over.
LEMMA LaidDrop ==
  ASSUME NEW pieces \in Seq(Piece), pieces # <<>>, NEW bytes \in Seq(U8), NEW at,
         Laid(at, pieces, bytes)
  PROVE  Laid([k \in 1 .. Len(pieces) |-> at[k + 1]], Tail(pieces), bytes)
<1> DEFINE L == Len(pieces)
           B == Len(bytes)
           after == [k \in 1 .. L |-> at[k + 1]]
           fewer == Tail(pieces)
<1>1. L \in Nat \ {0} /\ B \in Nat
  BY LenProperties, EmptySeq
<1>2. Len(fewer) = L - 1 /\ \A k \in 1 .. L - 1 : fewer[k] = pieces[k + 1]
  BY HeadTailProperties
<1>3. /\ at \in [1 .. L + 1 -> Int]
      /\ at[L + 1] = B
      /\ \A k \in 1 .. L + 1 : at[k] <= B
      /\ \A k \in 1 .. L : at[k + 1] = at[k] + Len(pieces[k])
      /\ \A k \in 1 .. L : \A j \in 1 .. Len(pieces[k]) :
           at[k] + j >= 1 => bytes[at[k] + j] = pieces[k][j]
  BY DEF Laid
<1> HIDE DEF L, B, fewer
<1>4. after \in [1 .. L -> Int] /\ after[L] = B
  BY <1>1, <1>3
<1>5. \A k \in 1 .. L : after[k] <= B
  BY <1>1, <1>3
<1>6. \A k \in 1 .. L - 1 : after[k + 1] = after[k] + Len(fewer[k])
  <2> SUFFICES ASSUME NEW k \in 1 .. L - 1
               PROVE  after[k + 1] = after[k] + Len(fewer[k])
    OBVIOUS
  <2>1. k \in 1 .. L /\ k + 1 \in 1 .. L
    BY <1>1
  <2>2. fewer[k] = pieces[k + 1] /\ after[k] = at[k + 1] /\ after[k + 1] = at[k + 1 + 1]
    BY <1>2, <2>1
  <2>3. at[k + 1 + 1] = at[k + 1] + Len(pieces[k + 1])
    BY <1>3, <2>1
  <2> HIDE DEF after
  <2> QED BY <2>2, <2>3, Zenon
<1>7. \A k \in 1 .. L - 1 : \A j \in 1 .. Len(fewer[k]) :
        after[k] + j >= 1 => bytes[after[k] + j] = fewer[k][j]
  <2> SUFFICES ASSUME NEW k \in 1 .. L - 1
               PROVE  \A j \in 1 .. Len(fewer[k]) :
                        after[k] + j >= 1 => bytes[after[k] + j] = fewer[k][j]
    OBVIOUS
  <2>1. k \in 1 .. L /\ k + 1 \in 1 .. L
    BY <1>1
  <2>2. fewer[k] = pieces[k + 1] /\ after[k] = at[k + 1]
    BY <1>2, <2>1
  <2> HIDE DEF after
  <2> QED BY <1>3, <2>1, <2>2
<1> HIDE DEF after
<1>8. L - 1 + 1 = L
  BY <1>1
<1>9. Laid(after, fewer, bytes)
  BY <1>2, <1>4, <1>5, <1>6, <1>7, <1>8 DEF Laid, B
<1> QED BY <1>9 DEF after, L, fewer



\* The good pieces are counted: one more is sent,
LEMMA CountedAppend ==
  ASSUME NEW S, NEW pieces \in Seq(Piece), NEW frames \in Seq(S), NEW before,
         Counted(before, pieces, frames), NEW p \in Piece, NEW more,
         IF Good(p) THEN Carried(p) \in S /\ more = Append(frames, Carried(p))
                    ELSE more = frames
  PROVE  \E after : Counted(after, Append(pieces, p), more)
<1> DEFINE L == Len(pieces)
           F == Len(frames)
           M == Len(more)
           after == [k \in 1 .. L + 2 |-> IF k = L + 2 THEN M ELSE before[k]]
           all == Append(pieces, p)
<1>1. L \in Nat /\ F \in Nat
  BY LenProperties
<1>2. /\ Len(all) = L + 1
      /\ \A k \in 1 .. L : all[k] = pieces[k]
      /\ all[L + 1] = p
  BY AppendProperties
<1>3. /\ M \in Nat /\ F <= M /\ \A i \in 1 .. F : more[i] = frames[i]
      /\ IF Good(p) THEN M = F + 1 /\ more[F + 1] = Carried(p) ELSE M = F
  <2>1. CASE Good(p)
    <3>1. more = Append(frames, Carried(p)) /\ Carried(p) \in S
      BY <2>1
    <3>2. /\ M = F + 1 /\ more[F + 1] = Carried(p)
          /\ \A i \in 1 .. F : more[i] = frames[i]
      BY <3>1, AppendProperties
    <3> QED BY <1>1, <2>1, <3>2
  <2>2. CASE ~Good(p)
    BY <1>1, <2>2
  <2> QED BY <2>1, <2>2
<1>4. /\ before \in [1 .. L + 1 -> Nat] /\ before[1] = 0 /\ before[L + 1] = F
      /\ \A i, k \in 1 .. L + 1 : i <= k => before[i] <= before[k]
      /\ \A k \in 1 .. L :
           IF Good(pieces[k])
             THEN /\ before[k + 1] = before[k] + 1
                  /\ frames[before[k] + 1] = Carried(pieces[k])
             ELSE before[k + 1] = before[k]
  BY DEF Counted
<1> HIDE DEF L, F, M, all
<1>5. after[L + 2] = M /\ \A k \in 1 .. L + 1 : after[k] = before[k]
  BY <1>1
<1>6. after \in [1 .. L + 2 -> Nat]
  <2>1. \A k \in 1 .. L + 2 : k # L + 2 => k \in 1 .. L + 1
    BY <1>1
  <2> QED BY <1>3, <1>4, <2>1
<1> HIDE DEF after
<1>7. after[1] = 0 /\ after[L + 1] = F
  <2>1. 1 \in 1 .. L + 1 /\ L + 1 \in 1 .. L + 1
    BY <1>1
  <2> QED BY <1>4, <1>5, <2>1
<1>8. \A k \in 1 .. L + 1 : before[k] <= F /\ before[k] \in Nat
  <2> SUFFICES ASSUME NEW k \in 1 .. L + 1 PROVE before[k] <= F /\ before[k] \in Nat
    OBVIOUS
  <2>1. L + 1 \in 1 .. L + 1 /\ k <= L + 1
    BY <1>1
  <2> QED BY <1>4, <2>1
<1>9. \A i, k \in 1 .. L + 2 : i <= k => after[i] <= after[k]
  <2> SUFFICES ASSUME NEW i \in 1 .. L + 2, NEW k \in 1 .. L + 2, i <= k
               PROVE  after[i] <= after[k]
    OBVIOUS
  <2>1. CASE k = L + 2 /\ i = L + 2
    BY <1>3, <1>5, <2>1
  <2>2. CASE k = L + 2 /\ i # L + 2
    <3>1. i \in 1 .. L + 1
      BY <1>1, <2>2
    <3>2. after[i] <= F /\ after[i] \in Nat /\ after[k] = M
      BY <1>5, <1>8, <2>2, <3>1
    <3> QED BY <1>1, <1>3, <3>2
  <2>3. CASE k # L + 2
    <3>1. i \in 1 .. L + 1 /\ k \in 1 .. L + 1
      BY <1>1, <2>3
    <3> QED BY <1>4, <1>5, <3>1
  <2> QED BY <2>1, <2>2, <2>3
<1>10. ASSUME NEW k \in 1 .. L + 1
       PROVE  IF Good(all[k])
                THEN after[k + 1] = after[k] + 1 /\ more[after[k] + 1] = Carried(all[k])
                ELSE after[k + 1] = after[k]
  <2>1. CASE k = L + 1
    <3>1. all[k] = p /\ after[k] = F /\ after[k + 1] = M
      <4>1. k + 1 = L + 2
        BY <1>1, <2>1
      <4> QED BY <1>2, <1>5, <1>7, <2>1, <4>1
    <3> QED BY <1>3, <3>1
  <2>2. CASE k # L + 1
    <3>1. k \in 1 .. L /\ k \in 1 .. L + 1 /\ k + 1 \in 1 .. L + 1
      BY <1>1, <2>2
    <3>2. all[k] = pieces[k] /\ after[k] = before[k] /\ after[k + 1] = before[k + 1]
      BY <1>2, <1>5, <3>1
    <3>3. CASE Good(pieces[k])
      <4>1. before[k + 1] = before[k] + 1 /\ frames[before[k] + 1] = Carried(pieces[k])
        BY <1>4, <3>1, <3>3
      <4>2. before[k] \in Nat /\ before[k + 1] <= F
        BY <1>8, <3>1
      <4>3. before[k] + 1 \in 1 .. F
        BY <1>1, <4>1, <4>2
      <4> QED BY <1>3, <3>2, <3>3, <4>1, <4>3
    <3>4. CASE ~Good(pieces[k])
      BY <1>4, <3>1, <3>2, <3>4
    <3> QED BY <3>3, <3>4
  <2> QED BY <2>1, <2>2
<1>11. Counted(after, all, more)
  <2>1. L + 1 + 1 = L + 2
    BY <1>1
  <2>2. Len(all) + 1 = L + 2
    BY <1>2, <2>1
  <2> QED BY <1>2, <1>5, <1>6, <1>7, <1>9, <1>10, <2>1, <2>2 DEF Counted, M
<1> QED BY <1>11 DEF all

\* and the first piece is done.
LEMMA CountedDrop ==
  ASSUME NEW S, NEW pieces \in Seq(Piece), pieces # <<>>, NEW frames \in Seq(S),
         NEW before, Counted(before, pieces, frames)
  PROVE  /\ Good(pieces[1]) =>
              /\ frames # <<>> /\ frames[1] = Carried(pieces[1])
              /\ \E after : Counted(after, Tail(pieces), Tail(frames))
         /\ ~Good(pieces[1]) => \E after : Counted(after, Tail(pieces), frames)
<1> DEFINE L == Len(pieces)
           F == Len(frames)
           fewer == Tail(pieces)
<1>1. L \in Nat \ {0} /\ F \in Nat
  BY LenProperties, EmptySeq
<1>2. Len(fewer) = L - 1 /\ \A k \in 1 .. L - 1 : fewer[k] = pieces[k + 1]
  BY HeadTailProperties
<1>3. /\ before \in [1 .. L + 1 -> Nat] /\ before[1] = 0 /\ before[L + 1] = F
      /\ \A i, k \in 1 .. L + 1 : i <= k => before[i] <= before[k]
      /\ \A k \in 1 .. L :
           IF Good(pieces[k])
             THEN /\ before[k + 1] = before[k] + 1
                  /\ frames[before[k] + 1] = Carried(pieces[k])
             ELSE before[k + 1] = before[k]
  BY DEF Counted
<1> HIDE DEF L, F, fewer
<1>num. /\ 1 \in 1 .. L /\ 1 \in 1 .. L + 1 /\ 1 + 1 = 2 /\ 0 + 1 = 1
        /\ 2 \in 1 .. L + 1 /\ 2 <= L + 1 /\ L + 1 \in 1 .. L + 1
        /\ L - 1 + 1 = L /\ 1 \in 1 .. L /\ L \in 1 .. L
        /\ \A k \in 1 .. L : /\ k + 1 \in 1 .. L + 1 /\ 2 <= k + 1 /\ k + 1 \in Nat
        /\ \A k \in 1 .. L - 1 : k \in 1 .. L /\ k + 1 \in 1 .. L
  BY <1>1
\* Behind the first piece there are as many as before, or one less.
<1>4. ASSUME NEW g \in 0 .. 1, before[2] = g, NEW rest,
             Len(rest) = F - g, \A i \in 1 .. F - g : rest[i] = frames[i + g]
      PROVE  \E after : Counted(after, fewer, rest)
  <2> DEFINE after == [k \in 1 .. L |-> before[k + 1] - g]
  <2>1. \A k \in 1 .. L : /\ before[k + 1] \in Nat /\ g <= before[k + 1]
                          /\ before[k + 1] <= F
    <3> SUFFICES ASSUME NEW k \in 1 .. L
                 PROVE  before[k + 1] \in Nat /\ g <= before[k + 1] /\ before[k + 1] <= F
      OBVIOUS
    <3>1. k + 1 \in 1 .. L + 1 /\ 2 <= k + 1 /\ k + 1 <= L + 1
      BY <1>1, <1>num
    <3>2. before[2] <= before[k + 1] /\ before[k + 1] <= before[L + 1]
      BY <1>3, <1>num, <3>1
    <3> QED BY <1>3, <1>4, <3>1, <3>2
  <2>2. after \in [1 .. L -> Nat]
    <3>1. \A k \in 1 .. L : before[k + 1] - g \in Nat
      BY <2>1
    <3> QED BY <3>1
  <2>3. \A k \in 1 .. L : after[k] = before[k + 1] - g
    OBVIOUS
  <2> HIDE DEF after
  <2>4. after[1] = 0 /\ after[L] = F - g
    <3>1. after[1] = before[2] - g /\ after[L] = before[L + 1] - g
      BY <1>num, <2>3
    <3> QED BY <1>3, <1>4, <3>1
  <2>5. \A i, k \in 1 .. L : i <= k => after[i] <= after[k]
    <3> SUFFICES ASSUME NEW i \in 1 .. L, NEW k \in 1 .. L, i <= k
                 PROVE  after[i] <= after[k]
      OBVIOUS
    <3>1. i + 1 \in 1 .. L + 1 /\ k + 1 \in 1 .. L + 1 /\ i + 1 <= k + 1
      BY <1>1
    <3>2. before[i + 1] <= before[k + 1]
      BY <1>3, <3>1
    <3> QED BY <2>1, <2>3, <3>2
  <2>6. ASSUME NEW k \in 1 .. L - 1
        PROVE  IF Good(fewer[k])
                 THEN after[k + 1] = after[k] + 1 /\ rest[after[k] + 1] = Carried(fewer[k])
                 ELSE after[k + 1] = after[k]
    <3>1. k \in 1 .. L /\ k + 1 \in 1 .. L /\ fewer[k] = pieces[k + 1]
      BY <1>2, <1>num
    <3>2. after[k] = before[k + 1] - g /\ after[k + 1] = before[k + 1 + 1] - g
      BY <2>3, <3>1
    <3>3. /\ before[k + 1] \in Nat /\ g <= before[k + 1]
          /\ before[k + 1 + 1] \in Nat /\ before[k + 1 + 1] <= F
      BY <2>1, <3>1
    <3>4. CASE Good(fewer[k])
      <4>1. /\ before[k + 1 + 1] = before[k + 1] + 1
            /\ frames[before[k + 1] + 1] = Carried(fewer[k])
        BY <1>3, <3>1, <3>4
      <4>2. after[k] + 1 \in 1 .. F - g /\ after[k] + 1 + g = before[k + 1] + 1
        <5>1. PICK a, b \in Nat : a = before[k + 1] /\ b = before[k + 1 + 1]
          BY <3>3
        <5>2. g <= a /\ b <= F /\ b = a + 1 /\ after[k] = a - g
          BY <3>2, <3>3, <4>1, <5>1
        <5>3. a - g + 1 \in 1 .. F - g /\ a - g + 1 + g = a + 1
          BY <1>1, <5>2
        <5> QED BY <5>1, <5>2, <5>3
      <4>3. rest[after[k] + 1] = frames[before[k + 1] + 1]
        BY <1>4, <4>2
      <4>4. after[k + 1] = after[k] + 1
        BY <3>2, <3>3, <4>1
      <4> QED BY <3>4, <4>1, <4>3, <4>4
    <3>5. CASE ~Good(fewer[k])
      <4>1. before[k + 1 + 1] = before[k + 1]
        BY <1>3, <3>1, <3>5
      <4> QED BY <3>2, <3>5, <4>1
    <3> QED BY <3>4, <3>5
  <2>7. Counted(after, fewer, rest)
    <3>1. Len(fewer) + 1 = L
      BY <1>2, <1>num
    <3> QED BY <1>2, <1>4, <2>2, <2>4, <2>5, <2>6, <3>1 DEF Counted
  <2> QED BY <2>7
<1>5. ASSUME Good(pieces[1])
      PROVE  /\ frames # <<>> /\ frames[1] = Carried(pieces[1])
             /\ \E after : Counted(after, fewer, Tail(frames))
  <2>1. before[2] = 1 /\ frames[1] = Carried(pieces[1])
    BY <1>3, <1>5, <1>num
  <2>2. before[2] <= before[L + 1]
    BY <1>3, <1>num
  <2>3. F >= 1
    BY <1>1, <1>3, <2>1, <2>2
  <2>4. frames # <<>>
    BY <2>3 DEF F
  <2>5. /\ Len(Tail(frames)) = F - 1
        /\ \A i \in 1 .. F - 1 : Tail(frames)[i] = frames[i + 1]
    BY <2>4, HeadTailProperties DEF F
  <2>6. \E after : Counted(after, fewer, Tail(frames))
    <3>1. PICK g \in 0 .. 1 : g = 1
      OBVIOUS
    <3>2. PICK rest : rest = Tail(frames)
      OBVIOUS
    <3>3. before[2] = g /\ Len(rest) = F - g /\ \A i \in 1 .. F - g : rest[i] = frames[i + g]
      BY <2>1, <2>5, <3>1, <3>2
    <3>4. \E after : Counted(after, fewer, rest)
      BY <1>4, <3>3
    <3> QED BY <3>2, <3>4
  <2> QED BY <2>1, <2>4, <2>6
<1>6. ASSUME ~Good(pieces[1])
      PROVE  \E after : Counted(after, fewer, frames)
  <2>1. before[2] = 0
    BY <1>3, <1>6, <1>num
  <2>2. Len(frames) = F - 0 /\ \A i \in 1 .. F - 0 : frames[i] = frames[i + 0]
    BY <1>1 DEF F
  <2> QED BY <1>4, <2>1, <2>2
<1> QED BY <1>5, <1>6 DEF fewer
-----------------------------------------------------------------------------
(* hup_parse in a piece.                                                   *)

\* The piece is done: what has been handed over.
Done(s) ==
  IF Good(s) THEN handled' = Carried(s) /\ transit' = IF transit = <<>> THEN <<>> ELSE Tail(transit)
             ELSE UNCHANGED <<handled, transit>>

\* Only one state of hup_parse's switch takes the byte.
LEMMA OneState ==
  ASSUME \/ ParseHeaderHigh \/ ParseHeaderLow \/ ParseCmd \/ ParseDataLen
         \/ ParseData \/ ParseCrc
  PROVE  /\ state = "HDR_H" => ParseHeaderHigh
         /\ state = "HDR_L" => ParseHeaderLow
         /\ state = "CMD" => ParseCmd
         /\ state = "DATA_LEN" => ParseDataLen
         /\ state = "DATA" => ParseData
         /\ state = "CRC" => ParseCrc
BY DEF ParseHeaderHigh, ParseHeaderLow, ParseCmd, ParseDataLen, ParseData, ParseCrc

LEMMA XorOfNone == XorAll(<<>>) = 0
<1>1. <<>> \in Seq(U8) /\ DOMAIN <<>> = {}
  OBVIOUS
<1>2. \A k \in Powers : Odd(<<>>, k) = 0
  <2> SUFFICES ASSUME NEW k \in Powers PROVE Odd(<<>>, k) = 0
    OBVIOUS
  <2>1. Ones(<<>>, k) = {}
    BY <1>1 DEF Ones
  <2> QED BY <2>1, FS_EmptySet DEF Odd
<1>3. /\ Odd(<<>>, 1) = 0 /\ Odd(<<>>, 2) = 0 /\ Odd(<<>>, 4) = 0 /\ Odd(<<>>, 8) = 0
      /\ Odd(<<>>, 16) = 0 /\ Odd(<<>>, 32) = 0 /\ Odd(<<>>, 64) = 0 /\ Odd(<<>>, 128) = 0
  BY <1>2 DEF Powers
<1>4. XorAll(<<>>) = 1 * Odd(<<>>, 1) + 2 * Odd(<<>>, 2) + 4 * Odd(<<>>, 4)
                     + 8 * Odd(<<>>, 8) + 16 * Odd(<<>>, 16) + 32 * Odd(<<>>, 32)
                     + 64 * Odd(<<>>, 64) + 128 * Odd(<<>>, 128)
  BY <1>1, XorAllBits
<1>5. XorAll(<<>>) = 1 * 0 + 2 * 0 + 4 * 0 + 8 * 0 + 16 * 0 + 32 * 0 + 64 * 0 + 128 * 0
  BY <1>3, <1>4, Zenon
<1> QED BY <1>5

\* The exclusive or so far, with one byte more.
LEMMA XorNext ==
  ASSUME NEW s \in Seq(U8), NEW c \in Nat, c < Len(s),
         NEW x, x = XorAll(SubSeq(s, 1, c))
  PROVE  Xor(x, s[c + 1]) = XorAll(SubSeq(s, 1, c + 1))
<1>1. c + 1 \in 1 .. Len(s) /\ 1 <= c + 1 /\ c \in 0 .. Len(s) /\ c + 1 - 1 = c
  BY LenProperties
<1>2. SubSeq(s, 1, c + 1) = Append(SubSeq(s, 1, c + 1 - 1), s[c + 1])
  BY <1>1, PartAppend
<1>3. SubSeq(s, 1, c) \in Seq(U8) /\ s[c + 1] \in U8
  BY <1>1, PartBytes, ElementOfSeq
<1>4. XorAll(Append(SubSeq(s, 1, c), s[c + 1])) = Xor(XorAll(SubSeq(s, 1, c)), s[c + 1])
  BY <1>3, XorAllAppend
<1> QED BY <1>1, <1>2, <1>4

LEMMA PieceNotWhole ==
  ASSUME NEW s \in Piece, ~Whole(s)
  PROVE  Skipped(s)
BY DEF Piece

\* A piece begins.
LEMMA BeginStep ==
  ASSUME NEW s \in Piece, Fresh, temp = s[1], ParseHeaderHigh
  PROVE  /\ UNCHANGED <<handled, transit, overrun>>
         /\ \/ 1 < Len(s) /\ (InFrame(1, s)' \/ InSkipped(1, s)')
            \/ 1 = Len(s) /\ Fresh' /\ ~Good(s)
<1>1. s \in Seq(U8) /\ Len(s) \in Nat /\ 1 <= Len(s)
  BY PieceTyped
<1>2. UNCHANGED <<handled, transit, overrun>>
  BY DEF ParseHeaderHigh, Quiet
<1>3. CASE temp \in Headers
  <2>1. state' = "HDR_L" /\ xor8' = Xor(0, s[1]) /\ data' = <<>>
    BY <1>3 DEF ParseHeaderHigh, Fresh
  <2>2. CASE Whole(s)
    <3>1. Len(s) > 1
      <4>1. \A n \in 1 .. 255 : n + 5 > 1
        OBVIOUS
      <4> QED BY <2>2, <4>1, PayloadIsByte DEF Whole
    <3>2. SubSeq(s, 1, 0) = <<>> /\ SubSeq(s, 5, 1) = <<>>
      BY SubSeqEmpty
    <3>3. Xor(0, s[0 + 1]) = XorAll(SubSeq(s, 1, 0 + 1))
      <4>1. 0 \in Nat /\ 0 < Len(s)
        BY <1>1
      <4>2. 0 = XorAll(SubSeq(s, 1, 0))
        BY <3>2, XorOfNone
      <4> QED BY <1>1, <4>1, <4>2, XorNext
    <3>4. InFrame(1, s)'
      BY <2>1, <2>2, <3>2, <3>3 DEF InFrame
    <3> QED BY <1>2, <3>1, <3>4
  <2>3. CASE ~Whole(s)
    <3>1. Skipped(s) /\ s[1] \in Headers
      BY <1>3, <2>3, PieceNotWhole
    <3>2. Len(s) >= 2
      <4>1. ~Unmarked(s, 0)
        BY <1>1, <3>1 DEF Unmarked
      <4> QED BY <3>1, <4>1 DEF Skipped
    <3>3. InSkipped(1, s)'
      BY <2>1, <3>1 DEF InSkipped
    <3> QED BY <1>1, <1>2, <3>2, <3>3
  <2> QED BY <2>2, <2>3
<1>4. CASE temp \notin Headers
  <2>1. Fresh'
    BY <1>4 DEF ParseHeaderHigh, Reset, Fresh
  <2>2. ~Whole(s)
    BY <1>4 DEF Whole
  <2>3. Skipped(s) /\ ~Good(s)
    BY <2>2, PieceNotWhole, SkippedIsNotGood
  <2>4. Unmarked(s, 0)
    BY <1>4, <2>3 DEF Skipped
  <2>5. Unmarked(s, 1)
    <3>1. \A j \in 1 + 1 .. Len(s) : j \in 0 + 1 .. Len(s)
      BY <1>1
    <3> QED BY <2>4, <3>1 DEF Unmarked
  <2>6. 1 < Len(s) => 1 \in 1 .. Len(s) - 1
    BY <1>1
  <2>7. 1 < Len(s) => InSkipped(1, s)'
    BY <2>1, <2>3, <2>5, <2>6 DEF InSkipped
  <2>8. 1 < Len(s) \/ 1 = Len(s)
    BY <1>1
  <2> QED BY <1>2, <2>1, <2>3, <2>7, <2>8
<1> QED BY <1>3, <1>4

\* A piece that is skipped goes on.
LEMMA SkipStep ==
  ASSUME NEW s \in Piece, NEW c \in Nat, InSkipped(c, s), temp = s[c + 1],
         \/ ParseHeaderHigh \/ ParseHeaderLow \/ ParseCmd \/ ParseDataLen
         \/ ParseData \/ ParseCrc
  PROVE  /\ UNCHANGED <<handled, transit, overrun>> /\ ~Good(s)
         /\ \/ c + 1 < Len(s) /\ InSkipped(c + 1, s)'
            \/ c + 1 = Len(s) /\ Fresh'
<1>1. s \in Seq(U8) /\ Len(s) \in Nat /\ 1 <= Len(s) /\ Skipped(s) /\ ~Good(s)
  BY PieceTyped, SkippedIsNotGood DEF InSkipped
<1>2. ASSUME Fresh', UNCHANGED <<handled, transit, overrun>>, c + 1 <= Len(s), Unmarked(s, c + 1)
      PROVE  /\ UNCHANGED <<handled, transit, overrun>> /\ ~Good(s)
             /\ \/ c + 1 < Len(s) /\ InSkipped(c + 1, s)'
                \/ c + 1 = Len(s) /\ Fresh'
  <2>1. c + 1 < Len(s) => c + 1 \in 1 .. Len(s) - 1
    BY <1>1
  <2>2. c + 1 < Len(s) => InSkipped(c + 1, s)'
    BY <1>1, <1>2, <2>1 DEF InSkipped
  <2> QED BY <1>1, <1>2, <2>2
<1>3. CASE state = "HDR_L" /\ c = 1 /\ s[1] \in Headers
  <2>1. Len(s) >= 2 /\ s[2] # HUP_REQ_HDR_L /\ Unmarked(s, 2)
    <3>1. ~Unmarked(s, 0)
      BY <1>1, <1>3 DEF Unmarked
    <3> QED BY <1>1, <3>1 DEF Skipped
  <2>2. ParseHeaderLow /\ temp = s[2]
    BY <1>3, OneState
  <2>3. Fresh' /\ UNCHANGED <<handled, transit, overrun>>
    BY <2>1, <2>2 DEF ParseHeaderLow, Reset, Quiet, Fresh, HUP_REQ_HDR_L, HUP_ACK_HDR_L
  <2> QED BY <1>1, <1>2, <1>3, <2>1, <2>3
<1>4. CASE Fresh /\ c \in 1 .. Len(s) - 1 /\ Unmarked(s, c)
  <2>1. ParseHeaderHigh
    BY <1>4, OneState DEF Fresh
  <2>2. c + 1 \in c + 1 .. Len(s) /\ c + 1 <= Len(s)
    BY <1>1, <1>4
  <2>3. temp \notin Headers
    BY <1>4, <2>2 DEF Unmarked
  <2>4. Fresh' /\ UNCHANGED <<handled, transit, overrun>>
    BY <2>1, <2>3 DEF ParseHeaderHigh, Reset, Quiet, Fresh
  <2>5. Unmarked(s, c + 1)
    <3>1. \A j \in c + 1 + 1 .. Len(s) : j \in c + 1 .. Len(s)
      BY <1>1
    <3> QED BY <1>4, <3>1 DEF Unmarked
  <2> QED BY <1>2, <2>2, <2>4, <2>5
<1> QED BY <1>3, <1>4 DEF InSkipped

\* A frame goes on: the state says which byte is next, and there is room for it.
LEMMA FrameStep ==
  ASSUME IndInv, NEW s \in Piece, NEW c \in Nat, InFrame(c, s), temp = s[c + 1],
         state # "CRC",
         \/ ParseHeaderHigh \/ ParseHeaderLow \/ ParseCmd \/ ParseDataLen
         \/ ParseData \/ ParseCrc
  PROVE  /\ UNCHANGED <<handled, transit, overrun>>
         /\ c + 1 < Len(s) /\ InFrame(c + 1, s)'
<1>1. /\ s \in Seq(U8) /\ Len(s) \in Nat /\ Whole(s)
      /\ xor8 = XorAll(SubSeq(s, 1, c)) /\ data = SubSeq(s, 5, c)
  BY PieceTyped DEF InFrame
<1> DEFINE n == s[4]
<1>2. n \in 1 .. Payload /\ n \in 1 .. 255 /\ Len(s) = n + 5 /\ s[2] = HUP_REQ_HDR_L
  BY <1>1, PayloadIsByte DEF Whole
<1> HIDE DEF n
<1>3. ASSUME c < n + 4, xor8' = Xor(xor8, temp)
      PROVE  xor8' = XorAll(SubSeq(s, 1, c + 1)) /\ c + 1 < Len(s)
  <2>1. c < Len(s) /\ c + 1 < Len(s)
    BY <1>2, <1>3
  <2>2. Xor(xor8, s[c + 1]) = XorAll(SubSeq(s, 1, c + 1))
    BY <1>1, <2>1, XorNext
  <2> QED BY <1>3, <2>1, <2>2
<1>4. SubSeq(s, 5, 1) = <<>> /\ SubSeq(s, 5, 2) = <<>> /\ SubSeq(s, 5, 3) = <<>>
      /\ SubSeq(s, 5, 4) = <<>>
  BY SubSeqEmpty
<1>5. CASE state = "HDR_L" /\ c = 1
  <2>1. ParseHeaderLow /\ temp = s[2] /\ temp \in {HUP_REQ_HDR_L, HUP_ACK_HDR_L}
    BY <1>2, <1>5, OneState
  <2>2. /\ UNCHANGED <<handled, transit, overrun, data>>
        /\ state' = "CMD" /\ xor8' = Xor(xor8, temp)
    BY <2>1 DEF ParseHeaderLow, Quiet
  <2>3. c < n + 4 /\ c + 1 = 2
    BY <1>2, <1>5
  <2>4. xor8' = XorAll(SubSeq(s, 1, c + 1)) /\ c + 1 < Len(s)
    BY <1>3, <2>2, <2>3
  <2>5. data' = SubSeq(s, 5, c + 1)
    BY <1>1, <1>4, <1>5, <2>2, <2>3
  <2>6. InFrame(c + 1, s)'
    BY <1>1, <2>2, <2>3, <2>4, <2>5 DEF InFrame
  <2> QED BY <2>2, <2>4, <2>6
<1>6. CASE state = "CMD" /\ c = 2
  <2>1. ParseCmd /\ temp = s[3]
    BY <1>6, OneState
  <2>2. /\ UNCHANGED <<handled, transit, overrun, data>>
        /\ state' = "DATA_LEN" /\ xor8' = Xor(xor8, temp) /\ cmd' = s[3]
    BY <2>1 DEF ParseCmd, Quiet
  <2>3. c < n + 4 /\ c + 1 = 3
    BY <1>2, <1>6
  <2>4. xor8' = XorAll(SubSeq(s, 1, c + 1)) /\ c + 1 < Len(s)
    BY <1>3, <2>2, <2>3
  <2>5. data' = SubSeq(s, 5, c + 1)
    BY <1>1, <1>4, <1>6, <2>2, <2>3
  <2>6. InFrame(c + 1, s)'
    BY <1>1, <2>2, <2>3, <2>4, <2>5 DEF InFrame
  <2> QED BY <2>2, <2>4, <2>6
<1>7. CASE state = "DATA_LEN" /\ c = 3 /\ cmd = s[3]
  <2>1. ParseDataLen /\ temp = s[4]
    BY <1>7, OneState
  <2>2. /\ UNCHANGED <<handled, transit, overrun, data>>
        /\ state' = "DATA" /\ xor8' = Xor(xor8, temp) /\ data_len' = s[4] /\ cmd' = s[3]
    BY <1>7, <2>1 DEF ParseDataLen, Quiet
  <2>3. c < n + 4 /\ c + 1 = 4 /\ 4 \in 4 .. n + 3
    BY <1>2, <1>7
  <2>4. xor8' = XorAll(SubSeq(s, 1, c + 1)) /\ c + 1 < Len(s)
    BY <1>3, <2>2, <2>3
  <2>5. data' = SubSeq(s, 5, c + 1)
    BY <1>1, <1>4, <1>7, <2>2, <2>3
  <2>6. InFrame(c + 1, s)'
    BY <1>1, <2>2, <2>3, <2>4, <2>5 DEF InFrame, Known, n
  <2> QED BY <2>2, <2>4, <2>6
<1>8. CASE state = "DATA" /\ c \in 4 .. n + 3 /\ Known(s)
  <2>1. ParseData
    BY <1>8, OneState
  <2>2. /\ c < n + 4 /\ c + 1 \in 1 .. n + 5 /\ 5 <= c + 1 /\ c + 1 - 1 = c
        /\ c \in 0 .. n + 5
        /\ IF 5 <= c THEN c - 5 + 1 < n /\ c - 5 + 1 = c - 4 ELSE 0 < n /\ c - 4 = 0
        /\ c - 4 < n /\ (c - 4 + 1 = n <=> c + 1 = n + 4)
        /\ (c + 1 # n + 4 => c + 1 \in 4 .. n + 3)
    BY <1>2, <1>8
  <2>3. Len(data) = c - 4
    <3>1. Len(SubSeq(s, 5, c)) = IF 5 <= c THEN c - 5 + 1 ELSE 0
      BY <1>1, <1>2, <2>2, PartBytes
    <3> QED BY <1>1, <2>2, <3>1
  <2>4. Len(data) < Payload
    <3>1. c - 4 \in Int /\ c - 4 < n /\ n <= Payload /\ n \in Int /\ Payload \in Int
      BY <1>2, <2>2, SizeAssumption DEF U8
    <3> QED BY <2>3, <3>1
  <2>5. /\ data' = Append(data, temp) /\ xor8' = Xor(xor8, temp)
        /\ state' = IF Len(data) + 1 = data_len THEN "CRC" ELSE "DATA"
        /\ UNCHANGED <<cmd, data_len, handled, transit, overrun>>
    BY <2>1, <2>4 DEF ParseData
  <2>6. xor8' = XorAll(SubSeq(s, 1, c + 1)) /\ c + 1 < Len(s)
    BY <1>3, <2>2, <2>5
  <2>7. data' = SubSeq(s, 5, c + 1)
    <3>1. SubSeq(s, 5, c + 1) = Append(SubSeq(s, 5, c + 1 - 1), s[c + 1])
      BY <1>1, <1>2, <2>2, PartAppend
    <3> QED BY <1>1, <2>2, <2>5, <3>1
  <2>8. data_len = n
    BY <1>8 DEF Known, n
  <2>9. CASE c + 1 = n + 4
    <3>1. state' = "CRC"
      BY <2>2, <2>3, <2>5, <2>8, <2>9
    <3> QED BY <1>1, <1>8, <2>5, <2>6, <2>7, <2>9, <3>1 DEF InFrame, Known, n
  <2>10. CASE c + 1 # n + 4
    <3>1. state' = "DATA"
      BY <2>2, <2>3, <2>5, <2>8, <2>10
    <3> QED BY <1>1, <1>8, <2>2, <2>5, <2>6, <2>7, <2>10, <3>1 DEF InFrame, Known, n
  <2> QED BY <2>9, <2>10
<1> QED BY <1>5, <1>6, <1>7, <1>8 DEF InFrame, n

\* A frame ends: it is handed over if its check byte agrees.
LEMMA CheckStep ==
  ASSUME IndInv, ~lost, NEW s \in Piece, NEW c \in Nat, InFrame(c, s), temp = s[c + 1],
         state = "CRC", ParseCrc
  PROVE  c + 1 = Len(s) /\ Fresh' /\ Done(s) /\ UNCHANGED overrun
<1>1. /\ s \in Seq(U8) /\ Len(s) \in Nat /\ Whole(s)
      /\ xor8 = XorAll(SubSeq(s, 1, c)) /\ data = SubSeq(s, 5, c)
  BY PieceTyped DEF InFrame
<1> DEFINE n == s[4]
<1>2. n \in 1 .. 255 /\ Len(s) = n + 5
  BY <1>1, PayloadIsByte DEF Whole
<1>3. c = n + 4 /\ cmd = s[3] /\ data_len = n
  BY DEF InFrame, Known
<1> HIDE DEF n
<1>4. c + 1 = Len(s) /\ Len(s) - 1 = c
  BY <1>2, <1>3
<1>5. Fresh' /\ UNCHANGED overrun
  BY DEF ParseCrc, Reset, Fresh, Quiet, HandOver
<1>6. temp = xor8 <=> Good(s)
  BY <1>1, <1>4 DEF Good
<1>7. ~is_response
  BY DEF IndInv, ParserOK
<1>8. CASE Good(s)
  <2>1. HandOver
    BY <1>6, <1>7, <1>8 DEF ParseCrc
  <2>2. /\ handled' = [cmd |-> cmd, data |-> SubSeq(data, 1, data_len)]
        /\ transit' = IF transit = <<>> THEN <<>> ELSE Tail(transit)
    BY <2>1 DEF HandOver
  <2>3. SubSeq(data, 1, data_len) = SubSeq(s, 5, n + 4)
    <3>1. c \in 0 .. Len(s) /\ 5 <= c /\ c - 5 + 1 = n
      BY <1>2, <1>3
    <3>2. SubSeq(s, 5, c) \in Seq(U8) /\ Len(SubSeq(s, 5, c)) = n
      BY <1>1, <3>1, PartBytes
    <3>3. SubSeq(data, 1, Len(data)) = data
      BY <1>1, <3>2, SubSeqFull
    <3> QED BY <1>1, <1>3, <3>2, <3>3
  <2>4. handled' = Carried(s)
    BY <1>3, <2>2, <2>3 DEF Carried, n
  <2> QED BY <1>4, <1>5, <1>8, <2>2, <2>4 DEF Done
<1>9. CASE ~Good(s)
  <2>1. Quiet
    BY <1>6, <1>9 DEF ParseCrc
  <2> QED BY <1>4, <1>5, <1>9, <2>1 DEF Done, Quiet
<1> QED BY <1>8, <1>9
-----------------------------------------------------------------------------
(* What the threads do to the bytes that are pending.                      *)

LEMMA PendingTyped ==
  ASSUME IndInv
  PROVE  /\ Pending \in Seq(U8) /\ line \in Seq(U8) /\ r_fifo \in Seq(U8)
         /\ (IF temp = NoByte THEN <<>> ELSE <<temp>>) \in Seq(U8)
<1>1. line \in Seq(U8) /\ r_fifo \in Seq(U8)
  BY DEF IndInv, LineOK
<1>2. (IF temp = NoByte THEN <<>> ELSE <<temp>>) \in Seq(U8)
  <2>1. temp # NoByte => <<temp>> \in Seq(U8)
    BY DEF IndInv, LineOK
  <2> QED BY <2>1
<1>3. r_fifo \o line \in Seq(U8)
  BY <1>1, ConcatTyped
<1> QED BY <1>1, <1>2, <1>3, ConcatTyped DEF Pending

LEMMA BytesAssociative ==
  ASSUME NEW s \in Seq(U8), NEW t \in Seq(U8), NEW u \in Seq(U8)
  PROVE  s \o (t \o u) = (s \o t) \o u
<1>1. (s \o t) \o u = s \o (t \o u)
  BY ConcatAssociative
<1> QED BY <1>1

LEMMA ArrivesPending ==
  ASSUME IndInv, NEW bytes \in Seq(U8), Arrives(bytes)
  PROVE  Pending' = Pending \o bytes
<1> DEFINE first == IF temp = NoByte THEN <<>> ELSE <<temp>>
<1>1. /\ line \in Seq(U8) /\ r_fifo \in Seq(U8) /\ first \in Seq(U8)
  BY PendingTyped
<1>2. line' = line \o bytes /\ UNCHANGED <<r_fifo, temp>>
  BY DEF Arrives, fifo
<1> HIDE DEF first
<1>3. r_fifo \o (line \o bytes) = (r_fifo \o line) \o bytes
  BY <1>1, BytesAssociative
<1>4. r_fifo \o line \in Seq(U8)
  BY <1>1, ConcatTyped
<1>5. first \o ((r_fifo \o line) \o bytes) = (first \o (r_fifo \o line)) \o bytes
  BY <1>1, <1>4, BytesAssociative
<1>6. Pending' = first \o (r_fifo \o (line \o bytes))
  BY <1>2 DEF Pending, first
<1>7. Pending = first \o (r_fifo \o line)
  BY DEF Pending, first
<1> QED BY <1>3, <1>5, <1>6, <1>7

\* While r_fifo refuses nothing, the receiving thread moves bytes.
LEMMA ReceivePending ==
  ASSUME IndInv, Receive, ~lost'
  PROVE  Pending' = Pending /\ ~lost /\ transit' = transit
<1> DEFINE room == RSize - Len(r_fifo)
<1>1. PICK n \in 1 .. Len(line) :
        /\ line' = SubSeq(line, n + 1, Len(line))
        /\ r_fifo' = r_fifo \o (IF n > room THEN <<>>
                                 ELSE SubSeq(line, 1, IF n = room THEN n - 1 ELSE n))
        /\ lost' = (lost \/ n >= room)
        /\ transit' = IF lost' THEN <<>> ELSE transit
        /\ UNCHANGED <<temp, parser, queue, overrun, handled, sends>>
  BY DEF Receive
<1>2. line \in Seq(U8) /\ r_fifo \in Seq(U8)
  BY PendingTyped
<1>3. ~lost /\ ~(n >= room) /\ transit' = transit
  BY <1>1
<1>4. Len(r_fifo) \in Nat /\ Len(line) \in Nat
  BY <1>2, LenProperties
<1>5. ~(n > room) /\ ~(n = room)
  BY <1>3, <1>4, SizeAssumption
<1>6. r_fifo' = r_fifo \o SubSeq(line, 1, n)
  BY <1>1, <1>5
<1>7. /\ SubSeq(line, 1, n) \in Seq(U8) /\ SubSeq(line, n + 1, Len(line)) \in Seq(U8)
      /\ SubSeq(line, 1, n) \o SubSeq(line, n + 1, Len(line)) = line
  <2>1. n \in 0 .. Len(line) /\ n + 1 \in Nat \ {0} /\ Len(line) \in 0 .. Len(line)
        /\ 1 \in 1 .. Len(line) + 1 /\ n \in 1 - 1 .. Len(line) /\ Len(line) \in n .. Len(line)
    BY <1>4
  <2>2. SubSeq(line, 1, n) \in Seq(U8)
    BY <1>2, <2>1, PartTyped
  <2>3. SubSeq(line, n + 1, Len(line)) \in Seq(U8)
    BY <1>2, <2>1, PartTyped
  <2>4. SubSeq(line, 1, n) \o SubSeq(line, n + 1, Len(line)) = SubSeq(line, 1, Len(line))
    BY <1>2, <2>1, ConcatAdjacentSubSeq
  <2> QED BY <1>2, <2>2, <2>3, <2>4, SubSeqFull
<1>8. r_fifo' \o line' = r_fifo \o line
  <2> DEFINE a == SubSeq(line, 1, n)
             b == SubSeq(line, n + 1, Len(line))
  <2>1. a \in Seq(U8) /\ b \in Seq(U8) /\ a \o b = line
    BY <1>7
  <2>2. r_fifo' = r_fifo \o a /\ line' = b
    BY <1>1, <1>6
  <2> HIDE DEF a, b
  <2>3. r_fifo \o (a \o b) = (r_fifo \o a) \o b
    BY <1>2, <2>1, BytesAssociative
  <2> QED BY <2>1, <2>2, <2>3
<1> QED BY <1>1, <1>3, <1>8 DEF Pending

\* The next byte of the fifo is taken out.
LEMMA TakePending ==
  ASSUME IndInv, Take
  PROVE  Pending' = Pending
<1>1. line \in Seq(U8) /\ r_fifo \in Seq(U8) /\ r_fifo # <<>> /\ temp = NoByte
  BY PendingTyped DEF Take
<1>2. r_fifo' = Tail(r_fifo) /\ temp' = Head(r_fifo) /\ line' = line
  BY DEF Take
<1>3. Head(r_fifo) \in U8 /\ Tail(r_fifo) \in Seq(U8)
  BY <1>1, HeadTailProperties
<1>4. temp' # NoByte
  BY <1>2, <1>3, NoByteAssumption
<1>5. <<Head(r_fifo)>> \in Seq(U8)
  BY <1>3
<1>6. <<Head(r_fifo)>> \o Tail(r_fifo) = r_fifo
  <2>1. Len(r_fifo) \in Nat \ {0}
    BY <1>1, EmptySeq
  <2>2. 1 \in 1 .. Len(r_fifo) /\ Len(r_fifo) \in 1 .. Len(r_fifo)
    BY <2>1
  <2>3. SubSeq(r_fifo, 1, Len(r_fifo)) = <<r_fifo[1]>> \o SubSeq(r_fifo, 1 + 1, Len(r_fifo))
    BY <1>1, <2>2, SubSeqRecursiveFirst
  <2>4. Tail(r_fifo) = SubSeq(r_fifo, 2, Len(r_fifo))
    BY <1>1, TailIsSubSeq
  <2>5. Head(r_fifo) = r_fifo[1]
    BY <1>1
  <2> QED BY <1>1, <2>3, <2>4, <2>5, SubSeqFull
<1>7. <<Head(r_fifo)>> \o (Tail(r_fifo) \o line) = r_fifo \o line
  BY <1>1, <1>3, <1>5, <1>6, ConcatAssociative
<1>8. Pending' = <<Head(r_fifo)>> \o (Tail(r_fifo) \o line)
  BY <1>2, <1>4 DEF Pending
<1>9. Pending = <<>> \o (r_fifo \o line)
  BY <1>1 DEF Pending
<1>10. r_fifo \o line \in Seq(U8)
  BY <1>1, ConcatTyped
<1> QED BY <1>7, <1>8, <1>9, <1>10, ConcatEmptySeq

\* The byte that is parsed was the first one.
LEMMA ParsePending ==
  ASSUME IndInv, Parse
  PROVE  /\ temp \in U8 /\ Pending # <<>> /\ Pending[1] = temp
         /\ Pending' = Tail(Pending)
<1> DEFINE rest == r_fifo \o line
<1>1. line \in Seq(U8) /\ r_fifo \in Seq(U8) /\ temp \in U8 /\ temp # NoByte
  BY PendingTyped DEF Parse, IndInv, LineOK
<1>2. rest \in Seq(U8) /\ <<temp>> \in Seq(U8) /\ Len(<<temp>>) = 1
  BY <1>1, ConcatTyped
<1>3. temp' = NoByte /\ UNCHANGED <<r_fifo, line>>
  BY DEF Parse
<1>4. Pending = <<temp>> \o rest
  BY <1>1 DEF Pending
<1>5. Pending' = <<>> \o rest
  BY <1>3 DEF Pending
<1> HIDE DEF rest
<1>6. Pending' = rest
  BY <1>2, <1>5, ConcatEmptySeq
<1> DEFINE all == <<temp>> \o rest
<1>7. /\ all \in Seq(U8) /\ Len(all) = Len(<<temp>>) + Len(rest)
      /\ \A i \in 1 .. Len(<<temp>>) : all[i] = <<temp>>[i]
      /\ \A i \in 1 .. Len(rest) : all[Len(<<temp>>) + i] = rest[i]
  BY <1>2, ConcatBytes
<1>8. Len(rest) \in Nat
  BY <1>2, LenProperties
<1> HIDE DEF all
<1>9. Len(all) = 1 + Len(rest) /\ all # <<>> /\ all[1] = temp
  BY <1>2, <1>7, <1>8
<1>10. /\ Tail(all) \in Seq(U8) /\ Len(Tail(all)) = Len(rest)
       /\ \A i \in 1 .. Len(rest) : Tail(all)[i] = rest[i]
  <2>1. /\ Tail(all) \in Seq(U8) /\ Len(Tail(all)) = Len(all) - 1
        /\ \A i \in 1 .. Len(Tail(all)) : Tail(all)[i] = all[i + 1]
    BY <1>7, <1>9, HeadTailProperties
  <2>2. Len(Tail(all)) = Len(rest)
    BY <1>8, <1>9, <2>1
  <2>3. \A i \in 1 .. Len(rest) : all[i + 1] = rest[i]
    <3>1. \A i \in 1 .. Len(rest) : 1 + i = i + 1
      BY <1>8
    <3> QED BY <1>2, <1>7, <3>1
  <2> QED BY <2>1, <2>2, <2>3
<1>11. Tail(all) = rest
  BY <1>2, <1>10, SeqEqual
<1> QED BY <1>1, <1>4, <1>6, <1>9, <1>11 DEF all
-----------------------------------------------------------------------------
(* Every step keeps the place and is a step of the channel.                *)

LEMMA InitFollows == Init => Following /\ Channel!Init
<1> SUFFICES ASSUME Init PROVE Following /\ Channel!Init
  OBVIOUS
<1>1. transit = <<>> /\ handled = NoFrame /\ ~lost /\ ~overrun /\ Fresh
  BY DEF Init, Fresh
<1>2. Pending = <<>>
  <2>1. Pending = <<>> \o (<<>> \o <<>>)
    BY DEF Init, Pending
  <2>2. <<>> \in Seq(U8)
    OBVIOUS
  <2> QED BY <2>1, <2>2, ConcatEmptySeq
<1> DEFINE at == [k \in 1 .. 1 |-> 0]
<1>3. Len(<<>>) = 0 /\ 0 + 1 = 1 /\ 1 .. 0 = {} /\ <<>> \in Seq(Piece)
  OBVIOUS
<1>4. at \in [1 .. 1 -> Int] /\ at \in [1 .. 1 -> Nat] /\ at[1] = 0
  OBVIOUS
<1> HIDE DEF at
<1>5. Laid(at, <<>>, Pending) /\ Counted(at, <<>>, transit)
  BY <1>1, <1>2, <1>3, <1>4 DEF Laid, Counted
<1>6. Place(at, <<>>)
  BY <1>1, <1>4 DEF Place
<1>7. transit \in Seq(Record)
  BY <1>1
<1> QED BY <1>1, <1>3, <1>5, <1>6, <1>7 DEF Following, Channel!Init

\* What the parser knows does not depend on the bytes behind.
LEMMA ParserUnchanged ==
  ASSUME UNCHANGED parser
  PROVE  /\ Fresh => Fresh'
         /\ \A c, s : InFrame(c, s) => InFrame(c, s)'
         /\ \A c, s : InSkipped(c, s) => InSkipped(c, s)'
<1>1. UNCHANGED <<state, xor8, cmd, data_len, data>>
  BY DEF parser
<1> QED BY <1>1 DEF Fresh, InFrame, Known, InSkipped

\* A piece comes.
LEMMA ArrivesFollows ==
  ASSUME IndInv, Following, ~lost, NEW p \in Piece, Arrives(p),
         IF Good(p) THEN /\ Carried(p) \in Record
                         /\ transit' = Append(transit, Carried(p))
                    ELSE transit' = transit
  PROVE  Following'
<1>1. transit \in Seq(Record) /\ ~overrun
  BY DEF Following
<1>2. PICK pieces \in Seq(Piece) : \E at, before :
        Laid(at, pieces, Pending) /\ Counted(before, pieces, transit) /\ Place(at, pieces)
  BY DEF Following
<1>3. PICK at, before :
        Laid(at, pieces, Pending) /\ Counted(before, pieces, transit) /\ Place(at, pieces)
  BY <1>2
<1>4. Pending \in Seq(U8) /\ p \in Seq(U8)
  BY PendingTyped, PieceTyped
<1>5. Pending' = Pending \o p /\ UNCHANGED parser /\ UNCHANGED <<overrun, lost>>
  BY <1>4, ArrivesPending DEF Arrives
<1> DEFINE all == Append(pieces, p)
<1>6. /\ all \in Seq(Piece) /\ all # <<>>
      /\ pieces # <<>> => all[1] = pieces[1]
  <2>1. pieces # <<>> => 1 \in 1 .. Len(pieces)
    BY EmptySeq
  <2> QED BY <2>1, AppendProperties
<1>7. PICK at2 : at2[1] = at[1] /\ Laid(at2, all, Pending')
  BY <1>3, <1>4, <1>5, LaidAppend
<1>8. transit' \in Seq(Record)
  BY <1>1, AppendProperties
<1>9. PICK before2 : Counted(before2, all, transit')
  BY <1>1, <1>3, CountedAppend
<1> HIDE DEF all
<1>10. Place(at2, all)'
  <2>1. CASE Fresh /\ at[1] = 0
    BY <1>5, <1>7, <2>1, ParserUnchanged DEF Place
  <2>2. CASE /\ pieces # <<>>
             /\ InFrame(0 - at[1], pieces[1]) \/ InSkipped(0 - at[1], pieces[1])
    BY <1>5, <1>6, <1>7, <2>2, ParserUnchanged DEF Place
  <2> QED BY <1>3, <2>1, <2>2 DEF Place
<1> QED BY <1>1, <1>5, <1>6, <1>7, <1>8, <1>9, <1>10 DEF Following

\* Bytes move, and the parser does nothing.
LEMMA MovesFollows ==
  ASSUME Following, UNCHANGED parser, UNCHANGED <<overrun, lost, transit>>,
         ~lost => Pending' = Pending
  PROVE  Following'
<1>1. CASE lost
  BY <1>1 DEF Following
<1>2. CASE ~lost
  <2>1. PICK pieces \in Seq(Piece) : \E at, before :
          Laid(at, pieces, Pending) /\ Counted(before, pieces, transit) /\ Place(at, pieces)
    BY <1>2 DEF Following
  <2>2. PICK at, before :
          Laid(at, pieces, Pending) /\ Counted(before, pieces, transit) /\ Place(at, pieces)
    BY <2>1
  <2>3. Place(at, pieces)'
    BY <2>2, ParserUnchanged DEF Place
  <2>4. Laid(at, pieces, Pending') /\ Counted(before, pieces, transit')
    BY <1>2, <2>2
  <2> QED BY <1>2, <2>3, <2>4 DEF Following
<1> QED BY <1>1, <1>2

LEMMA DeviceFollows ==
  ASSUME IndInv, Following,
         \/ \E f \in Frames : SendFrame(f) \/ \E k \in DOMAIN Bytes[f], byte \in Wrong :
                                                 SendDamaged(f, k, byte)
         \/ \E byte \in Noise : SendNoise(byte)
  PROVE  Following' /\ [Channel!Next]_(Channel!vars)
<1>1. ASSUME NEW f \in Frames, SendFrame(f)
      PROVE  Following' /\ [Channel!Next]_(Channel!vars)
  <2>1. /\ Bytes[f] \in Piece /\ Good(Bytes[f]) /\ Carried(Bytes[f]) = Received(f)
        /\ Received(f) \in Record
    BY FrameIsPiece
  <2>2. /\ Arrives(Bytes[f]) /\ UNCHANGED handled
        /\ transit' = IF lost THEN <<>> ELSE Append(transit, Received(f))
    BY <1>1 DEF SendFrame, Arrives
  <2>3. CASE lost
    <3>1. transit = <<>> /\ transit' = <<>> /\ lost'
      BY <2>2, <2>3 DEF Following, Arrives
    <3> QED BY <2>2, <3>1 DEF Following, Channel!vars
  <2>4. CASE ~lost
    <3>1. Following'
      BY <2>1, <2>2, <2>4, ArrivesFollows
    <3>2. Channel!Send(Received(f))
      BY <2>2, <2>4 DEF Channel!Send
    <3> QED BY <3>1, <3>2 DEF Channel!Next
  <2> QED BY <2>3, <2>4
<1>2. ASSUME NEW p \in Piece, ~Good(p), Arrives(p), UNCHANGED transit
      PROVE  Following' /\ [Channel!Next]_(Channel!vars)
  <2>1. UNCHANGED <<handled, transit>>
    BY <1>2 DEF Arrives
  <2>2. CASE lost
    BY <1>2, <2>2 DEF Following, Arrives, Channel!vars
  <2>3. CASE ~lost
    BY <1>2, <2>1, <2>3, ArrivesFollows DEF Channel!vars
  <2> QED BY <2>2, <2>3
<1>3. ASSUME NEW f \in Frames, NEW k \in DOMAIN Bytes[f], NEW byte \in Wrong,
             SendDamaged(f, k, byte)
      PROVE  Following' /\ [Channel!Next]_(Channel!vars)
  <2>1. byte \in U8
    BY NoiseAssumption
  <2>2. /\ k # 4 /\ byte # Bytes[f][k] /\ \A j \in 2 .. Len(Bytes[f]) : Bytes[f][j] \notin Headers
        /\ Arrives([Bytes[f] EXCEPT ![k] = byte]) /\ UNCHANGED transit
    BY <1>3 DEF SendDamaged
  <2>3. [Bytes[f] EXCEPT ![k] = byte] \in Piece /\ ~Good([Bytes[f] EXCEPT ![k] = byte])
    BY <2>1, <2>2, DamagedIsPiece
  <2> QED BY <1>2, <2>2, <2>3
<1>4. ASSUME NEW byte \in Noise, SendNoise(byte)
      PROVE  Following' /\ [Channel!Next]_(Channel!vars)
  BY <1>2, <1>4, NoiseIsPiece DEF SendNoise
<1> QED BY <1>1, <1>3, <1>4

LEMMA ReceiveFollows ==
  ASSUME IndInv, Following, Receive
  PROVE  Following' /\ [Channel!Next]_(Channel!vars)
<1>1. /\ UNCHANGED <<overrun, handled>> /\ UNCHANGED parser
      /\ transit' = IF lost' THEN <<>> ELSE transit
      /\ lost' \in BOOLEAN
  BY DEF Receive
<1>2. CASE lost'
  <2>1. transit' = <<>> /\ transit' \in Seq(Record)
    BY <1>1, <1>2
  <2>2. Following'
    BY <1>2, <2>1 DEF Following
  <2> QED BY <1>1, <2>1, <2>2 DEF Channel!Next, Channel!Break
<1>3. CASE ~lost'
  <2>1. Pending' = Pending /\ ~lost /\ transit' = transit
    BY <1>3, ReceivePending
  <2>2. Following'
    <3>1. lost' = lost
      BY <1>1, <1>3, <2>1 DEF IndInv, LineOK
    <3> QED BY <1>1, <2>1, <3>1, MovesFollows
  <2> QED BY <1>1, <2>1, <2>2 DEF Channel!vars
<1> QED BY <1>2, <1>3

LEMMA TakeFollows ==
  ASSUME IndInv, Following, Take
  PROVE  Following' /\ [Channel!Next]_(Channel!vars)
<1>1. UNCHANGED parser /\ UNCHANGED <<overrun, lost, handled, transit>>
  BY DEF Take
<1>2. Following'
  BY <1>1, TakePending, MovesFollows
<1> QED BY <1>1, <1>2 DEF Channel!vars

LEMMA AppFollows ==
  ASSUME IndInv, Following, AppTakes
  PROVE  Following' /\ [Channel!Next]_(Channel!vars)
<1>1. /\ UNCHANGED parser /\ UNCHANGED <<overrun, lost, handled, transit>>
      /\ UNCHANGED <<line, r_fifo, temp>>
  BY DEF AppTakes, fifo
<1>2. Pending' = Pending
  BY <1>1 DEF Pending
<1> QED BY <1>1, <1>2, MovesFollows DEF Channel!vars

\* Once r_fifo has refused a byte nothing is recorded any more.
LEMMA LostStep ==
  ASSUME lost, transit = <<>>, Parse
  PROVE  UNCHANGED <<handled, transit>>
BY DEF Parse, ParseHeaderHigh, ParseHeaderLow, ParseCmd, ParseDataLen, ParseData,
       ParseCrc, HandOver, Quiet

\* The first piece has at least one more byte, and that is the one to parse.
LEMMA FirstPiece ==
  ASSUME NEW pieces \in Seq(Piece), NEW bytes \in Seq(U8), bytes # <<>>,
         NEW at, Laid(at, pieces, bytes), Place(at, pieces)
  PROVE  /\ pieces # <<>> /\ pieces[1] \in Piece
         /\ 0 - at[1] \in Nat /\ 0 - at[1] < Len(pieces[1])
         /\ at[1] \in Int /\ at[2] = at[1] + Len(pieces[1]) /\ at[2] <= Len(bytes)
         /\ bytes[1] = pieces[1][0 - at[1] + 1]
<1>1. Len(bytes) \in Nat \ {0} /\ Len(pieces) \in Nat
  BY EmptySeq, LenProperties
<1>2. /\ at \in [1 .. Len(pieces) + 1 -> Int]
      /\ at[Len(pieces) + 1] = Len(bytes)
      /\ \A k \in 1 .. Len(pieces) + 1 : at[k] <= Len(bytes)
      /\ \A k \in 1 .. Len(pieces) : at[k + 1] = at[k] + Len(pieces[k])
      /\ \A k \in 1 .. Len(pieces) : \A j \in 1 .. Len(pieces[k]) :
           at[k] + j >= 1 => bytes[at[k] + j] = pieces[k][j]
  BY DEF Laid
<1>3. pieces # <<>>
  <2>1. ASSUME pieces = <<>> PROVE FALSE
    <3>1. at[1] = Len(bytes)
      BY <1>2, <2>1
    <3> QED BY <1>1, <2>1, <3>1 DEF Place
  <2> QED BY <2>1
<1>4. 1 \in 1 .. Len(pieces) /\ 1 \in 1 .. Len(pieces) + 1 /\ 1 + 1 = 2
      /\ 2 \in 1 .. Len(pieces) + 1
  <2>1. Len(pieces) \in Nat \ {0}
    BY <1>3, EmptySeq
  <2> QED BY <2>1
<1>5. PICK s \in Piece : s = pieces[1]
  BY <1>4, ElementOfSeq
<1>6. s \in Seq(U8) /\ Len(s) \in Nat /\ 1 <= Len(s)
  BY PieceTyped
<1>7. PICK a \in Int : a = at[1]
  BY <1>2, <1>4
<1>8. at[2] = a + Len(s) /\ at[2] <= Len(bytes)
  BY <1>2, <1>4, <1>5, <1>7
<1>9. 0 - a \in Nat /\ 0 - a < Len(s)
  <2>1. CASE a = 0
    BY <1>6, <2>1
  <2>2. ASSUME InFrame(0 - a, s) PROVE 0 - a \in Nat /\ 0 - a < Len(s)
    <3>1. s[4] \in 1 .. 255 /\ Len(s) = s[4] + 5
      BY <2>2, PayloadIsByte DEF InFrame, Whole
    <3>2. \A n \in 1 .. 255, c \in Int :
            (c = 1 \/ c = 2 \/ c = 3 \/ c \in 4 .. n + 3 \/ c = n + 4)
            => c \in Nat /\ c < n + 5
      OBVIOUS
    <3>3. PICK m \in Int : m = 0 - a
      OBVIOUS
    <3>4. m = 1 \/ m = 2 \/ m = 3 \/ m \in 4 .. s[4] + 3 \/ m = s[4] + 4
      BY <2>2, <3>3 DEF InFrame
    <3>5. m \in Nat /\ m < s[4] + 5
      BY <3>1, <3>2, <3>3, <3>4
    <3> QED BY <3>1, <3>3, <3>5
  <2>3. ASSUME InSkipped(0 - a, s) PROVE 0 - a \in Nat /\ 0 - a < Len(s)
    <3>1. CASE 0 - a = 1 /\ s[1] \in Headers
      <4>1. ~Unmarked(s, 0)
        BY <1>6, <3>1 DEF Unmarked
      <4>2. Len(s) >= 2
        BY <2>3, <4>1 DEF InSkipped, Skipped
      <4> QED BY <1>6, <3>1, <4>2
    <3>2. CASE 0 - a \in 1 .. Len(s) - 1
      BY <1>6, <3>2
    <3> QED BY <2>3, <3>1, <3>2 DEF InSkipped
  <2> QED BY <1>5, <1>7, <2>1, <2>2, <2>3 DEF Place
<1>10. bytes[1] = s[0 - a + 1]
  <2>1. 0 - a + 1 \in 1 .. Len(s) /\ a + (0 - a + 1) = 1 /\ 1 >= 1
    BY <1>6, <1>9
  <2>2. \A j \in 1 .. Len(s) : a + j >= 1 => bytes[a + j] = s[j]
    BY <1>2, <1>4, <1>5, <1>7
  <2> QED BY <2>1, <2>2
<1> QED BY <1>3, <1>5, <1>7, <1>8, <1>9, <1>10

\* hup_parse and the first piece.
LEMMA PieceStep ==
  ASSUME IndInv, ~lost, temp \in U8, NEW s \in Piece, NEW c \in Nat, c < Len(s),
         temp = s[c + 1], (Fresh /\ c = 0) \/ InFrame(c, s) \/ InSkipped(c, s),
         \/ ParseHeaderHigh \/ ParseHeaderLow \/ ParseCmd \/ ParseDataLen
         \/ ParseData \/ ParseCrc
  PROVE  /\ UNCHANGED overrun
         /\ \/ /\ InFrame(c + 1, s)' \/ InSkipped(c + 1, s)'
               /\ UNCHANGED <<handled, transit>>
            \/ c + 1 = Len(s) /\ Fresh' /\ Done(s)
<1>1. CASE Fresh /\ c = 0
  <2>1. ParseHeaderHigh
    BY <1>1, OneState DEF Fresh
  <2>2. temp = s[1] /\ c + 1 = 1
    BY <1>1
  <2>3. /\ UNCHANGED <<handled, transit, overrun>>
        /\ \/ 1 < Len(s) /\ (InFrame(1, s)' \/ InSkipped(1, s)')
           \/ 1 = Len(s) /\ Fresh' /\ ~Good(s)
    BY <1>1, <2>1, <2>2, BeginStep
  <2> QED BY <2>2, <2>3 DEF Done
<1>2. CASE InSkipped(c, s)
  BY <1>2, SkipStep DEF Done
<1>3. CASE InFrame(c, s) /\ state # "CRC"
  BY <1>3, FrameStep
<1>4. CASE InFrame(c, s) /\ state = "CRC"
  <2>1. ParseCrc
    BY <1>4, OneState
  <2> QED BY <1>4, <2>1, CheckStep
<1> QED BY <1>1, <1>2, <1>3, <1>4

LEMMA ParseFollows ==
  ASSUME IndInv, Following, Parse
  PROVE  Following' /\ [Channel!Next]_(Channel!vars)
<1>1. lost' = lost /\ lost \in BOOLEAN
  BY DEF Parse, IndInv, LineOK
<1>2. CASE lost
  <2>1. transit = <<>>
    BY <1>2 DEF Following
  <2>2. UNCHANGED <<handled, transit>>
    BY <1>2, <2>1, LostStep
  <2> QED BY <1>1, <1>2, <2>1, <2>2 DEF Following, Channel!vars
<1>3. CASE ~lost
  <2>1. transit \in Seq(Record) /\ ~overrun
    BY <1>3 DEF Following
  <2>2. PICK pieces \in Seq(Piece) : \E at, before :
          Laid(at, pieces, Pending) /\ Counted(before, pieces, transit) /\ Place(at, pieces)
    BY <1>3 DEF Following
  <2>3. PICK at, before :
          Laid(at, pieces, Pending) /\ Counted(before, pieces, transit) /\ Place(at, pieces)
    BY <2>2
  <2>4. /\ temp \in U8 /\ Pending # <<>> /\ Pending[1] = temp
        /\ Pending' = Tail(Pending) /\ Pending \in Seq(U8)
    BY PendingTyped, ParsePending
  <2>5. PICK s : s = pieces[1]
    OBVIOUS
  <2>6. PICK c : c = 0 - at[1]
    OBVIOUS
  <2>7. /\ pieces # <<>> /\ s \in Piece /\ c \in Nat /\ c < Len(s)
        /\ at[1] \in Int /\ at[2] = at[1] + Len(s) /\ temp = s[c + 1]
    BY <2>3, <2>4, <2>5, <2>6, FirstPiece
  <2>8. (Fresh /\ c = 0) \/ InFrame(c, s) \/ InSkipped(c, s)
    BY <2>3, <2>5, <2>6 DEF Place
  <2>9. /\ UNCHANGED overrun
        /\ \/ /\ InFrame(c + 1, s)' \/ InSkipped(c + 1, s)'
              /\ UNCHANGED <<handled, transit>>
           \/ c + 1 = Len(s) /\ Fresh' /\ Done(s)
    BY <1>3, <2>4, <2>7, <2>8, PieceStep DEF Parse
  <2>10. Len(pieces) \in Nat \ {0}
    BY <2>7, EmptySeq
  <2>11. CASE (InFrame(c + 1, s)' \/ InSkipped(c + 1, s)') /\ UNCHANGED <<handled, transit>>
    <3>1. PICK after : Laid(after, pieces, Pending') /\ after[1] = at[1] - 1
      <4> DEFINE less == [k \in 1 .. Len(pieces) + 1 |-> at[k] - 1]
      <4>1. Laid(less, pieces, Pending')
        BY <2>3, <2>4, LaidTail
      <4>2. less[1] = at[1] - 1
        BY <2>10
      <4> HIDE DEF less
      <4> QED BY <4>1, <4>2
    <3>2. 0 - after[1] = c + 1
      BY <2>6, <2>7, <3>1
    <3>3. Place(after, pieces)'
      BY <2>5, <2>7, <2>11, <3>2 DEF Place
    <3>4. Following'
      BY <1>1, <1>3, <2>1, <2>3, <2>9, <2>11, <3>1, <3>3 DEF Following
    <3> QED BY <2>11, <3>4 DEF Channel!vars
  <2>12. CASE c + 1 = Len(s) /\ Fresh' /\ Done(s)
    <3>1. PICK rest : rest = Tail(pieces)
      OBVIOUS
    <3>2. rest \in Seq(Piece) /\ Len(rest) = Len(pieces) - 1
      BY <2>7, <3>1, HeadTailProperties
    <3>3. PICK at2 : Laid(at2, rest, Pending) /\ at2[1] = at[2]
      <4> DEFINE next == [k \in 1 .. Len(pieces) |-> at[k + 1]]
      <4>1. Laid(next, rest, Pending)
        BY <2>3, <2>4, <2>7, <3>1, LaidDrop
      <4>2. next[1] = at[2]
        BY <2>10
      <4> HIDE DEF next
      <4> QED BY <4>1, <4>2
    <3>4. PICK at3 : Laid(at3, rest, Pending') /\ at3[1] = at2[1] - 1
      <4> DEFINE less == [k \in 1 .. Len(rest) + 1 |-> at2[k] - 1]
      <4>1. Laid(less, rest, Pending')
        BY <2>4, <3>2, <3>3, LaidTail
      <4>2. less[1] = at2[1] - 1
        BY <2>10, <3>2
      <4> HIDE DEF less
      <4> QED BY <4>1, <4>2
    <3>5. at3[1] = 0
      <4>1. PICK a, n \in Int : a = at[1] /\ n = Len(s)
        BY <2>7, PieceTyped
      <4>2. at2[1] = a + n
        BY <2>7, <3>3, <4>1
      <4>3. PICK b \in Int : b = a + n /\ b = at2[1]
        BY <4>1, <4>2
      <4>4. at3[1] = b - 1
        BY <3>4, <4>3
      <4>5. c = 0 - a
        BY <2>6, <2>7, <4>1
      <4>6. c + 1 = n
        BY <2>12, <4>1
      <4>7. b - 1 = 0
        BY <4>1, <4>3, <4>5, <4>6
      <4> QED BY <4>4, <4>7
    <3>6. Place(at3, rest)'
      BY <2>12, <3>5 DEF Place
    <3>7. CASE Good(s)
      <4>1. /\ transit # <<>> /\ transit[1] = Carried(s)
            /\ \E after : Counted(after, rest, Tail(transit))
        BY <2>1, <2>3, <2>5, <2>7, <3>1, <3>7, CountedDrop
      <4>2. handled' = Carried(s) /\ transit' = Tail(transit)
        BY <2>12, <3>7, <4>1 DEF Done
      <4>3. transit' \in Seq(Record)
        BY <2>1, <4>1, <4>2, HeadTailProperties
      <4>4. PICK after : Counted(after, rest, transit')
        BY <4>1, <4>2
      <4>5. Following'
        BY <1>1, <1>3, <2>1, <2>9, <3>2, <3>4, <3>6, <4>3, <4>4 DEF Following
      <4>6. Head(transit) = transit[1]
        BY <2>1, <4>1
      <4>7. Channel!Arrive
        BY <4>1, <4>2, <4>6 DEF Channel!Arrive
      <4> QED BY <4>5, <4>7 DEF Channel!Next
    <3>8. CASE ~Good(s)
      <4>1. \E after : Counted(after, rest, transit)
        BY <2>1, <2>3, <2>5, <2>7, <3>1, <3>8, CountedDrop
      <4>2. UNCHANGED <<handled, transit>>
        BY <2>12, <3>8 DEF Done
      <4>3. PICK after : Counted(after, rest, transit')
        BY <4>1, <4>2
      <4>4. Following'
        BY <1>1, <1>3, <2>1, <2>9, <3>2, <3>4, <3>6, <4>2, <4>3 DEF Following
      <4> QED BY <4>2, <4>4 DEF Channel!vars
    <3> QED BY <3>7, <3>8
  <2> QED BY <2>9, <2>11, <2>12
<1> QED BY <1>1, <1>2, <1>3

\* The two invariants together: where the parser is among the pieces holds in
\* every behaviour, and every step of it is a step of the channel.
LEMMA FollowingStep ==
  ASSUME IndInv, Following, [Next]_vars
  PROVE  Following' /\ [Channel!Next]_(Channel!vars)
<1>1. CASE UNCHANGED vars
  <2>1. /\ UNCHANGED parser /\ UNCHANGED <<overrun, lost, handled, transit>>
        /\ UNCHANGED <<line, r_fifo, temp>>
    BY <1>1 DEF vars, fifo
  <2>2. Pending' = Pending
    BY <2>1 DEF Pending
  <2> QED BY <2>1, <2>2, MovesFollows DEF Channel!vars
<1>2. CASE \/ \E f \in Frames :
                SendFrame(f) \/ \E k \in DOMAIN Bytes[f], byte \in Wrong :
                                  SendDamaged(f, k, byte)
           \/ \E byte \in Noise : SendNoise(byte)
  BY <1>2, DeviceFollows
<1> QED BY <1>1, <1>2, ReceiveFollows, TakeFollows, ParseFollows, AppFollows DEF Next, Handle

\* uart_handle_thread and hup_parse: with a device that sends well-formed frames
\* on a line that changes bytes (but not the length), the parser runs over its
\* buffer only after r_fifo has refused a byte; for any frames and any sizes.
THEOREM OverrunOnlyAfterLoss == Spec => []OverrunNeedsLoss
<1>1. Following => OverrunNeedsLoss
  BY DEF Following, OverrunNeedsLoss
<1>2. IndInv /\ Following /\ [Next]_vars => Following'
  BY FollowingStep
<1>3. Init => Following
  BY InitFollows
<1> QED BY <1>1, <1>2, <1>3, Invariance, PTL DEF Spec

\* hup_parse and its success handler: what is handed over are the frames that the
\* device sent, each once, unchanged and in order, until r_fifo refuses a byte;
\* a frame with a changed byte is never handed over and costs no other frame.
THEOREM PortIsFrameChannel == Spec => IsFrameChannel
<1>1. IndInv /\ Following /\ [Next]_vars => Following' /\ [Channel!Next]_(Channel!vars)
  BY FollowingStep
<1> QED BY <1>1, InitFollows, Invariance, PTL DEF Spec, IsFrameChannel, Channel!Spec

=============================================================================
