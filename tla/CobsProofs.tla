------------------------------- MODULE CobsProofs -------------------------------
(***************************************************************************)
(* What holds of the codec for every packet, every damaged frame and every *)
(* size of a block: types, no zero inside a frame, the two sizes that the  *)
(* buffers of send_packet and uart_isr rely on, and that decoding gives    *)
(* back the packet.                                                        *)
(***************************************************************************)
EXTENDS Cobs, SequenceTheorems, TLAPS

Code == Byte \ {0}

\* What is written of a frame has no zero, and a block has room for one byte.
ZeroFree ==
  /\ done \in Seq(Code) /\ block \in Seq(Code) /\ frame \in Seq(Code)
  /\ Len(block) <= Run - 2

\* The bytes written above those read: one for each full block, which holds
\* Run - 1 bytes of the packet.
Full == Len(done) + Len(block) - read

Written ==
  pc = "encode" => /\ Full \in Nat
                   /\ Full * (Run - 1) + Len(block) <= read

\* The frame of the packet has a byte for each full block and one more.
Sized ==
  pc # "encode" /\ intact =>
    \E full \in Nat : /\ Len(frame) = Len(packet) + 1 + full
                      /\ full * (Run - 1) <= Len(packet)

\* The decoder writes at most what it has read, and less by the end.
Behind ==
  /\ pc = "encode" => out = <<>>
  /\ pc = "decode" => /\ Len(out) <= read
                      /\ read = Len(frame) => DecodedShorter
  /\ pc \in {"decoded", "refused"} => DecodedShorter

IInv == TypeOK /\ ZeroFree /\ Written /\ Sized /\ Behind
-----------------------------------------------------------------------------
\* A closed block: its code, which is not zero, and its bytes.
LEMMA ClosedBlock ==
  ASSUME NEW b \in Seq(Code), Len(b) <= Run - 1
  PROVE  /\ Closed(b) \in Seq(Code)
         /\ Len(Closed(b)) = Len(b) + 1
<1>1. Len(b) \in Nat
  BY LenProperties
<1>2. Len(b) + 1 \in Code
  BY <1>1, CobsAssumption DEF Code, Byte
<1>3. <<Len(b) + 1>> \in Seq(Code) /\ Len(<<Len(b) + 1>>) = 1
  BY <1>2
<1>4. QED
  BY <1>1, <1>3, ConcatProperties DEF Closed

\* A closed block behind what is there.
LEMMA BlockWritten ==
  ASSUME NEW d \in Seq(Code), NEW b \in Seq(Code), Len(b) <= Run - 1
  PROVE  /\ d \o Closed(b) \in Seq(Code)
         /\ Len(d \o Closed(b)) = Len(d) + Len(b) + 1
<1> DEFINE c == Closed(b)
<1>1. c \in Seq(Code) /\ Len(c) = Len(b) + 1
  BY ClosedBlock
<1>2. Len(d) \in Nat /\ Len(b) \in Nat
  BY LenProperties
<1> HIDE DEF c
<1>3. d \o c \in Seq(Code) /\ Len(d \o c) = Len(d) + Len(c)
  BY <1>1, ConcatProperties
<1>4. QED
  BY <1>1, <1>2, <1>3 DEF c

\* A sequence without zeros is one of bytes.
LEMMA CodesAreBytes == ASSUME NEW s \in Seq(Code) PROVE s \in Seq(Byte)
BY SeqMonotonic DEF Code

\* Arithmetic: what fits full times into n is at most the quotient.
LEMMA Quotient ==
  ASSUME NEW n \in Nat, NEW k \in Nat, k > 0, NEW full \in Nat, full * k <= n
  PROVE  full <= n \div k
<1> DEFINE q == n \div k
           r == n % k
<1>1. q \in Nat /\ r \in Nat /\ n = k * q + r /\ r < k
  OBVIOUS
<1> HIDE DEF q, r
<1>2. CASE full > q
  <2>1. full - q - 1 \in Nat
    BY <1>1, <1>2
  <2>2. (full - q - 1) * k >= 0
    BY <2>1
  <2>3. (full - q - 1) * k = full * k - k * q - k
    BY <1>1
  <2>4. QED
    BY <1>1, <2>2, <2>3
<1>3. QED
  BY <1>1, <1>2 DEF q
-----------------------------------------------------------------------------
LEMMA InitIInv == Init => IInv
<1> SUFFICES ASSUME Init PROVE IInv
  OBVIOUS
<1> USE DEF Init
<1>0. packet \in Packets /\ packet \in Seq(Byte) /\ Len(packet) \in Nat
  BY CobsAssumption, LenProperties
<1>1. <<>> \in Seq(Byte) /\ <<>> \in Seq(Code) /\ Len(<<>>) = 0
  BY EmptySeq
<1>2. TypeOK    BY <1>0, <1>1 DEF TypeOK
<1>3. ZeroFree  BY <1>1, CobsAssumption DEF ZeroFree
<1>4. Written   BY <1>1, CobsAssumption DEF Written, Full
<1>5. Sized     BY DEF Sized
<1>6. Behind    BY DEF Behind
<1>7. QED       BY <1>2, <1>3, <1>4, <1>5, <1>6 DEF IInv

\* What a byte of the packet adds: a closed block, or a byte to the open one.
LEMMA EncodeByteWrites ==
  ASSUME IInv, EncodeByte
  PROVE  /\ done' \in Seq(Code) /\ block' \in Seq(Code)
         /\ Len(block') <= Run - 2
         /\ read + 1 \in 1 .. Len(packet) /\ Len(packet) \in Nat
         /\ \/ Len(done') + Len(block') = Len(done) + Len(block) + 1 /\ Len(block') <= Len(block) + 1
            \/ /\ Len(done') + Len(block') = Len(done) + Len(block) + 2
               /\ Len(block) = Run - 2 /\ Len(block') = 0
<1> DEFINE b == packet[read + 1]
<1>1. /\ packet \in Seq(Byte) /\ Len(packet) \in Nat /\ read \in Nat
      /\ read + 1 \in 1 .. Len(packet) /\ b \in Byte
  <2>1. packet \in Seq(Byte) /\ read \in Nat /\ read < Len(packet)
    BY CobsAssumption DEF IInv, TypeOK, EncodeByte
  <2>2. Len(packet) \in Nat
    BY <2>1, LenProperties
  <2>3. read + 1 \in 1 .. Len(packet)
    BY <2>1, <2>2
  <2>4. QED
    BY <2>1, <2>2, <2>3, ElementOfSeq
<1>2. /\ done \in Seq(Code) /\ block \in Seq(Code) /\ Len(block) <= Run - 2
      /\ Len(done) \in Nat /\ Len(block) \in Nat
  BY LenProperties DEF IInv, ZeroFree
<1>3. ASSUME b # 0 PROVE Append(block, b) \in Seq(Code) /\ Len(Append(block, b)) = Len(block) + 1
  BY <1>1, <1>2, <1>3 DEF Code
<1>4. <<>> \in Seq(Code) /\ Len(<<>>) = 0
  BY EmptySeq
<1>5. CASE b = 0
  <2>1. done' = done \o Closed(block) /\ block' = <<>>
    BY <1>5 DEF EncodeByte
  <2>2. done' \in Seq(Code) /\ Len(done') = Len(done) + Len(block) + 1
    BY <2>1, <1>2, BlockWritten, CobsAssumption
  <2>3. QED
    BY <1>1, <1>2, <1>4, <2>1, <2>2, CobsAssumption
<1>6. CASE b # 0 /\ Len(block) + 2 = Run
  <2> DEFINE full == Append(block, b)
  <2>1. done' = done \o Closed(full) /\ block' = <<>>
    BY <1>6 DEF EncodeByte
  <2>2. full \in Seq(Code) /\ Len(full) = Len(block) + 1 /\ Len(full) <= Run - 1
    BY <1>2, <1>3, <1>6, CobsAssumption
  <2> HIDE DEF full
  <2>3. done' \in Seq(Code) /\ Len(done') = Len(done) + Len(full) + 1
    BY <2>1, <2>2, <1>2, BlockWritten
  <2>4. QED
    BY <1>1, <1>2, <1>4, <1>6, <2>1, <2>2, <2>3, CobsAssumption
<1>7. CASE b # 0 /\ Len(block) + 2 # Run
  <2>1. done' = done /\ block' = Append(block, b)
    BY <1>7 DEF EncodeByte
  <2>2. QED
    BY <1>1, <1>2, <1>3, <1>7, <2>1, CobsAssumption
<1>8. QED
  BY <1>5, <1>6, <1>7

LEMMA EncodeByteStep == ASSUME IInv, EncodeByte PROVE IInv'
<1>1. /\ pc = "encode" /\ pc' = "encode" /\ read' = read + 1
      /\ packet' = packet /\ frame' = frame /\ out' = out /\ intact' = intact
  BY DEF EncodeByte
<1>2. /\ Len(done) \in Nat /\ Len(block) \in Nat /\ read \in Nat
      /\ Len(done') \in Nat /\ Len(block') \in Nat
  BY EncodeByteWrites, LenProperties DEF IInv, ZeroFree, TypeOK
<1>3. TypeOK'
  <2>1. done' \in Seq(Byte) /\ block' \in Seq(Byte)
    BY EncodeByteWrites, CodesAreBytes
  <2>2. QED
    BY <1>1, <2>1, EncodeByteWrites DEF IInv, TypeOK
<1>4. ZeroFree'
  BY <1>1, EncodeByteWrites DEF IInv, ZeroFree
<1>5. Written'
  <2>1. Full \in Nat /\ Full * (Run - 1) + Len(block) <= read
    BY <1>1 DEF IInv, Written
  <2>2. CASE Len(done') + Len(block') = Len(done) + Len(block) + 1 /\ Len(block') <= Len(block) + 1
    <3>1. Full' = Full
      BY <1>1, <1>2, <2>2 DEF Full
    <3>2. Full * (Run - 1) \in Nat
      BY <2>1, CobsAssumption
    <3>3. QED
      BY <1>1, <1>2, <2>1, <2>2, <3>1, <3>2 DEF Written
  <2>3. CASE /\ Len(done') + Len(block') = Len(done) + Len(block) + 2
             /\ Len(block) = Run - 2 /\ Len(block') = 0
    <3>1. Full' = Full + 1
      BY <1>1, <1>2, <2>3 DEF Full
    <3>2. (Full + 1) * (Run - 1) = Full * (Run - 1) + (Run - 1) /\ Full * (Run - 1) \in Nat
      BY <2>1, CobsAssumption
    <3>3. QED
      BY <1>1, <1>2, <2>1, <2>3, <3>1, <3>2, CobsAssumption DEF Written
  <2>4. QED
    BY <2>2, <2>3, EncodeByteWrites
<1>6. Sized' /\ Behind'
  BY <1>1 DEF IInv, Sized, Behind
<1>7. QED
  BY <1>3, <1>4, <1>5, <1>6 DEF IInv

\* Closing the last block adds one byte to those of the full blocks.
LEMMA DeliverStep == ASSUME IInv, Deliver PROVE IInv'
<1>1. /\ pc = "encode" /\ pc' = "decode" /\ read = Len(packet) /\ read' = 0
      /\ packet' = packet /\ done' = done /\ block' = block /\ out' = out /\ out = <<>>
  BY DEF Deliver, IInv, Behind
<1>2. /\ done \in Seq(Code) /\ block \in Seq(Code) /\ Len(block) <= Run - 2
      /\ Len(done) \in Nat /\ Len(block) \in Nat /\ read \in Nat
  BY LenProperties DEF IInv, ZeroFree, TypeOK
<1>3. /\ done \o Closed(block) \in Seq(Code)
      /\ Len(done \o Closed(block)) = Len(done) + Len(block) + 1
  BY <1>2, BlockWritten, CobsAssumption
<1>4. frame' \in Seq(Code) /\ intact' \in BOOLEAN
  BY <1>3, CobsAssumption DEF Deliver, Code
<1>5. frame' \in Seq(Byte) /\ Len(frame') \in Nat
  BY <1>4, CodesAreBytes, LenProperties
<1>6. TypeOK'
  BY <1>1, <1>4, <1>5 DEF IInv, TypeOK
<1>7. ZeroFree'
  BY <1>1, <1>4 DEF IInv, ZeroFree
<1>8. Sized'
  <2>1. CASE intact'
    <3>1. Len(frame') = Len(done) + Len(block) + 1
      BY <1>3, <2>1 DEF Deliver
    <3>2. Full \in Nat /\ Full * (Run - 1) + Len(block) <= read
      BY <1>1 DEF IInv, Written
    <3>3. Full * (Run - 1) \in Nat
      BY <3>2, CobsAssumption
    <3>4. Full * (Run - 1) <= Len(packet)
      BY <1>1, <1>2, <3>2, <3>3
    <3>5. Len(frame') = Len(packet) + 1 + Full
      BY <1>1, <1>2, <3>1 DEF Full
    <3> HIDE DEF Full
    <3>6. QED
      BY <1>1, <3>2, <3>4, <3>5 DEF Sized
  <2>2. QED
    BY <2>1 DEF Sized
<1>9. Written' /\ Behind'
  BY <1>1, <1>5 DEF Written, Behind, DecodedShorter
<1>10. QED
  BY <1>6, <1>7, <1>8, <1>9 DEF IInv

\* What a block of the frame adds to the output: fewer bytes than it has, and a
\* zero unless it is the last one.
LEMMA DecodeBlockStep == ASSUME IInv, DecodeBlock PROVE IInv'
<1> DEFINE code == frame[read + 1]
           next == read + code
<1>1. /\ pc = "decode" /\ read < Len(frame)
      /\ packet' = packet /\ done' = done /\ block' = block
      /\ frame' = frame /\ intact' = intact
  BY DEF DecodeBlock
<1>2. /\ frame \in Seq(Code) /\ frame \in Seq(Byte) /\ out \in Seq(Byte)
      /\ Len(frame) \in Nat /\ Len(out) \in Nat /\ read \in Nat /\ Len(out) <= read
  BY <1>1, LenProperties DEF IInv, ZeroFree, TypeOK, Behind
<1>3. code \in Nat /\ code >= 1
  <2>1. read + 1 \in 1 .. Len(frame)
    BY <1>1, <1>2
  <2>2. code \in Code
    BY <1>2, <2>1, ElementOfSeq
  <2>3. QED
    BY <2>2, CobsAssumption DEF Code, Byte
<1> HIDE DEF code
<1>4. CASE next <= Len(frame)
  <2> DEFINE bytes == SubSeq(frame, read + 2, next)
             zero  == ZeroAfter(code, next)
  <2>1. pc' = pc /\ read' = next /\ out' = (out \o bytes) \o zero
    BY <1>4 DEF DecodeBlock, code
  <2>2. bytes \in Seq(Byte) /\ Len(bytes) = code - 1
    <3>1. \A i \in read + 2 .. next : frame[i] \in Byte
      BY <1>2, <1>3, <1>4, ElementOfSeq
    <3>2. read + 2 \in Int /\ next \in Int
      BY <1>2, <1>3
    <3> HIDE DEF next
    <3>3. /\ SubSeq(frame, read + 2, next) \in Seq(Byte)
          /\ Len(SubSeq(frame, read + 2, next)) =
               IF read + 2 <= next THEN next - (read + 2) + 1 ELSE 0
      BY <3>1, <3>2, SubSeqProperties
    <3>4. QED
      BY <1>2, <1>3, <3>3 DEF next
  <2>3. zero \in Seq(Byte) /\ Len(zero) \in {0, 1} /\ (next = Len(frame) => Len(zero) = 0)
    <3>1. <<0>> \in Seq(Byte) /\ Len(<<0>>) = 1 /\ <<>> \in Seq(Byte) /\ Len(<<>>) = 0
      BY CobsAssumption DEF Byte
    <3>2. QED
      BY <1>2, <1>3, <3>1 DEF ZeroAfter
  <2> HIDE DEF bytes, zero
  <2>4. out \o bytes \in Seq(Byte) /\ Len(out \o bytes) = Len(out) + code - 1
    BY <1>2, <1>3, <2>2, ConcatProperties
  <2>5. out' \in Seq(Byte) /\ Len(out') = Len(out) + code - 1 + Len(zero)
    <3> DEFINE front == out \o bytes
    <3>1. front \in Seq(Byte) /\ out' = front \o zero
      BY <2>1, <2>4
    <3> HIDE DEF front
    <3>2. out' \in Seq(Byte) /\ Len(out') = Len(front) + Len(zero)
      BY <2>3, <3>1, ConcatProperties
    <3>3. QED
      BY <1>2, <1>3, <2>3, <2>4, <3>2 DEF front
  <2>6. TypeOK'
    BY <1>1, <1>2, <1>3, <1>4, <2>1, <2>5 DEF IInv, TypeOK
  <2>7. Behind'
    <3>0. Len(zero) \in Nat /\ Len(zero) <= 1 /\ read' = read + code
      BY <2>1, <2>3
    <3>1. Len(out') <= read'
      BY <1>2, <1>3, <2>5, <3>0
    <3>2. read' = Len(frame') => Len(out') < Len(frame')
      BY <1>1, <1>2, <1>3, <2>1, <2>3, <2>5
    <3>3. QED
      BY <1>1, <2>1, <3>1, <3>2 DEF Behind, DecodedShorter
  <2>8. ZeroFree' /\ Written' /\ Sized'
    BY <1>1, <2>1 DEF IInv, ZeroFree, Written, Sized
  <2>9. QED
    BY <2>6, <2>7, <2>8 DEF IInv
<1>5. CASE ~(next <= Len(frame))
  <2> DEFINE bytes == SubSeq(frame, read + 2, Len(frame))
  <2>1. pc' = "refused" /\ read' = read /\ out' = out \o bytes
    BY <1>5 DEF DecodeBlock, code
  <2>2. bytes \in Seq(Byte) /\ Len(bytes) = Len(frame) - read - 1
    <3>1. \A i \in read + 2 .. Len(frame) : frame[i] \in Byte
      BY <1>2, ElementOfSeq
    <3>2. read + 2 \in Int /\ Len(frame) \in Int
      BY <1>2
    <3>3. /\ SubSeq(frame, read + 2, Len(frame)) \in Seq(Byte)
          /\ Len(SubSeq(frame, read + 2, Len(frame))) =
               IF read + 2 <= Len(frame) THEN Len(frame) - (read + 2) + 1 ELSE 0
      BY <3>1, <3>2, SubSeqProperties
    <3>4. QED
      BY <1>1, <1>2, <3>3
  <2> HIDE DEF bytes
  <2>3. out' \in Seq(Byte) /\ Len(out') = Len(out) + Len(bytes)
    BY <1>2, <2>1, <2>2, ConcatProperties
  <2>4. TypeOK'
    BY <1>1, <1>2, <2>1, <2>3 DEF IInv, TypeOK
  <2>5. Behind'
    <3>1. Len(out') < Len(frame')
      BY <1>1, <1>2, <2>2, <2>3
    <3>2. QED
      BY <2>1, <3>1 DEF Behind, DecodedShorter
  <2>6. ZeroFree' /\ Written' /\ Sized'
    BY <1>1, <2>1 DEF IInv, ZeroFree, Written, Sized
  <2>7. QED
    BY <2>4, <2>5, <2>6 DEF IInv
<1>6. QED
  BY <1>4, <1>5

LEMMA ReturnStep == ASSUME IInv, Return PROVE IInv'
<1>1. /\ pc = "decode" /\ read = Len(frame) /\ pc' = "decoded"
      /\ packet' = packet /\ read' = read /\ done' = done /\ block' = block
      /\ frame' = frame /\ out' = out /\ intact' = intact
  BY DEF Return
<1>2. TypeOK' /\ ZeroFree' /\ Written' /\ Sized'
  BY <1>1 DEF IInv, TypeOK, ZeroFree, Written, Sized
<1>3. Behind'
  BY <1>1 DEF IInv, Behind, DecodedShorter
<1>4. QED
  BY <1>2, <1>3 DEF IInv

LEMMA NextIInv == IInv /\ [Next]_vars => IInv'
<1> SUFFICES ASSUME IInv, [Next]_vars PROVE IInv'
  OBVIOUS
<1>1. CASE EncodeByte   BY <1>1, EncodeByteStep
<1>2. CASE Deliver      BY <1>2, DeliverStep
<1>3. CASE DecodeBlock  BY <1>3, DecodeBlockStep
<1>4. CASE Return       BY <1>4, ReturnStep
<1>5. CASE UNCHANGED vars
  BY <1>5 DEF vars, IInv, TypeOK, ZeroFree, Written, Full, Sized, Behind, DecodedShorter
<1>6. QED
  BY <1>1, <1>2, <1>3, <1>4, <1>5 DEF Next

LEMMA Invariance == Spec => []IInv
BY InitIInv, NextIInv, PTL DEF Spec
-----------------------------------------------------------------------------
\* The variables keep their types; in particular read_index stays within the
\* packet and then within the frame, also when the frame is damaged.
THEOREM TypeCorrect == Spec => []TypeOK
<1>1. IInv => TypeOK  BY DEF IInv
<1>2. QED             BY <1>1, Invariance, PTL

\* No zero byte in a frame: the delimiter that send_packet puts behind it is the
\* first that uart_isr and the host's reader find.
THEOREM Delimited == Spec => []NoDelimiterInside
<1>1. IInv => NoDelimiterInside
  <2> SUFFICES ASSUME IInv PROVE NoDelimiterInside
    OBVIOUS
  <2>1. frame \in Seq(Code) /\ DOMAIN frame = 1 .. Len(frame)
    BY LenProperties DEF IInv, ZeroFree
  <2>2. \A k \in 1 .. Len(frame) : frame[k] \in Code
    BY <2>1, ElementOfSeq
  <2>3. QED
    BY <2>1, <2>2 DEF NoDelimiterInside, Code
<1>2. QED
  BY <1>1, Invariance, PTL

\* A frame has one byte more than its packet, and one for each full block: two for
\* the longest packet, what send_packet's cobs_buf has room for.
THEOREM OverheadBounded == Spec => []Overhead
<1>1. IInv => Overhead
  <2> SUFFICES ASSUME IInv, intact, pc # "encode"
               PROVE  Len(frame) <= Len(packet) + 1 + Len(packet) \div (Run - 1)
    BY DEF Overhead
  <2>1. packet \in Seq(Byte) /\ Len(packet) \in Nat
    BY CobsAssumption, LenProperties DEF IInv, TypeOK
  <2>2. PICK full \in Nat : /\ Len(frame) = Len(packet) + 1 + full
                            /\ full * (Run - 1) <= Len(packet)
    BY DEF IInv, Sized
  <2>3. Run - 1 \in Nat /\ Run - 1 > 0
    BY CobsAssumption
  <2>4. full <= Len(packet) \div (Run - 1)
    BY <2>1, <2>2, <2>3, Quotient
  <2>5. Len(packet) \div (Run - 1) \in Int
    BY <2>1, <2>3
  <2>6. QED
    BY <2>1, <2>2, <2>4, <2>5
<1>2. QED
  BY <1>1, Invariance, PTL

\* However damaged, a frame decodes to fewer bytes than it has: cobs_decode never
\* writes past a buffer as long as its input.
THEOREM DecodedFits == Spec => []DecodedShorter
<1>1. IInv => DecodedShorter
  <2> SUFFICES ASSUME IInv PROVE DecodedShorter
    OBVIOUS
  <2>1. /\ Len(out) \in Nat /\ Len(frame) \in Nat /\ read \in Nat
        /\ read <= Len(frame) \/ pc = "encode"
    BY LenProperties DEF IInv, TypeOK
  <2>2. pc \in {"encode", "decode", "decoded", "refused"}
    BY DEF IInv, TypeOK
  <2>3. CASE pc = "encode"                    BY <2>3 DEF IInv, Behind, DecodedShorter
  <2>4. CASE pc = "decode" /\ read < Len(frame)
    BY <2>1, <2>4 DEF IInv, Behind, DecodedShorter
  <2>5. CASE pc = "decode" /\ ~(read < Len(frame))
    BY <2>1, <2>5 DEF IInv, Behind, DecodedShorter
  <2>6. CASE pc \in {"decoded", "refused"}    BY <2>6 DEF IInv, Behind
  <2>7. QED
    BY <2>2, <2>3, <2>4, <2>5, <2>6
<1>2. QED
  BY <1>1, Invariance, PTL
-----------------------------------------------------------------------------
(* The round trip.  Marks are where a block of the frame begins, each with where in *)
(* the packet: the encoder lays them, the decoder finds them again.                 *)

Marks(at, f, p) ==
  /\ at \in [DOMAIN at -> 0 .. Len(p)] /\ DOMAIN at \subseteq 0 .. Len(f)
  /\ 0 \in DOMAIN at /\ at[0] = 0

\* The block of f that begins behind i has bytes of p.
Copied(at, f, p, i) ==
  /\ f[i + 1] \in Nat \ {0} /\ i + f[i + 1] <= Len(f)
  /\ at[i] + (f[i + 1] - 1) <= Len(p)
  /\ \A k \in 1 .. f[i + 1] - 1 : f[i + 1 + k] = p[at[i] + k]

\* The next block begins behind it, and behind a zero of p unless it is full.
Continued(at, f, p, i) ==
  LET next == i + f[i + 1]
  IN /\ next \in DOMAIN at
     /\ IF f[i + 1] < Run THEN at[next] = at[i] + f[i + 1] /\ p[at[next]] = 0
        ELSE at[next] = at[i] + (f[i + 1] - 1)

\* d is m bytes of p in closed blocks.
Blocks(at, d, p, m) ==
  /\ Marks(at, d, p) /\ Len(d) \in DOMAIN at /\ at[Len(d)] = m
  /\ \A i \in DOMAIN at : i < Len(d) => Copied(at, d, p, i) /\ Continued(at, d, p, i)

\* f is the frame of p: the last block has the rest of p, and no zero follows.
Framed(at, f, p) ==
  /\ Marks(at, f, p)
  /\ \A i \in DOMAIN at :
       /\ i < Len(f) /\ Copied(at, f, p, i)
       /\ \/ Continued(at, f, p, i)
          \/ i + f[i + 1] = Len(f) /\ at[i] + (f[i + 1] - 1) = Len(p)

\* q is the first n bytes of p.
Begins(q, p, n) == Len(q) = n /\ \A k \in 1 .. n : q[k] = p[k]

\* One sequence behind another, place by place.
LEMMA ConcatParts ==
  ASSUME NEW S, NEW s \in Seq(S), NEW t \in Seq(S)
  PROVE  /\ s \o t \in Seq(S) /\ Len(s \o t) = Len(s) + Len(t)
         /\ Len(s) \in Nat /\ Len(t) \in Nat
         /\ \A k \in 1 .. Len(s) : (s \o t)[k] = s[k]
         /\ \A k \in 1 .. Len(t) : (s \o t)[Len(s) + k] = t[k]
<1>1. Len(s) \in Nat /\ Len(t) \in Nat
  BY LenProperties
<1>2. /\ s \o t \in Seq(S) /\ Len(s \o t) = Len(s) + Len(t)
      /\ \A i \in 1 .. Len(s) + Len(t) :
           (s \o t)[i] = IF i <= Len(s) THEN s[i] ELSE t[i - Len(s)]
  BY ConcatProperties
<1>3. ASSUME NEW k \in 1 .. Len(s) PROVE (s \o t)[k] = s[k]
  BY <1>1, <1>2
<1>4. ASSUME NEW k \in 1 .. Len(t) PROVE (s \o t)[Len(s) + k] = t[k]
  <2>1. /\ Len(s) + k \in 1 .. Len(s) + Len(t) /\ ~(Len(s) + k <= Len(s))
        /\ (Len(s) + k) - Len(s) = k
    BY <1>1
  <2> QED
    BY <1>2, <2>1
<1> QED
  BY <1>1, <1>2, <1>3, <1>4

\* f is d and behind it the code and the bytes of b.
Closes(f, d, b) ==
  /\ Len(f) = Len(d) + Len(b) + 1
  /\ Len(d) \in Nat /\ Len(b) \in Nat
  /\ \A k \in 1 .. Len(d) : f[k] = d[k]
  /\ f[Len(d) + 1] = Len(b) + 1
  /\ \A k \in 1 .. Len(b) : f[Len(d) + 1 + k] = b[k]

\* That is what the encoder writes.
LEMMA BlockBehind ==
  ASSUME NEW d \in Seq(Code), NEW b \in Seq(Code), Len(b) <= Run - 1
  PROVE  Closes(d \o Closed(b), d, b)
<1>0. PICK f : f = d \o Closed(b)
  OBVIOUS
<1>1. PICK c \in Seq(Code) : c = Closed(b) /\ Len(c) = Len(b) + 1
  BY ClosedBlock
<1>2. Len(b) \in Nat /\ Len(d) \in Nat
  BY LenProperties
<1>3. PICK l \in Seq(Code) : l = <<Len(b) + 1>> /\ Len(l) = 1 /\ l[1] = Len(b) + 1
  <2>1. Len(b) + 1 \in Code
    BY <1>2, CobsAssumption DEF Code, Byte
  <2>2. PICK l : l = <<Len(b) + 1>>
    OBVIOUS
  <2>3. l \in Seq(Code) /\ Len(l) = 1 /\ l[1] = Len(b) + 1
    BY <2>1, <2>2
  <2> QED
    BY <2>2, <2>3
<1>4. c[1] = Len(b) + 1 /\ \A k \in 1 .. Len(b) : c[1 + k] = b[k]
  <2>1. c = l \o b
    BY <1>1, <1>3 DEF Closed
  <2>2. /\ \A k \in 1 .. Len(l) : (l \o b)[k] = l[k]
        /\ \A k \in 1 .. Len(b) : (l \o b)[Len(l) + k] = b[k]
    BY ConcatParts
  <2> QED
    BY <1>3, <2>1, <2>2
<1>5. /\ Len(d \o c) = Len(d) + Len(c)
      /\ \A k \in 1 .. Len(d) : (d \o c)[k] = d[k]
      /\ \A k \in 1 .. Len(c) : (d \o c)[Len(d) + k] = c[k]
  BY ConcatParts
<1>6. f = d \o c
  BY <1>0, <1>1
<1>7. f[Len(d) + 1] = Len(b) + 1
  BY <1>1, <1>2, <1>4, <1>5, <1>6
<1>8. ASSUME NEW k \in 1 .. Len(b) PROVE f[Len(d) + 1 + k] = b[k]
  <2>1. 1 + k \in 1 .. Len(c) /\ Len(d) + (1 + k) = Len(d) + 1 + k
    BY <1>1, <1>2
  <2>2. f[Len(d) + (1 + k)] = c[1 + k]
    BY <1>5, <1>6, <2>1
  <2> QED
    BY <1>4, <2>1, <2>2
<1>9. Len(f) = Len(d) + Len(b) + 1 /\ \A k \in 1 .. Len(d) : f[k] = d[k]
  BY <1>1, <1>2, <1>5, <1>6
<1>10. Closes(f, d, b)
  BY <1>2, <1>7, <1>8, <1>9 DEF Closes
<1> QED
  BY <1>0, <1>10

\* Blocks that are there stay as they are when one is put behind them, also when
\* its mark is laid.
LEMMA BlocksStay ==
  ASSUME NEW f, NEW d, NEW b, Closes(f, d, b),
         NEW p, NEW m, NEW at, Blocks(at, d, p, m),
         NEW more, DOMAIN at \subseteq DOMAIN more, \A i \in DOMAIN at : more[i] = at[i],
         NEW i \in DOMAIN at, i < Len(d)
  PROVE  Copied(more, f, p, i) /\ Continued(more, f, p, i)
<1>1. /\ Len(f) = Len(d) + Len(b) + 1 /\ Len(d) \in Nat /\ Len(b) \in Nat
      /\ \A k \in 1 .. Len(d) : f[k] = d[k]
  BY DEF Closes
<1>2. Copied(at, d, p, i) /\ Continued(at, d, p, i) /\ i \in Nat /\ more[i] = at[i]
  BY <1>1 DEF Blocks, Marks
<1>3. PICK c : c = d[i + 1]
  OBVIOUS
<1>4. /\ c \in Nat \ {0} /\ i + c <= Len(d) /\ at[i] + (c - 1) <= Len(p)
      /\ \A k \in 1 .. c - 1 : d[i + 1 + k] = p[at[i] + k]
  BY <1>2, <1>3 DEF Copied
<1>5. f[i + 1] = c
  BY <1>1, <1>2, <1>3
<1>6. ASSUME NEW k \in 1 .. c - 1 PROVE f[i + 1 + k] = p[more[i] + k]
  <2>1. i + 1 + k \in 1 .. Len(d)
    BY <1>1, <1>2, <1>4
  <2>2. f[i + 1 + k] = d[i + 1 + k]
    BY <1>1, <2>1
  <2> QED
    BY <1>2, <1>4, <2>2
<1>7. Copied(more, f, p, i)
  <2>1. i + c <= Len(f)
    BY <1>1, <1>2, <1>4
  <2> QED
    BY <1>2, <1>4, <1>5, <1>6, <2>1 DEF Copied
<1>8. Continued(more, f, p, i)
  <2>1. i + c \in DOMAIN at /\ more[i + c] = at[i + c]
    BY <1>2, <1>3 DEF Continued
  <2> QED
    BY <1>2, <1>3, <1>5, <2>1 DEF Continued
<1> QED
  BY <1>7, <1>8

\* The block put behind them, of the bytes of the packet that follow.
LEMMA LastCopied ==
  ASSUME NEW f, NEW d, NEW b, Closes(f, d, b), NEW p, NEW m \in Nat, NEW at, at[Len(d)] = m,
         m + Len(b) <= Len(p), \A k \in 1 .. Len(b) : b[k] = p[m + k]
  PROVE  Copied(at, f, p, Len(d))
<1>1. /\ Len(f) = Len(d) + Len(b) + 1 /\ f[Len(d) + 1] = Len(b) + 1
      /\ \A k \in 1 .. Len(b) : f[Len(d) + 1 + k] = b[k]
      /\ Len(d) \in Nat /\ Len(b) \in Nat
  BY DEF Closes
<1>2. f[Len(d) + 1] - 1 = Len(b)
  BY <1>1
<1>3. Len(d) + f[Len(d) + 1] <= Len(f) /\ f[Len(d) + 1] \in Nat \ {0}
  BY <1>1
<1> QED
  BY <1>1, <1>2, <1>3 DEF Copied

\* The encoder closes a block: one more mark.
LEMMA BlockAppended ==
  ASSUME NEW f, NEW d, NEW b, Closes(f, d, b),
         NEW p, Len(p) \in Nat, NEW m \in Nat, NEW at, Blocks(at, d, p, m),
         \A k \in 1 .. Len(b) : b[k] = p[m + k],
         NEW n \in Nat, n <= Len(p),
         \/ Len(b) + 1 < Run /\ n = m + Len(b) + 1 /\ p[n] = 0
         \/ Len(b) + 1 = Run /\ n = m + Len(b)
  PROVE  \E more : Blocks(more, f, p, n)
<1> DEFINE more == [i \in DOMAIN at \cup {Len(f)} |-> IF i = Len(f) THEN n ELSE at[i]]
<1>1. /\ Len(f) = Len(d) + Len(b) + 1 /\ f[Len(d) + 1] = Len(b) + 1
      /\ Len(d) \in Nat /\ Len(b) \in Nat
  BY DEF Closes
<1>2. /\ Marks(at, d, p) /\ Len(d) \in DOMAIN at /\ at[Len(d)] = m
      /\ DOMAIN at \subseteq 0 .. Len(d)
  BY DEF Blocks, Marks
<1>3. /\ DOMAIN more = DOMAIN at \cup {Len(f)} /\ more[Len(f)] = n
      /\ \A i \in DOMAIN at : i # Len(f) /\ more[i] = at[i]
  BY <1>1, <1>2
<1> HIDE DEF more
<1>4. Marks(more, f, p)
  <2>1. \A i \in DOMAIN more : i \in 0 .. Len(f) /\ more[i] \in 0 .. Len(p)
    BY <1>1, <1>2, <1>3 DEF Marks
  <2>2. more = [i \in DOMAIN more |-> more[i]]
    BY DEF more
  <2>3. 0 \in DOMAIN more /\ more[0] = 0
    BY <1>2, <1>3 DEF Marks
  <2> QED
    BY <2>1, <2>2, <2>3 DEF Marks
<1>5. Copied(more, f, p, Len(d))
  <2>1. m + Len(b) <= Len(p)
    BY <1>1
  <2>2. more[Len(d)] = m
    BY <1>2, <1>3
  <2> QED
    BY <2>1, <2>2, LastCopied
<1>6. Continued(more, f, p, Len(d))
  <2>1. Len(d) + f[Len(d) + 1] = Len(f) /\ more[Len(d)] = m
    BY <1>1, <1>2, <1>3
  <2>2. IF f[Len(d) + 1] < Run THEN n = m + f[Len(d) + 1] /\ p[n] = 0
        ELSE n = m + (f[Len(d) + 1] - 1)
    BY <1>1, CobsAssumption
  <2> QED
    BY <1>3, <2>1, <2>2 DEF Continued
<1>7. ASSUME NEW i \in DOMAIN more, i < Len(f)
      PROVE  Copied(more, f, p, i) /\ Continued(more, f, p, i)
  <2>1. i \in DOMAIN at /\ i \in Nat /\ i <= Len(d)
    BY <1>1, <1>2, <1>3, <1>7
  <2>2. CASE i = Len(d)
    BY <1>5, <1>6, <2>2
  <2>3. CASE i < Len(d)
    BY <1>3, <2>1, <2>3, BlocksStay
  <2> QED
    BY <1>1, <2>1, <2>2, <2>3
<1> QED
  BY <1>3, <1>4, <1>7 DEF Blocks

\* The encoder closes the last block: no mark behind it.
LEMMA FrameClosed ==
  ASSUME NEW f, NEW d, NEW b, Closes(f, d, b),
         NEW p, NEW m \in Nat, NEW at, Blocks(at, d, p, m),
         \A k \in 1 .. Len(b) : b[k] = p[m + k], m + Len(b) = Len(p)
  PROVE  Framed(at, f, p)
<1>1. /\ Len(f) = Len(d) + Len(b) + 1 /\ f[Len(d) + 1] = Len(b) + 1
      /\ Len(d) \in Nat /\ Len(b) \in Nat
  BY DEF Closes
<1>2. /\ Marks(at, d, p) /\ at[Len(d)] = m /\ DOMAIN at \subseteq 0 .. Len(d)
  BY DEF Blocks, Marks
<1>3. Marks(at, f, p)
  <2>1. DOMAIN at \subseteq 0 .. Len(f)
    BY <1>1, <1>2
  <2> QED
    BY <1>2, <2>1 DEF Marks
<1>4. Copied(at, f, p, Len(d))
  BY <1>1, <1>2, LastCopied
<1>5. Len(d) + f[Len(d) + 1] = Len(f) /\ at[Len(d)] + (f[Len(d) + 1] - 1) = Len(p)
  BY <1>1, <1>2
<1>6. ASSUME NEW i \in DOMAIN at
      PROVE  /\ i < Len(f) /\ Copied(at, f, p, i)
             /\ \/ Continued(at, f, p, i)
                \/ i + f[i + 1] = Len(f) /\ at[i] + (f[i + 1] - 1) = Len(p)
  <2>1. i \in Nat /\ i <= Len(d) /\ i < Len(f)
    BY <1>1, <1>2
  <2>2. CASE i = Len(d)
    BY <1>4, <1>5, <2>1, <2>2
  <2>3. CASE i < Len(d)
    BY <2>1, <2>3, BlocksStay
  <2> QED
    BY <1>1, <2>1, <2>2, <2>3
<1> QED
  BY <1>3, <1>6 DEF Framed

\* What begins a packet still does with the bytes that follow behind it.
LEMMA BeginsLonger ==
  ASSUME NEW q \in Seq(Byte), NEW s \in Seq(Byte), NEW p, NEW n \in Nat,
         Begins(q, p, n), \A k \in 1 .. Len(s) : s[k] = p[n + k]
  PROVE  Begins(q \o s, p, n + Len(s))
<1>1. /\ Len(q \o s) = Len(q) + Len(s) /\ Len(q) = n /\ Len(s) \in Nat
      /\ \A k \in 1 .. n : (q \o s)[k] = q[k] /\ q[k] = p[k]
      /\ \A k \in 1 .. Len(s) : (q \o s)[n + k] = s[k]
  <2>1. Len(q) = n /\ \A k \in 1 .. n : q[k] = p[k]
    BY DEF Begins
  <2>2. /\ Len(q \o s) = Len(q) + Len(s) /\ Len(s) \in Nat
        /\ \A k \in 1 .. Len(q) : (q \o s)[k] = q[k]
        /\ \A k \in 1 .. Len(s) : (q \o s)[Len(q) + k] = s[k]
    BY ConcatParts
  <2> QED
    BY <2>1, <2>2
<1>2. ASSUME NEW k \in 1 .. n + Len(s) PROVE (q \o s)[k] = p[k]
  <2>1. CASE k <= n
    BY <1>1, <2>1
  <2>2. CASE ~(k <= n)
    <3>1. PICK j \in 1 .. Len(s) : k = n + j
      <4>1. k - n \in 1 .. Len(s) /\ k = n + (k - n)
        BY <1>1, <2>2
      <4> QED
        BY <4>1
    <3> QED
      BY <1>1, <3>1
  <2> QED
    BY <2>1, <2>2
<1> QED
  BY <1>1, <1>2 DEF Begins

\* What begins a packet and is as long is the packet.
LEMMA WholeBegins ==
  ASSUME NEW q \in Seq(Byte), NEW p \in Seq(Byte), Begins(q, p, Len(p))
  PROVE  q = p
BY SeqEqual DEF Begins

\* What begins a packet is a part of it.
LEMMA BeginsIsSubSeq ==
  ASSUME NEW q \in Seq(Byte), NEW p \in Seq(Byte), NEW n \in 0 .. Len(p), Begins(q, p, n)
  PROVE  q = SubSeq(p, 1, n)
<1>1. Len(p) \in Nat /\ n \in Nat
  BY LenProperties
<1>2. PICK s : s = SubSeq(p, 1, n)
  OBVIOUS
<1>3. \A i \in 1 .. n : p[i] \in Byte
  BY <1>1, ElementOfSeq
<1>4. /\ SubSeq(p, 1, n) \in Seq(Byte)
      /\ Len(SubSeq(p, 1, n)) = IF 1 <= n THEN n - 1 + 1 ELSE 0
      /\ \A i \in 1 .. n - 1 + 1 : SubSeq(p, 1, n)[i] = p[1 + i - 1]
  BY <1>1, <1>3, SubSeqProperties
<1>5. s \in Seq(Byte) /\ Len(s) = n /\ \A i \in 1 .. n : s[i] = p[i]
  BY <1>1, <1>2, <1>4
<1>6. Len(q) = Len(s) /\ \A i \in 1 .. Len(q) : q[i] = s[i]
  BY <1>1, <1>5 DEF Begins
<1> QED
  BY <1>2, <1>5, <1>6, SeqEqual

-----------------------------------------------------------------------------
\* What the decoder has read and written of a frame whose marks are at.
AtMark(at) ==
  /\ Framed(at, frame, packet)
  /\ IF read < Len(frame) THEN read \in DOMAIN at /\ Begins(out, packet, at[read])
     ELSE out = packet

\* The encoder: closed blocks of what is read but for the block, which follows;
\* the decoder: at a mark, with the bytes of the packet before it.
Encoding ==
  pc = "encode" =>
    /\ \A k \in 1 .. Len(block) : block[k] = packet[read - Len(block) + k]
    /\ Len(block) <= read
    /\ \E at : Blocks(at, done, packet, read - Len(block))

Decoding ==
  intact => /\ pc = "decode" => \E at : AtMark(at)
            /\ pc = "decoded" => out = packet
            /\ pc # "refused"

RoundInv == IInv /\ Encoding /\ Decoding

LEMMA InitRound == Init => RoundInv
<1> SUFFICES ASSUME Init PROVE RoundInv
  OBVIOUS
<1>1. IInv
  BY InitIInv
<1>2. /\ pc = "encode" /\ read = 0 /\ done = <<>> /\ block = <<>>
      /\ Len(done) = 0 /\ Len(block) = 0
  BY DEF Init
<1>3. Len(packet) \in Nat
  BY <1>1, CobsAssumption, LenProperties DEF IInv, TypeOK
<1>4. PICK at : at = [i \in {0} |-> 0]
  OBVIOUS
<1>5. DOMAIN at = {0} /\ at[0] = 0 /\ at \in [{0} -> 0 .. Len(packet)]
  BY <1>3, <1>4
<1>6. Blocks(at, done, packet, 0)
  BY <1>2, <1>5 DEF Blocks, Marks
<1>7. Encoding
  BY <1>2, <1>6 DEF Encoding
<1>8. Decoding
  BY <1>2 DEF Decoding
<1> QED
  BY <1>1, <1>7, <1>8 DEF RoundInv

\* A byte is read: it joins the block, or the block is closed, by a zero or full.
LEMMA EncodeByteRound == ASSUME RoundInv, EncodeByte PROVE RoundInv'
<1>1. IInv'
  BY EncodeByteStep DEF RoundInv
<1>2. /\ pc = "encode" /\ pc' = "encode" /\ packet' = packet /\ intact' = intact
      /\ read' = read + 1 /\ read < Len(packet)
  BY DEF EncodeByte
<1>3. Decoding'
  BY <1>2 DEF Decoding
<1>4. /\ done \in Seq(Code) /\ block \in Seq(Code) /\ Len(block) \in Nat
      /\ Len(block) <= Run - 2 /\ packet \in Seq(Byte) /\ Len(packet) \in Nat /\ read \in Nat
  BY CobsAssumption, LenProperties DEF RoundInv, IInv, TypeOK, ZeroFree
<1>5. PICK m, at : /\ m \in Nat /\ m = read - Len(block)
                   /\ Blocks(at, done, packet, m)
                   /\ \A k \in 1 .. Len(block) : block[k] = packet[m + k]
  <2>1. PICK m : m = read - Len(block)
    OBVIOUS
  <2>2. /\ \A k \in 1 .. Len(block) : block[k] = packet[m + k]
        /\ Len(block) <= read /\ \E at : Blocks(at, done, packet, m)
    BY <1>2, <2>1 DEF RoundInv, Encoding
  <2>3. m \in Nat
    BY <1>4, <2>1, <2>2
  <2> QED
    BY <2>1, <2>2, <2>3
<1>6. PICK b \in Byte : b = packet[read + 1]
  <2>1. read + 1 \in 1 .. Len(packet)
    BY <1>2, <1>4
  <2> QED
    BY <1>4, <2>1, ElementOfSeq
<1>7. CASE b = 0
  <2>1. done' = done \o Closed(block) /\ block' = <<>>
    BY <1>2, <1>6, <1>7 DEF EncodeByte
  <2>2. Closes(done', done, block)
    BY <1>4, <2>1, BlockBehind, CobsAssumption
  <2>3. PICK n \in Nat : n = read + 1
    BY <1>4
  <2>4. /\ n <= Len(packet) /\ n = m + Len(block) + 1 /\ packet[n] = 0
        /\ Len(block) + 1 < Run
    <3>1. m = read - Len(block)
      BY <1>5
    <3>2. n <= Len(packet) /\ n = m + Len(block) + 1
      BY <1>2, <1>4, <2>3, <3>1
    <3>3. packet[n] = 0
      BY <1>6, <1>7, <2>3
    <3>4. Len(block) + 1 < Run
      BY <1>4, CobsAssumption
    <3> QED
      BY <3>2, <3>3, <3>4
  <2>5. \E more : Blocks(more, done', packet, n)
    BY <1>4, <1>5, <2>2, <2>4, BlockAppended
  <2>6. Len(block') = 0 /\ read' - Len(block') = n /\ Len(block') <= read'
    BY <1>2, <1>4, <2>1, <2>3
  <2>7. Encoding'
    BY <1>2, <2>5, <2>6 DEF Encoding
  <2> QED
    BY <1>1, <1>3, <2>7 DEF RoundInv
<1>8. CASE b # 0
  <2>1. PICK longer : longer = Append(block, b)
    OBVIOUS
  <2>2. b \in Code
    BY <1>8 DEF Code
  <2>3. /\ longer \in Seq(Code) /\ Len(longer) = Len(block) + 1
        /\ \A k \in 1 .. Len(block) : longer[k] = block[k]
        /\ longer[Len(block) + 1] = b
    BY <1>4, <2>1, <2>2, AppendProperties
  <2>4. ASSUME NEW k \in 1 .. Len(longer) PROVE longer[k] = packet[m + k]
    <3>1. CASE k = Len(block) + 1
      BY <1>4, <1>5, <1>6, <2>3, <3>1
    <3>2. CASE k \in 1 .. Len(block)
      BY <1>5, <2>3, <3>2
    <3> QED
      BY <1>4, <2>3, <3>1, <3>2
  <2>5. CASE Len(block) + 2 = Run
    <3>1. done' = done \o Closed(longer) /\ block' = <<>>
      BY <1>2, <1>6, <1>8, <2>1, <2>5 DEF EncodeByte
    <3>2. Closes(done', done, longer)
      BY <1>4, <2>3, <2>5, <3>1, BlockBehind, CobsAssumption
    <3>3. PICK n \in Nat : n = read + 1
      BY <1>4
    <3>4. n <= Len(packet) /\ n = m + Len(longer) /\ Len(longer) + 1 = Run
      BY <1>2, <1>4, <1>5, <2>3, <2>5, <3>3, CobsAssumption
    <3>5. \E more : Blocks(more, done', packet, n)
      BY <1>4, <1>5, <2>4, <3>2, <3>4, BlockAppended
    <3>6. Len(block') = 0 /\ read' - Len(block') = n /\ Len(block') <= read'
      BY <1>2, <1>4, <3>1, <3>3
    <3>7. Encoding'
      BY <1>2, <3>5, <3>6 DEF Encoding
    <3> QED
      BY <1>1, <1>3, <3>7 DEF RoundInv
  <2>6. CASE Len(block) + 2 # Run
    <3>1. done' = done /\ block' = longer
      BY <1>2, <1>6, <1>8, <2>1, <2>6 DEF EncodeByte
    <3>2. Len(block') = Len(block) + 1 /\ read' - Len(block') = m /\ Len(block') <= read'
      <4>1. m = read - Len(block) /\ m \in Nat
        BY <1>5
      <4>2. Len(block') = Len(block) + 1 /\ read' = read + 1
        BY <1>2, <2>3, <3>1
      <4>3. read' - Len(block') = m
        BY <1>4, <4>1, <4>2
      <4>4. Len(block') <= read'
        BY <1>4, <4>1, <4>2
      <4> QED
        BY <4>2, <4>3, <4>4
    <3>3. Encoding'
      BY <1>2, <1>5, <2>4, <3>1, <3>2 DEF Encoding
    <3> QED
      BY <1>1, <1>3, <3>3 DEF RoundInv
  <2> QED
    BY <2>5, <2>6
<1> QED
  BY <1>7, <1>8

\* The frame: the last block closed, the decoder at the first mark.
LEMMA DeliverRound == ASSUME RoundInv, Deliver PROVE RoundInv'
<1>1. IInv'
  BY DeliverStep DEF RoundInv
<1>2. /\ pc = "encode" /\ pc' = "decode" /\ packet' = packet /\ out' = out /\ out = <<>>
      /\ read = Len(packet) /\ read' = 0
  BY DEF Deliver, RoundInv, IInv, Behind
<1>3. Encoding'
  BY <1>2 DEF Encoding
<1>4. /\ done \in Seq(Code) /\ block \in Seq(Code) /\ Len(block) \in Nat
      /\ Len(block) <= Run - 1 /\ Len(packet) \in Nat /\ read \in Nat
  BY CobsAssumption, LenProperties DEF RoundInv, IInv, TypeOK, ZeroFree
<1>5. PICK m, at : /\ m \in Nat /\ m = read - Len(block)
                   /\ Blocks(at, done, packet, m)
                   /\ \A k \in 1 .. Len(block) : block[k] = packet[m + k]
  <2>1. PICK m : m = read - Len(block)
    OBVIOUS
  <2>2. /\ \A k \in 1 .. Len(block) : block[k] = packet[m + k]
        /\ Len(block) <= read /\ \E at : Blocks(at, done, packet, m)
    BY <1>2, <2>1 DEF RoundInv, Encoding
  <2>3. m \in Nat
    BY <1>4, <2>1, <2>2
  <2> QED
    BY <2>1, <2>2, <2>3
<1>6. ASSUME intact' PROVE \E mark : AtMark(mark)'
  <2>1. frame' = done \o Closed(block)
    BY <1>6 DEF Deliver
  <2>2. Closes(frame', done, block)
    BY <1>4, <2>1, BlockBehind
  <2>3. m + Len(block) = Len(packet)
    BY <1>2, <1>4, <1>5
  <2>4. Framed(at, frame', packet')
    BY <1>2, <1>5, <2>2, <2>3, FrameClosed
  <2>5. 0 < Len(frame') /\ 0 \in DOMAIN at /\ at[0] = 0
    BY <1>4, <2>2, <2>4 DEF Closes, Framed, Marks
  <2>6. Begins(out', packet', at[0])
    BY <1>2, <2>5 DEF Begins
  <2> QED
    BY <1>2, <2>4, <2>5, <2>6 DEF AtMark
<1>7. Decoding'
  BY <1>2, <1>6 DEF Decoding
<1> QED
  BY <1>1, <1>3, <1>7 DEF RoundInv

\* A block is decoded: the bytes of the packet up to the next mark, or to its end.
LEMMA DecodeBlockRound == ASSUME RoundInv, DecodeBlock PROVE RoundInv'
<1>1. IInv'
  BY DecodeBlockStep DEF RoundInv
<1>2. /\ pc = "decode" /\ read < Len(frame) /\ pc' \in {"decode", "refused"}
      /\ packet' = packet /\ frame' = frame /\ intact' = intact
  BY DEF DecodeBlock
<1>3. Encoding'
  BY <1>2 DEF Encoding
<1>4. /\ frame \in Seq(Byte) /\ Len(frame) \in Nat /\ read \in Nat /\ out \in Seq(Byte)
      /\ packet \in Seq(Byte) /\ Len(packet) \in Nat
  BY CobsAssumption, LenProperties DEF RoundInv, IInv, TypeOK
<1>5. SUFFICES ASSUME intact PROVE pc' = "decode" /\ \E mark : AtMark(mark)'
  BY <1>1, <1>2, <1>3 DEF RoundInv, Decoding
<1>6. PICK at : /\ Framed(at, frame, packet)
                /\ read \in DOMAIN at /\ Begins(out, packet, at[read])
  BY <1>2, <1>5 DEF RoundInv, Decoding, AtMark
<1>7. PICK n, code : n = at[read] /\ code = frame[read + 1]
  OBVIOUS
<1>8. /\ n \in 0 .. Len(packet) /\ code \in Nat \ {0} /\ read + code <= Len(frame)
      /\ n + (code - 1) <= Len(packet)
      /\ \A k \in 1 .. code - 1 : frame[read + 1 + k] = packet[n + k]
  BY <1>6, <1>7 DEF Framed, Marks, Copied
<1>9. PICK bytes : bytes = SubSeq(frame, read + 2, read + code)
  OBVIOUS
<1>10. pc' = "decode" /\ read' = read + code
  BY <1>2, <1>7, <1>8 DEF DecodeBlock
<1>11. PICK zero : zero = ZeroAfter(code, read + code)
  OBVIOUS
<1>12. out' = (out \o bytes) \o zero
  BY <1>7, <1>8, <1>9, <1>11 DEF DecodeBlock
<1>13. /\ bytes \in Seq(Byte) /\ Len(bytes) = code - 1
       /\ \A k \in 1 .. code - 1 : bytes[k] = packet[n + k]
  <2>1. PICK first, last \in Nat : first = read + 2 /\ last = read + code
    BY <1>4, <1>8
  <2>2. \A i \in first .. last : frame[i] \in Byte
    BY <1>4, <1>8, <2>1, ElementOfSeq
  <2>3. /\ SubSeq(frame, first, last) \in Seq(Byte)
        /\ Len(SubSeq(frame, first, last)) = IF first <= last THEN last - first + 1 ELSE 0
        /\ \A i \in 1 .. last - first + 1 : SubSeq(frame, first, last)[i] = frame[first + i - 1]
    BY <2>1, <2>2, SubSeqProperties
  <2>4. Len(bytes) = code - 1 /\ last - first + 1 = code - 1
    BY <1>4, <1>8, <1>9, <2>1, <2>3
  <2>5. ASSUME NEW k \in 1 .. code - 1 PROVE bytes[k] = packet[n + k]
    <3>1. first + k - 1 = read + 1 + k
      BY <1>4, <2>1
    <3>2. bytes[k] = frame[first + k - 1]
      BY <1>9, <2>1, <2>3, <2>4
    <3> QED
      BY <1>8, <3>1, <3>2
  <2> QED
    BY <1>9, <2>1, <2>3, <2>4, <2>5
<1>14. Begins(out \o bytes, packet, n + (code - 1))
  <2>1. Begins(out, packet, n)
    BY <1>6, <1>7
  <2> QED
    BY <1>4, <1>8, <1>13, <2>1, BeginsLonger
<1>15. out \o bytes \in Seq(Byte)
  BY <1>4, <1>13, ConcatParts
<1>16. CASE Continued(at, frame, packet, read)
  <2>1. PICK next : next = read + code
    OBVIOUS
  <2>2. /\ next \in DOMAIN at
        /\ IF code < Run THEN at[next] = n + code /\ packet[n + code] = 0
           ELSE at[next] = n + (code - 1)
    BY <1>7, <1>16, <2>1 DEF Continued
  <2>3. next < Len(frame) /\ at[next] \in 0 .. Len(packet)
    BY <1>6, <2>2 DEF Framed, Marks
  <2>4. Begins(out', packet, at[next])
    <3>1. CASE code < Run
      <4>1. zero = <<0>>
        BY <1>11, <2>1, <2>3, <3>1 DEF ZeroAfter
      <4>2. zero \in Seq(Byte) /\ Len(zero) = 1 /\ zero[1] = 0
        BY <4>1, CobsAssumption DEF Byte
      <4>3. PICK now \in Nat : now = n + (code - 1) /\ now + 1 = n + code
        BY <1>8
      <4>4. \A k \in 1 .. Len(zero) : zero[k] = packet[now + k]
        BY <2>2, <3>1, <4>2, <4>3
      <4>5. Begins((out \o bytes) \o zero, packet, now + Len(zero))
        BY <1>14, <1>15, <4>2, <4>3, <4>4, BeginsLonger
      <4> QED
        BY <1>12, <2>2, <3>1, <4>2, <4>3, <4>5
    <3>2. CASE ~(code < Run)
      <4>1. zero = <<>>
        BY <1>11, <3>2 DEF ZeroAfter
      <4>2. out' = out \o bytes
        BY <1>12, <1>15, <4>1, ConcatEmptySeq
      <4> QED
        BY <1>14, <2>2, <3>2, <4>2
    <3> QED
      BY <3>1, <3>2
  <2> QED
    BY <1>2, <1>6, <1>10, <2>1, <2>2, <2>3, <2>4 DEF AtMark
<1>17. CASE read + code = Len(frame) /\ n + (code - 1) = Len(packet)
  <2>1. zero = <<>>
    BY <1>4, <1>11, <1>17 DEF ZeroAfter
  <2>2. out' = out \o bytes
    BY <1>12, <1>15, <2>1, ConcatEmptySeq
  <2>3. out' = packet
    BY <1>4, <1>14, <1>15, <1>17, <2>2, WholeBegins
  <2>4. ~(read' < Len(frame'))
    BY <1>2, <1>4, <1>10, <1>17
  <2> QED
    BY <1>2, <1>6, <1>10, <2>3, <2>4 DEF AtMark
<1>18. \/ Continued(at, frame, packet, read)
       \/ read + code = Len(frame) /\ n + (code - 1) = Len(packet)
  BY <1>6, <1>7 DEF Framed
<1> QED
  BY <1>10, <1>16, <1>17, <1>18

LEMMA ReturnRound == ASSUME RoundInv, Return PROVE RoundInv'
<1>1. IInv'
  BY ReturnStep DEF RoundInv
<1>2. /\ pc = "decode" /\ pc' = "decoded" /\ read = Len(frame) /\ Len(frame) \in Nat
      /\ packet' = packet /\ out' = out /\ intact' = intact
  BY LenProperties DEF Return, RoundInv, IInv, TypeOK
<1>3. Decoding'
  BY <1>2 DEF RoundInv, Decoding, AtMark
<1>4. Encoding'
  BY <1>2 DEF Encoding
<1> QED
  BY <1>1, <1>3, <1>4 DEF RoundInv

LEMMA NextRound == RoundInv /\ [Next]_vars => RoundInv'
<1> SUFFICES ASSUME RoundInv, [Next]_vars PROVE RoundInv'
  OBVIOUS
<1>1. CASE EncodeByte   BY <1>1, EncodeByteRound
<1>2. CASE Deliver      BY <1>2, DeliverRound
<1>3. CASE DecodeBlock  BY <1>3, DecodeBlockRound
<1>4. CASE Return       BY <1>4, ReturnRound
<1>5. CASE UNCHANGED vars
  <2>1. IInv'
    BY <1>5, NextIInv DEF RoundInv
  <2>2. /\ pc' = pc /\ packet' = packet /\ read' = read /\ done' = done /\ block' = block
        /\ frame' = frame /\ out' = out /\ intact' = intact
    BY <1>5 DEF vars
  <2>3. Encoding'
    BY <2>2 DEF RoundInv, Encoding
  <2>4. Decoding'
    <3>1. \A at : AtMark(at)' <=> AtMark(at)
      BY <2>2 DEF AtMark
    <3> QED
      BY <2>2, <3>1 DEF RoundInv, Decoding
  <2> QED
    BY <2>1, <2>3, <2>4 DEF RoundInv
<1> QED
  BY <1>1, <1>2, <1>3, <1>4, <1>5 DEF Next

\* What cobs_decode makes of an encoded packet: never more than the packet begins
\* with, never a refusal, and in the end the packet, whatever its bytes, its length
\* and the size of a block.
THEOREM RoundTripCorrect == Spec => []RoundTrip
<1>1. ASSUME RoundInv PROVE RoundTrip
  <2>1. ASSUME intact, pc # "encode"
        PROVE  pc # "refused" /\ \E k \in 0 .. Len(packet) : out = SubSeq(packet, 1, k)
    <3>1. /\ packet \in Seq(Byte) /\ out \in Seq(Byte) /\ Len(packet) \in Nat
          /\ Len(frame) \in Nat /\ read \in Nat
          /\ pc \in {"encode", "decode", "decoded", "refused"}
      BY <1>1, CobsAssumption, LenProperties DEF RoundInv, IInv, TypeOK
    <3>2. pc # "refused"
      BY <1>1, <2>1 DEF RoundInv, Decoding
    <3>3. PICK k \in 0 .. Len(packet) : Begins(out, packet, k)
      <4>1. CASE out = packet
        BY <3>1, <4>1 DEF Begins
      <4>2. CASE out # packet
        <5>1. PICK at : AtMark(at)
          BY <1>1, <2>1, <3>1, <3>2, <4>2 DEF RoundInv, Decoding
        <5>2. read \in DOMAIN at /\ Begins(out, packet, at[read])
          BY <4>2, <5>1 DEF AtMark
        <5>3. at[read] \in 0 .. Len(packet)
          BY <5>1, <5>2 DEF AtMark, Framed, Marks
        <5> QED
          BY <5>2, <5>3
      <4> QED
        BY <4>1, <4>2
    <3>4. out = SubSeq(packet, 1, k)
      BY <3>1, <3>3, BeginsIsSubSeq
    <3> QED
      BY <3>2, <3>4
  <2> QED
    BY <1>1, <2>1 DEF RoundInv, Decoding, RoundTrip
<1> QED
  BY <1>1, InitRound, NextRound, PTL DEF Spec
=============================================================================
