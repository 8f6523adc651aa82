----------------------------- MODULE UartRxProofs -----------------------------
(***************************************************************************)
(* The receive path for every size of its buffers, every number of frames  *)
(* and of faults: no lost wakeup, recovery after faults, and the           *)
(* refinement of Channel.                                                  *)
(***************************************************************************)
EXTENDS UartRx, SequenceTheorems, TLAPS

\* The line has a byte of a frame at most, and a fault in it restarts the count.
LineInv ==
  /\ pos <= size + 1
  /\ sent > 0 => size >= 1
  /\ sent = 0 => pos = 0
  /\ hurt => clean = 0

\* Frame f is on the line or has been, from its first byte on.
Arrived(f) == f < sent \/ (f = sent /\ pos > 0)

\* The first byte of a frame.
First(b) == b[2] = 1 /\ b[3] > 0

\* A frame the thread has or had, or will get from the queue.
Passed(f) == f = last \/ f = msg \/ \E i \in DOMAIN msgq : f = msgq[i]

\* Each frame has its first byte in the ring at most once, in the order sent, and
\* behind it no frame that has already left the ring.
RingInv ==
  /\ \A i \in DOMAIN ring : First(ring[i]) =>
       Arrived(ring[i][1]) /\ \A f \in 0 .. MaxFrames : Passed(f) => f < ring[i][1]
  /\ \A i, j \in DOMAIN ring :
       i < j /\ First(ring[i]) /\ First(ring[j]) => ring[i][1] < ring[j][1]

\* Frames that have left the ring: in order, from the last dispatched on.
QueueInv ==
  /\ \A f \in 0 .. MaxFrames : Passed(f) /\ f # Bad => Arrived(f)
  /\ \A i \in DOMAIN msgq : msgq[i] # Bad => msg < msgq[i] /\ last < msgq[i]
  /\ \A i, j \in DOMAIN msgq :
       i < j /\ msgq[i] # Bad /\ msgq[j] # Bad => msgq[i] < msgq[j]
  /\ msg # Bad => last < msg
  /\ pc # "dispatch" => msg = Bad

\* Once the path has recovered the ring holds what has arrived of the frame on the
\* line, and nothing else.
AlignInv ==
  OnLine /\ ~hurt /\ clean = Recovery =>
    /\ Len(ring) = pos
    /\ \A i \in 1 .. pos : ring[i] = <<sent, i, size>>

IInv == /\ TypeOK /\ LineInv /\ NoLostWakeup /\ ResidueShrinks /\ AlignInv /\ InSync
        /\ RingInv /\ QueueInv
-----------------------------------------------------------------------------
(* Arithmetic of the bounds *)

LEMMA LeastIs ==
  ASSUME NEW a \in Nat, NEW b \in Nat \ {0}
  PROVE  /\ Least(a, b) \in 0 .. a
         /\ Least(a, b) = 0 <=> a = 0
         /\ a <= b => Least(a, b) = a
         /\ a > b => Least(a, b) = b
BY DEF Least

LEMMA RestLength ==
  ASSUME NEW l \in Nat, NEW n \in Nat, n <= l
  PROVE  (IF n + 1 <= l THEN l - (n + 1) + 1 ELSE 0) = l - n
OBVIOUS

\* A quotient, times the divisor, is the dividend less a remainder.
LEMMA Quotient ==
  ASSUME NEW n \in Int, NEW d \in Nat, d > 0
  PROVE  /\ n \div d \in Int
         /\ (n \div d) * d <= n /\ n < (n \div d) * d + d
OBVIOUS

\* Recovery is a number of frames, after which nothing stale is left.
LEMMA RecoveryIs ==
  /\ Recovery \in Nat /\ Recovery >= 1
  /\ Residue(Recovery) = 0
<1> DEFINE d == CobsMax - FrameMax
           n == RingSize - CobsMax + CobsMax - FrameMax - 1
           q == n \div d
<1>1. /\ d \in Nat /\ d > 0 /\ n \in Nat /\ RingSize - CobsMax - d \in Int
      /\ n = RingSize - CobsMax + d - 1
  BY RxAssumption
<1>2. Recovery = 1 + q
  BY DEF Recovery
<1>3. Residue(Recovery) = IF RingSize - CobsMax - (Recovery - 1) * d < 0 THEN 0
                          ELSE RingSize - CobsMax - (Recovery - 1) * d
  BY DEF Residue
<1> HIDE DEF d, n
<1>4. q \in Int /\ q * d <= n /\ n < q * d + d
  BY <1>1, Quotient
<1>5. q \in Nat
  <2>1. CASE q < 0
    <3>1. (q + 1) * d <= 0
      BY <1>1, <1>4, <2>1
    <3>2. (q + 1) * d = q * d + d
      BY <1>1, <1>4
    <3>3. QED  BY <1>1, <1>4, <3>1, <3>2
  <2>2. QED  BY <1>4, <2>1
<1> HIDE DEF q
<1>6. Recovery - 1 = q
  BY <1>2, <1>5
<1>7. q * d \in Int /\ RingSize - CobsMax \in Int
  BY <1>1, <1>5, RxAssumption
<1>8. RingSize - CobsMax - (Recovery - 1) * d <= 0
  BY <1>1, <1>4, <1>6, <1>7
<1>9. QED
  BY <1>2, <1>3, <1>5, <1>6, <1>7, <1>8

\* One more unhurt frame takes CobsMax bytes where it brings FrameMax at most.
LEMMA ResidueStep ==
  ASSUME NEW k \in Nat, k >= 1
  PROVE  /\ Residue(k) \in Nat /\ Residue(k + 1) \in Nat
         /\ Residue(k) - (CobsMax - FrameMax) <= Residue(k + 1)
<1> DEFINE d == CobsMax - FrameMax
           r == RingSize - CobsMax
           m == (k - 1) * d
<1>1. d \in Nat /\ r \in Nat /\ m \in Int
  BY RxAssumption
<1>2. (k + 1 - 1) * d = m + d
  BY <1>1
<1>3. /\ Residue(k) = IF r - m < 0 THEN 0 ELSE r - m
      /\ Residue(k + 1) = IF r - (k + 1 - 1) * d < 0 THEN 0 ELSE r - (k + 1 - 1) * d
  BY DEF Residue
<1> HIDE DEF d, r, m
<1>4. QED
  BY <1>1, <1>2, <1>3 DEF d

LEMMA ResidueFirst == Residue(1) = RingSize - CobsMax
<1>1. (1 - 1) * (CobsMax - FrameMax) = 0 /\ RingSize - CobsMax \in Nat
  BY RxAssumption
<1>2. QED  BY <1>1 DEF Residue
-----------------------------------------------------------------------------
(* What a byte does to the ring and to the queue *)

\* Bytes are triples.
LEMMA Triple ==
  ASSUME NEW b \in Bytes
  PROVE  /\ b = <<b[1], b[2], b[3]>>
         /\ b[1] \in 0 .. MaxFrames /\ b[2] \in Nat /\ b[3] \in Nat
         /\ First(b) => b[1] \in 1 .. MaxFrames
BY RxAssumption DEF Bytes, Junk, First

\* The next byte of the frame, when it is not the delimiter.
LEMMA NextByteIs ==
  ASSUME TypeOK, LineInv, OnLine, pos # size
  PROVE  /\ NextByte \in Bytes /\ NextByte # Delimiter
         /\ NextByte = <<sent, pos + 1, size>> /\ pos < size
         /\ First(NextByte) <=> pos = 0
<1>1. /\ sent \in 1 .. MaxFrames /\ pos + 1 \in 1 .. FrameMax /\ size \in 1 .. FrameMax
      /\ pos \in Nat /\ pos < size
  BY RxAssumption DEF TypeOK, LineInv, OnLine
<1>2. NextByte = <<sent, pos + 1, size>>
  BY DEF NextByte
<1>3. NextByte \in Bytes
  BY <1>1, <1>2 DEF Bytes
<1>4. NextByte # Delimiter
  BY <1>1, <1>2 DEF Delimiter
<1>5. First(NextByte) <=> pos = 0
  BY <1>1, <1>2 DEF First
<1>6. QED  BY <1>1, <1>2, <1>3, <1>4, <1>5

LEMMA StoreRing ==
  ASSUME TypeOK, NEW b \in Bytes, Store(b)
  PROVE  /\ ring' \in Seq(Bytes) /\ Len(ring') <= RingSize
         /\ Len(ring) <= Len(ring') /\ Len(ring') <= Len(ring) + 1
         /\ Len(ring) < RingSize => Len(ring') = Len(ring) + 1
         /\ \A i \in DOMAIN ring' : \/ i \in DOMAIN ring /\ ring'[i] = ring[i]
                                    \/ i = Len(ring) + 1 /\ ring'[i] = b
         /\ \A i \in DOMAIN ring : i \in DOMAIN ring' /\ ring'[i] = ring[i]
         /\ UNCHANGED queue
<1>1. ring \in Seq(Bytes) /\ Len(ring) \in Nat /\ Len(ring) <= RingSize /\ RingSize \in Nat
      /\ DOMAIN ring = 1 .. Len(ring)
  BY LenProperties, RxAssumption DEF TypeOK
<1>2. CASE Len(ring) < RingSize
  <2>1. ring' = Append(ring, b)
    BY <1>2 DEF Store
  <2>2. /\ Append(ring, b) \in Seq(Bytes) /\ Len(Append(ring, b)) = Len(ring) + 1
        /\ \A i \in 1 .. Len(ring) : Append(ring, b)[i] = ring[i]
        /\ Append(ring, b)[Len(ring) + 1] = b
    BY <1>1, AppendProperties
  <2>3. DOMAIN ring' = 1 .. Len(ring) + 1
    BY <2>1, <2>2, LenProperties
  <2>4. QED  BY <1>1, <1>2, <2>1, <2>2, <2>3 DEF Store
<1>3. CASE ~(Len(ring) < RingSize)
  <2>1. ring' = ring /\ UNCHANGED queue
    BY <1>3 DEF Store
  <2>2. /\ ring' \in Seq(Bytes) /\ Len(ring') <= RingSize
        /\ \A i \in DOMAIN ring' : i \in DOMAIN ring /\ ring'[i] = ring[i]
        /\ \A i \in DOMAIN ring : i \in DOMAIN ring' /\ ring'[i] = ring[i]
    BY <1>1, <2>1
  <2>3. Len(ring) <= Len(ring') /\ Len(ring') <= Len(ring) + 1
    BY <1>1, <2>1
  <2>4. QED  BY <1>3, <2>1, <2>2, <2>3
<1>4. QED  BY <1>2, <1>3

\* What a delimiter takes out.
Taken == Least(Len(ring), CobsMax)

LEMMA DecodeIs ==
  ASSUME NEW bytes \in Seq(Bytes), bytes # <<>>, NEW m \in Decode(bytes), m # None
  PROVE  m = Bad \/ (First(bytes[1]) /\ m = bytes[1][1])
<1>1. Len(bytes) \in Nat \ {0} /\ bytes[1] \in Bytes
  BY EmptySeq, LenProperties, ElementOfSeq
<1>2. m = IF FrameAt(bytes, 1) THEN bytes[1][1] ELSE Bad
  BY DEF Decode
<1>3. ASSUME FrameAt(bytes, 1) PROVE First(bytes[1])
  <2> DEFINE n == bytes[1][3]
  <2>1. n \in Nat /\ n > 0 /\ \A i \in 1 .. n : bytes[1 + i - 1] = <<bytes[1][1], i, n>>
    BY <1>1, <1>3, Triple, ZenonT(30) DEF FrameAt
  <2>2. bytes[1] = <<bytes[1][1], 1, n>>
    BY <2>1
  <2>3. QED  BY <2>1, <2>2 DEF First
<1>4. QED  BY <1>2, <1>3

LEMMA TakenRing ==
  ASSUME TypeOK, EndOfFrame
  PROVE  /\ Len(ring) \in Nat /\ Taken \in 0 .. Len(ring)
         /\ Taken = 0 <=> Len(ring) = 0
         /\ Len(ring) <= CobsMax => Taken = Len(ring)
         /\ Len(ring) > CobsMax => Taken = CobsMax
         /\ ring' \in Seq(Bytes) /\ Len(ring') = Len(ring) - Taken
         /\ DOMAIN ring' = 1 .. Len(ring) - Taken
         /\ \A i \in DOMAIN ring' : i + Taken \in DOMAIN ring /\ ring'[i] = ring[i + Taken]
<1>1. ring \in Seq(Bytes)
  BY DEF TypeOK
<1>2. Len(ring) \in Nat /\ DOMAIN ring = 1 .. Len(ring)
  BY <1>1, LenProperties
<1>3. CobsMax \in Nat \ {0}
  BY RxAssumption
<1>4. /\ Taken \in 0 .. Len(ring)
      /\ Taken = 0 <=> Len(ring) = 0
      /\ Len(ring) <= CobsMax => Taken = Len(ring)
      /\ Len(ring) > CobsMax => Taken = CobsMax
  BY <1>2, <1>3, LeastIs DEF Taken
<1>5. Taken \in 0 .. Len(ring)
  BY <1>4
<1>6. Taken + 1 \in Int /\ Taken \in Nat /\ Taken <= Len(ring)
  BY <1>2, <1>5
<1>7. \A i \in Taken + 1 .. Len(ring) : ring[i] \in Bytes
  <2>1. \A i \in Taken + 1 .. Len(ring) : i \in 1 .. Len(ring)
    BY <1>2, <1>6
  <2>2. QED  BY <1>1, <2>1, ElementOfSeq
<1>8. ring' = SubSeq(ring, Taken + 1, Len(ring))
  BY DEF EndOfFrame, Taken
<1>9. /\ ring' \in Seq(Bytes)
      /\ Len(ring') = IF Taken + 1 <= Len(ring) THEN Len(ring) - (Taken + 1) + 1 ELSE 0
      /\ \A i \in 1 .. Len(ring) - (Taken + 1) + 1 : ring'[i] = ring[Taken + 1 + i - 1]
  BY <1>2, <1>6, <1>7, <1>8, SubSeqProperties
<1>10. Len(ring') = Len(ring) - Taken
  <2>1. Len(ring') = IF Taken + 1 <= Len(ring) THEN Len(ring) - (Taken + 1) + 1 ELSE 0
    BY <1>9
  <2>2. (IF Taken + 1 <= Len(ring) THEN Len(ring) - (Taken + 1) + 1 ELSE 0) = Len(ring) - Taken
    BY <1>2, <1>6, RestLength
  <2>3. QED  BY <2>1, <2>2
<1>11. DOMAIN ring' = 1 .. Len(ring) - Taken
  BY <1>9, <1>10, LenProperties
<1>12. \A i \in 1 .. Len(ring) - Taken : ring'[i] = ring[i + Taken]
  <2>1. \A i \in 1 .. Len(ring) - Taken :
          i \in 1 .. Len(ring) - (Taken + 1) + 1 /\ Taken + 1 + i - 1 = i + Taken
    BY <1>2, <1>6
  <2>2. QED  BY <1>9, <2>1
<1>13. \A i \in 1 .. Len(ring) - Taken : i + Taken \in 1 .. Len(ring)
  BY <1>2, <1>6
<1>14. QED  BY <1>2, <1>4, <1>9, <1>10, <1>11, <1>12, <1>13

\* The message a delimiter leads to, if any: the frame at the head of the ring.
LEMMA TakenQueue ==
  ASSUME TypeOK, EndOfFrame
  PROVE  \/ UNCHANGED queue
         \/ /\ Taken > 0
            /\ \E m \in 0 .. MaxFrames :
                 /\ Enqueue(m)
                 /\ m = Bad \/ (1 \in DOMAIN ring /\ First(ring[1]) /\ m = ring[1][1])
<1> DEFINE chunk == SubSeq(ring, 1, Taken)
<1>1. ring \in Seq(Bytes) /\ Taken \in 0 .. Len(ring) /\ Len(ring) \in Nat
      /\ DOMAIN ring = 1 .. Len(ring)
  BY TakenRing, LenProperties DEF TypeOK
<1>2. CASE Taken = 0
  BY <1>2 DEF EndOfFrame, Taken
<1>3. CASE Taken # 0
  <2>1. /\ chunk \in Seq(Bytes) /\ Len(chunk) = Taken /\ chunk[1] = ring[1]
    <3>1. \A i \in 1 .. Taken : ring[i] \in Bytes
      BY <1>1
    <3>2. /\ chunk \in Seq(Bytes)
          /\ Len(chunk) = IF 1 <= Taken THEN Taken - 1 + 1 ELSE 0
          /\ \A i \in 1 .. Taken - 1 + 1 : chunk[i] = ring[1 + i - 1]
      BY <1>1, <3>1, SubSeqProperties
    <3>3. chunk[1] = ring[1]
      BY <1>1, <1>3 DEF chunk
    <3>4. QED  BY <1>1, <1>3, <3>2, <3>3
  <2>2. chunk # <<>> /\ ring[1] \in Bytes /\ 1 \in DOMAIN ring
    BY <1>1, <1>3, <2>1, EmptySeq
  <2>3. \/ UNCHANGED queue
        \/ \E m \in Decode(chunk) : m # None /\ Enqueue(m)
    BY <1>3 DEF EndOfFrame, Taken
  <2> HIDE DEF chunk
  <2>4. ASSUME NEW m \in Decode(chunk), m # None, Enqueue(m)
        PROVE  /\ m \in 0 .. MaxFrames
               /\ m = Bad \/ (1 \in DOMAIN ring /\ First(ring[1]) /\ m = ring[1][1])
    <3>1. m = Bad \/ (First(ring[1]) /\ m = ring[1][1])
      BY <2>1, <2>2, <2>4, DecodeIs
    <3>2. ring[1][1] \in 0 .. MaxFrames /\ Bad \in 0 .. MaxFrames
      BY <2>2, Triple, RxAssumption DEF Bad
    <3>3. QED  BY <2>2, <3>1, <3>2
  <2>5. Taken > 0
    BY <1>1, <1>3
  <2>6. QED  BY <2>3, <2>4, <2>5
<1>4. QED  BY <1>2, <1>3

LEMMA EnqueueQueue ==
  ASSUME TypeOK, NEW m \in 0 .. MaxFrames, Enqueue(m)
  PROVE  /\ msgq' \in Seq(0 .. MaxFrames) /\ Len(msgq') <= QueueDepth
         /\ rxWork' \in BOOLEAN
         /\ UNCHANGED queue \/ rxWork'
         /\ \A i \in DOMAIN msgq : i \in DOMAIN msgq' /\ msgq'[i] = msgq[i]
         /\ \A i \in DOMAIN msgq' : \/ i \in DOMAIN msgq /\ msgq'[i] = msgq[i]
                                    \/ i = Len(msgq) + 1 /\ msgq'[i] = m
         /\ DOMAIN msgq = 1 .. Len(msgq) /\ Len(msgq) \in Nat
         /\ Len(msgq) < QueueDepth => /\ Len(msgq) + 1 \in DOMAIN msgq'
                                      /\ msgq'[Len(msgq) + 1] = m
<1>1. msgq \in Seq(0 .. MaxFrames) /\ Len(msgq) \in Nat /\ Len(msgq) <= QueueDepth
      /\ DOMAIN msgq = 1 .. Len(msgq) /\ QueueDepth \in Nat
  BY LenProperties, RxAssumption DEF TypeOK
<1>2. CASE Len(msgq) < QueueDepth
  <2>1. msgq' = Append(msgq, m) /\ rxWork' = TRUE
    BY <1>2 DEF Enqueue
  <2>2. /\ Append(msgq, m) \in Seq(0 .. MaxFrames)
        /\ Len(Append(msgq, m)) = Len(msgq) + 1
        /\ \A i \in 1 .. Len(msgq) : Append(msgq, m)[i] = msgq[i]
        /\ Append(msgq, m)[Len(msgq) + 1] = m
    BY <1>1, AppendProperties
  <2>3. DOMAIN msgq' = 1 .. Len(msgq) + 1
    BY <2>1, <2>2, LenProperties
  <2>4. QED  BY <1>1, <1>2, <2>1, <2>2, <2>3
<1>3. CASE ~(Len(msgq) < QueueDepth)
  BY <1>1, <1>3 DEF Enqueue, queue, TypeOK
<1>4. QED  BY <1>2, <1>3

\* A message a delimiter may add to the queue.
Leads(m) == m = Bad \/ (1 \in DOMAIN ring /\ First(ring[1]) /\ m = ring[1][1])

LEMMA QueueGrows ==
  ASSUME TypeOK, EndOfFrame
  PROVE  /\ msgq' \in Seq(0 .. MaxFrames) /\ Len(msgq') <= QueueDepth
         /\ rxWork' \in BOOLEAN
         /\ UNCHANGED queue \/ (rxWork' /\ Taken > 0)
         /\ \A i \in DOMAIN msgq : i \in DOMAIN msgq' /\ msgq'[i] = msgq[i]
         /\ \A i \in DOMAIN msgq' :
              \/ i \in DOMAIN msgq /\ msgq'[i] = msgq[i]
              \/ i = Len(msgq) + 1 /\ Taken > 0 /\ Leads(msgq'[i])
<1>1. CASE UNCHANGED queue
  BY <1>1 DEF queue, TypeOK
<1>2. ASSUME Taken > 0, NEW m \in 0 .. MaxFrames, Enqueue(m), Leads(m)
      PROVE  /\ msgq' \in Seq(0 .. MaxFrames) /\ Len(msgq') <= QueueDepth
             /\ rxWork' \in BOOLEAN
             /\ UNCHANGED queue \/ (rxWork' /\ Taken > 0)
             /\ \A i \in DOMAIN msgq : i \in DOMAIN msgq' /\ msgq'[i] = msgq[i]
             /\ \A i \in DOMAIN msgq' :
                  \/ i \in DOMAIN msgq /\ msgq'[i] = msgq[i]
                  \/ i = Len(msgq) + 1 /\ Taken > 0 /\ Leads(msgq'[i])
  <2>1. /\ \A i \in DOMAIN msgq : i \in DOMAIN msgq' /\ msgq'[i] = msgq[i]
        /\ \A i \in DOMAIN msgq' : \/ i \in DOMAIN msgq /\ msgq'[i] = msgq[i]
                                   \/ i = Len(msgq) + 1 /\ msgq'[i] = m
    BY <1>2, EnqueueQueue
  <2>2. /\ msgq' \in Seq(0 .. MaxFrames) /\ Len(msgq') <= QueueDepth
        /\ rxWork' \in BOOLEAN
        /\ UNCHANGED queue \/ rxWork'
    BY <1>2, EnqueueQueue
  <2>3. QED  BY <1>2, <2>1, <2>2
<1>3. QED
  BY <1>1, <1>2, TakenQueue DEF Leads

\* A byte that arrives, unhurt or not, is stored or ends a frame.
LEMMA Arrival ==
  ASSUME TypeOK, LineInv, ByteArrives \/ ByteDamaged
  PROVE  /\ OnLine /\ pos' = pos + 1 /\ UNCHANGED <<sent, size, thread>>
         /\ \/ EndOfFrame
            \/ \E b \in Bytes : Store(b) /\ (First(b) => pos = 0 /\ b[1] = sent)
<1>1. OnLine /\ pos' = pos + 1 /\ UNCHANGED <<sent, size, thread>>
  BY DEF ByteArrives, ByteDamaged, Fault
<1>2. Junk \in Bytes /\ ~First(Junk) /\ Junk # Delimiter
  BY DEF Junk, Bytes, First, Delimiter
<1>3. CASE ByteArrives
  <2>1. CASE pos = size
    BY <1>3, <2>1 DEF ByteArrives, Receive, NextByte
  <2>2. CASE pos # size
    <3>1. /\ NextByte \in Bytes /\ NextByte # Delimiter
          /\ NextByte = <<sent, pos + 1, size>>
          /\ First(NextByte) <=> pos = 0
      BY <1>1, <2>2, NextByteIs
    <3>2. Store(NextByte)
      BY <1>3, <3>1 DEF ByteArrives, Receive
    <3>3. NextByte[1] = sent
      BY <3>1
    <3>4. QED  BY <1>1, <3>1, <3>2, <3>3
  <2>3. QED  BY <2>1, <2>2
<1>4. CASE ByteDamaged
  <2>1. Receive(Junk) \/ Receive(Delimiter)
    BY <1>4 DEF ByteDamaged
  <2>2. Store(Junk) \/ EndOfFrame
    BY <1>2, <2>1 DEF Receive
  <2>3. QED  BY <1>1, <1>2, <2>2
<1>5. QED  BY <1>3, <1>4

\* What a message leaves when it is taken from the queue.
LEMMA GetQueue ==
  ASSUME TypeOK, GetMessage
  PROVE  /\ msg' \in 0 .. MaxFrames /\ 1 \in DOMAIN msgq /\ msg' = msgq[1]
         /\ msgq' \in Seq(0 .. MaxFrames) /\ Len(msgq') <= QueueDepth
         /\ \A i \in DOMAIN msgq' : i + 1 \in DOMAIN msgq /\ msgq'[i] = msgq[i + 1]
         /\ \A i \in DOMAIN msgq : i # 1 => i - 1 \in DOMAIN msgq' /\ msgq'[i - 1] = msgq[i]
<1>1. msgq \in Seq(0 .. MaxFrames) /\ msgq # <<>>
  BY DEF TypeOK, GetMessage
<1>2. Len(msgq) \in Nat \ {0} /\ DOMAIN msgq = 1 .. Len(msgq) /\ Len(msgq) <= QueueDepth
  BY <1>1, EmptySeq, LenProperties DEF TypeOK
<1>3. msg' = Head(msgq) /\ msgq' = Tail(msgq)
  BY DEF GetMessage
<1>4. /\ msgq' \in Seq(0 .. MaxFrames)
      /\ Len(msgq') = Len(msgq) - 1
      /\ \A i \in 1 .. Len(msgq') : msgq'[i] = msgq[i + 1]
  <2>1. Tail(msgq) \in Seq(0 .. MaxFrames) /\ Len(Tail(msgq)) = Len(msgq) - 1
    BY <1>1, HeadTailProperties
  <2>2. \A i \in 1 .. Len(Tail(msgq)) : Tail(msgq)[i] = msgq[i + 1]
    BY <1>1, HeadTailProperties
  <2>3. QED  BY <1>3, <2>1, <2>2
<1>5. DOMAIN msgq' = 1 .. Len(msgq) - 1
  BY <1>4, LenProperties
<1>6. msg' = msgq[1] /\ msg' \in 0 .. MaxFrames
  <2>1. Head(msgq) = msgq[1]
    BY <1>1
  <2>2. Head(msgq) \in 0 .. MaxFrames
    BY <1>1, HeadTailProperties
  <2>3. QED  BY <1>3, <2>1, <2>2
<1>7. Len(msgq') <= QueueDepth
  BY <1>2, <1>4, RxAssumption
<1>8. \A i \in 1 .. Len(msgq) - 1 : i + 1 \in 1 .. Len(msgq) /\ msgq'[i] = msgq[i + 1]
  BY <1>2, <1>4
<1>9. \A i \in 1 .. Len(msgq) : i # 1 => i - 1 \in 1 .. Len(msgq) - 1 /\ (i - 1) + 1 = i
  BY <1>2
<1>10. \A i \in 1 .. Len(msgq) : i # 1 => msgq'[i - 1] = msgq[i]
  BY <1>8, <1>9
<1>11. 1 \in 1 .. Len(msgq)
  BY <1>2
<1>12. QED  BY <1>2, <1>4, <1>5, <1>6, <1>7, <1>8, <1>9, <1>10, <1>11
-----------------------------------------------------------------------------
LEMMA InitIInv == Init => IInv
<1> SUFFICES ASSUME Init PROVE IInv
  OBVIOUS
<1>1. ring = <<>> /\ msgq = <<>> /\ ring \in Seq(Bytes) /\ msgq \in Seq(0 .. MaxFrames)
      /\ Len(ring) = 0 /\ Len(msgq) = 0 /\ DOMAIN ring = {} /\ DOMAIN msgq = {}
  BY EmptySeq DEF Init
<1>2. TypeOK
  <2>1. /\ 0 \in 0 .. MaxFrames /\ 0 \in 0 .. FrameMax /\ 0 \in 0 .. (FrameMax + 1)
        /\ 0 \in 0 .. MaxFaults /\ 0 <= RingSize /\ 0 <= QueueDepth
        /\ Recovery \in 0 .. Recovery
    BY RxAssumption, RecoveryIs
  <2>2. QED  BY <1>1, <2>1 DEF Init, TypeOK, Bad
<1>3. LineInv /\ ~OnLine
  BY RxAssumption DEF Init, LineInv, OnLine
<1>4. NoLostWakeup
  BY <1>1 DEF NoLostWakeup
<1>5. ResidueShrinks
  BY <1>1, <1>2, <1>3, RecoveryIs DEF Init, ResidueShrinks
<1>6. AlignInv
  BY <1>3 DEF AlignInv
<1>7. InSync
  BY DEF Init, InSync
<1>8. RingInv
  BY <1>1 DEF RingInv
<1>9. QueueInv
  BY <1>1 DEF Init, QueueInv, Passed, Bad
<1>10. QED
  BY <1>2, <1>3, <1>4, <1>5, <1>6, <1>7, <1>8, <1>9 DEF IInv

LEMMA TypeStep ==
  ASSUME TypeOK, LineInv, [Next]_vars
  PROVE  TypeOK'
<1>0. /\ Recovery \in Nat /\ Recovery >= 1 /\ FrameMax \in Nat /\ MaxFrames \in Nat
      /\ MaxFaults \in Nat
  BY RecoveryIs, RxAssumption
<1>1. CASE SendFrame
  <2>1. sent' \in 0 .. MaxFrames /\ size' \in 0 .. FrameMax /\ pos' \in 0 .. (FrameMax + 1)
    BY <1>0, <1>1 DEF SendFrame, TypeOK
  <2>2. QED  BY <1>1, <2>1 DEF SendFrame, TypeOK, queue, thread
<1>2. ASSUME OnLine PROVE pos + 1 \in 0 .. FrameMax + 1 /\ sent \in 1 .. MaxFrames
  BY <1>0, <1>2 DEF OnLine, TypeOK
<1>3. ASSUME EndOfFrame \/ \E b \in Bytes : Store(b)
      PROVE  /\ ring' \in Seq(Bytes) /\ Len(ring') <= RingSize
             /\ msgq' \in Seq(0 .. MaxFrames) /\ Len(msgq') <= QueueDepth
             /\ rxWork' \in BOOLEAN
  <2>1. CASE EndOfFrame
    <3>1. Len(ring) \in Nat /\ Taken \in 0 .. Len(ring) /\ Len(ring') = Len(ring) - Taken
      BY <2>1, TakenRing
    <3>2. Len(ring') <= RingSize
      BY <3>1, RxAssumption DEF TypeOK
    <3>3. QED  BY <2>1, <3>2, TakenRing, QueueGrows
  <2>2. ASSUME NEW b \in Bytes, Store(b)
        PROVE  ring' \in Seq(Bytes) /\ Len(ring') <= RingSize /\ UNCHANGED queue
    BY <2>2, StoreRing
  <2>3. QED  BY <1>3, <2>1, <2>2 DEF TypeOK, queue
<1>4. CASE ByteArrives
  <2>1. /\ OnLine /\ pos' = pos + 1 /\ UNCHANGED <<sent, size, thread, faults, hurt>>
        /\ EndOfFrame \/ \E b \in Bytes : Store(b)
    BY <1>4, Arrival DEF ByteArrives
  <2>2. clean' \in 0 .. Recovery /\ due' \in SUBSET (1 .. MaxFrames)
    <3>1. CASE pos = size /\ ~hurt
      <4>1. clean' = Least(clean + 1, Recovery) /\ due' \in {due, due \cup {sent}}
        BY <1>4, <3>1 DEF ByteArrives, Account
      <4>2. Least(clean + 1, Recovery) \in 0 .. Recovery
        BY <1>0 DEF Least, TypeOK
      <4>3. QED  BY <1>2, <2>1, <4>1, <4>2 DEF TypeOK
    <3>2. CASE ~(pos = size /\ ~hurt)
      BY <1>4, <3>2 DEF ByteArrives, Account, TypeOK
    <3>3. QED  BY <3>1, <3>2
  <2>3. QED  BY <1>2, <1>3, <2>1, <2>2 DEF TypeOK, thread
<1>5. ASSUME Fault
      PROVE  /\ OnLine /\ pos' = pos + 1 /\ UNCHANGED <<sent, size, thread, due>>
             /\ faults' \in 0 .. MaxFaults /\ hurt' \in BOOLEAN /\ clean' \in 0 .. Recovery
  BY <1>0, <1>5 DEF Fault, TypeOK
<1>6. CASE ByteLost
  BY <1>2, <1>5, <1>6 DEF ByteLost, TypeOK, queue, thread
<1>7. CASE ByteDamaged
  <2>1. Fault /\ (EndOfFrame \/ \E b \in Bytes : Store(b))
    BY <1>7, Arrival DEF ByteDamaged
  <2>2. QED  BY <1>2, <1>3, <1>5, <2>1 DEF TypeOK, thread
<1>8. CASE RunWork
  BY <1>8 DEF RunWork, TypeOK, line
<1>9. CASE GetMessage
  <2>1. msg' \in 0 .. MaxFrames /\ msgq' \in Seq(0 .. MaxFrames) /\ Len(msgq') <= QueueDepth
    BY <1>9, GetQueue
  <2>2. QED  BY <1>9, <2>1 DEF GetMessage, TypeOK, line
<1>10. CASE QueueEmpty
  BY <1>10 DEF QueueEmpty, TypeOK, line, queue
<1>11. CASE Dispatch
  <2>1. /\ pc' = "get" /\ msg' = Bad /\ last' \in {last, msg} /\ turn' \in BOOLEAN
        /\ due' \in SUBSET (1 .. MaxFrames)
    BY <1>11 DEF Dispatch, TypeOK
  <2>2. QED  BY <1>0, <1>11, <2>1 DEF Dispatch, TypeOK, line, queue, Bad
<1>12. CASE UNCHANGED vars
  BY <1>12 DEF vars, TypeOK
<1>13. QED
  BY <1>1, <1>4, <1>6, <1>7, <1>8, <1>9, <1>10, <1>11, <1>12 DEF Next, Thread

LEMMA LineStep ==
  ASSUME TypeOK, LineInv, [Next]_vars
  PROVE  LineInv'
<1>0. /\ Recovery \in Nat /\ FrameMax \in Nat
      /\ sent \in Nat /\ pos \in Nat /\ size \in Nat
  BY RecoveryIs, RxAssumption DEF TypeOK
<1>1. CASE SendFrame
  <2>1. PICK n \in 1 .. FrameMax : size' = n
    BY <1>1 DEF SendFrame
  <2>2. sent' = sent + 1 /\ pos' = 0 /\ ~hurt'
    BY <1>1 DEF SendFrame
  <2>3. n >= 1 /\ 0 <= n + 1
    BY <1>0
  <2>4. QED  BY <1>0, <2>1, <2>2, <2>3 DEF LineInv
<1>2. CASE ByteArrives
  <2>1. hurt => clean' = clean
    BY <1>2 DEF ByteArrives, Account
  <2>2. QED  BY <1>0, <1>2, <2>1 DEF ByteArrives, LineInv, OnLine
<1>3. CASE Fault
  BY <1>0, <1>3 DEF Fault, LineInv, OnLine
<1>4. CASE Thread
  BY <1>4 DEF Thread, RunWork, GetMessage, QueueEmpty, Dispatch, LineInv, line
<1>5. CASE UNCHANGED vars
  BY <1>5 DEF vars, LineInv
<1>6. QED
  BY <1>1, <1>2, <1>3, <1>4, <1>5 DEF Next, ByteLost, ByteDamaged

LEMMA WakeupStep ==
  ASSUME TypeOK, LineInv, NoLostWakeup, [Next]_vars
  PROVE  NoLostWakeup'
<1>1. CASE SendFrame
  BY <1>1 DEF SendFrame, NoLostWakeup, queue, thread
<1>2. CASE ByteArrives \/ ByteDamaged
  <2>1. pc' = pc
    BY <1>2, Arrival DEF thread
  <2>2. UNCHANGED queue \/ rxWork'
    BY <1>2, Arrival, QueueGrows, StoreRing
  <2>3. QED  BY <2>1, <2>2 DEF NoLostWakeup, queue
<1>3. CASE ByteLost
  BY <1>3 DEF ByteLost, Fault, NoLostWakeup, queue, thread
<1>4. CASE RunWork
  BY <1>4 DEF RunWork, NoLostWakeup
<1>5. CASE GetMessage
  BY <1>5 DEF GetMessage, NoLostWakeup
<1>6. CASE QueueEmpty
  BY <1>6 DEF QueueEmpty, NoLostWakeup, queue
<1>7. CASE Dispatch
  BY <1>7 DEF Dispatch, NoLostWakeup, queue
<1>8. CASE UNCHANGED vars
  BY <1>8 DEF vars, NoLostWakeup
<1>9. QED
  BY <1>1, <1>2, <1>3, <1>4, <1>5, <1>6, <1>7, <1>8 DEF Next, Thread
-----------------------------------------------------------------------------
(* Order *)

\* What each step adds to the frames that have left the ring.
LEMMA PassedStep ==
  ASSUME TypeOK, LineInv, [Next]_vars, NEW f \in 0 .. MaxFrames, Passed(f)'
  PROVE  Passed(f) \/ f = Bad \/ (EndOfFrame /\ Taken > 0 /\ Leads(f))
<1>1. CASE SendFrame
  BY <1>1 DEF SendFrame, Passed, queue, thread
<1>2. CASE ByteArrives \/ ByteDamaged
  <2>1. msg' = msg /\ last' = last
    BY <1>2, Arrival DEF thread
  <2>2. CASE EndOfFrame
    <3>1. \A i \in DOMAIN msgq' :
            \/ i \in DOMAIN msgq /\ msgq'[i] = msgq[i]
            \/ Taken > 0 /\ Leads(msgq'[i])
      BY <2>2, QueueGrows
    <3>2. QED  BY <2>1, <2>2, <3>1 DEF Passed
  <2>3. ASSUME NEW b \in Bytes, Store(b) PROVE Passed(f)
    BY <2>1, <2>3, StoreRing DEF Passed, queue
  <2>4. QED  BY <1>2, <2>2, <2>3, Arrival
<1>3. CASE ByteLost
  BY <1>3 DEF ByteLost, Fault, Passed, queue, thread
<1>4. CASE RunWork
  BY <1>4 DEF RunWork, Passed
<1>5. CASE GetMessage
  <2>1. /\ msg' = msgq[1] /\ 1 \in DOMAIN msgq /\ last' = last
        /\ \A i \in DOMAIN msgq' : i + 1 \in DOMAIN msgq /\ msgq'[i] = msgq[i + 1]
    BY <1>5, GetQueue DEF GetMessage
  <2>2. QED  BY <2>1 DEF Passed
<1>6. CASE QueueEmpty
  BY <1>6 DEF QueueEmpty, Passed, queue
<1>7. CASE Dispatch
  BY <1>7 DEF Dispatch, Passed, queue
<1>8. CASE UNCHANGED vars
  BY <1>8 DEF vars, Passed
<1>9. QED
  BY <1>1, <1>2, <1>3, <1>4, <1>5, <1>6, <1>7, <1>8 DEF Next, Thread

\* Arrived(f) in the next state, of a number of this one.
WillHave(f) == f < sent' \/ (f = sent' /\ pos' > 0)

\* A frame that has arrived stays so.
LEMMA ArrivedStep ==
  ASSUME TypeOK, LineInv, [Next]_vars, NEW f \in Nat, Arrived(f)
  PROVE  WillHave(f)
<1>0. sent \in Nat /\ pos \in Nat
  BY RxAssumption DEF TypeOK
<1>1. CASE SendFrame
  BY <1>0, <1>1 DEF SendFrame, Arrived, WillHave
<1>2. CASE ByteArrives \/ Fault
  BY <1>0, <1>2 DEF ByteArrives, Fault, Arrived, WillHave
<1>3. CASE Thread
  BY <1>3 DEF Thread, RunWork, GetMessage, QueueEmpty, Dispatch, Arrived, WillHave, line
<1>4. CASE UNCHANGED vars
  BY <1>4 DEF vars, Arrived, WillHave
<1>5. QED
  BY <1>1, <1>2, <1>3, <1>4 DEF Next, ByteLost, ByteDamaged

\* The bytes of the ring, and the frames some of them begin.
LEMMA RingBytes ==
  ASSUME TypeOK, NEW i \in DOMAIN ring
  PROVE  /\ i \in Nat /\ i >= 1 /\ ring[i] \in Bytes /\ ring[i][1] \in 0 .. MaxFrames
         /\ First(ring[i]) => ring[i][1] \in 1 .. MaxFrames
<1>1. ring \in Seq(Bytes) /\ i \in 1 .. Len(ring) /\ Len(ring) \in Nat
  BY LenProperties DEF TypeOK
<1>2. ring[i] \in Bytes
  BY <1>1, ElementOfSeq
<1>3. QED  BY <1>1, <1>2, Triple

LEMMA RingStep ==
  ASSUME TypeOK, LineInv, RingInv, QueueInv, [Next]_vars
  PROVE  RingInv'
<1>1. ASSUME UNCHANGED ring, \A f \in 0 .. MaxFrames : Passed(f)' => Passed(f) \/ f = Bad
      PROVE  RingInv'
  <2>1. ASSUME NEW i \in DOMAIN ring, First(ring[i])
        PROVE  WillHave(ring[i][1]) /\ \A f \in 0 .. MaxFrames : Passed(f)' => f < ring[i][1]
    <3>1. ring[i][1] \in 1 .. MaxFrames /\ ring[i][1] \in Nat
      BY <2>1, RingBytes
    <3>2. WillHave(ring[i][1])
      BY <2>1, <3>1, ArrivedStep DEF RingInv
    <3>3. \A f \in 0 .. MaxFrames : Passed(f)' => f < ring[i][1]
      BY <1>1, <2>1, <3>1 DEF RingInv, Bad
    <3>4. QED  BY <3>2, <3>3
  <2>2. QED  BY <1>1, <2>1 DEF RingInv, Arrived, WillHave
<1>2. CASE ByteArrives \/ ByteDamaged
  <2>1. CASE EndOfFrame
    <3>1. \A i \in DOMAIN ring' : i + Taken \in DOMAIN ring /\ ring'[i] = ring[i + Taken]
      BY <2>1, TakenRing
    <3>2. Taken \in Nat /\ DOMAIN ring \subseteq Nat /\ DOMAIN ring' \subseteq Nat \ {0}
      BY <2>1, TakenRing, RingBytes
    <3>3. ASSUME NEW i \in DOMAIN ring', First(ring'[i])
          PROVE  WillHave(ring'[i][1]) /\ \A f \in 0 .. MaxFrames : Passed(f)' => f < ring'[i][1]
      <4>1. /\ i + Taken \in DOMAIN ring /\ ring'[i] = ring[i + Taken] /\ i \in Nat /\ i >= 1
            /\ First(ring[i + Taken])
        BY <3>1, <3>2, <3>3
      <4>2. ring[i + Taken][1] \in 1 .. MaxFrames /\ ring[i + Taken][1] \in Nat
        BY <4>1, RingBytes
      <4>3. WillHave(ring[i + Taken][1])
        BY <4>1, <4>2, ArrivedStep DEF RingInv
      <4>4. ASSUME NEW f \in 0 .. MaxFrames, Passed(f)' PROVE f < ring[i + Taken][1]
        <5>1. CASE Passed(f)
          BY <4>1, <5>1 DEF RingInv
        <5>2. CASE f = Bad
          BY <4>2, <5>2 DEF Bad
        <5>3. CASE f # Bad /\ Taken > 0 /\ Leads(f)
          <6>1. 1 \in DOMAIN ring /\ First(ring[1]) /\ f = ring[1][1]
            BY <5>3 DEF Leads
          <6>2. 1 < i + Taken
            BY <3>2, <4>1, <5>3
          <6>3. QED  BY <4>1, <6>1, <6>2 DEF RingInv
        <5>4. QED  BY <4>4, <5>1, <5>2, <5>3, PassedStep
      <4>5. QED  BY <4>1, <4>3, <4>4
    <3>4. ASSUME NEW i \in DOMAIN ring', NEW j \in DOMAIN ring', i < j,
                 First(ring'[i]), First(ring'[j])
          PROVE  ring'[i][1] < ring'[j][1]
      <4>1. i + Taken < j + Taken
        BY <3>2, <3>4
      <4>2. QED  BY <3>1, <3>4, <4>1 DEF RingInv
    <3>5. QED  BY <3>3, <3>4 DEF RingInv, Arrived, WillHave
  <2>2. ASSUME NEW b \in Bytes, Store(b), First(b) => pos = 0 /\ b[1] = sent
        PROVE  RingInv'
    <3>1. \A f \in 0 .. MaxFrames : Passed(f)' => Passed(f)
      <4>1. UNCHANGED queue /\ msg' = msg /\ last' = last
        BY <1>2, <2>2, StoreRing, Arrival DEF thread
      <4>2. QED  BY <4>1 DEF Passed, queue
    <3>2. \A i \in DOMAIN ring' : \/ i \in DOMAIN ring /\ ring'[i] = ring[i]
                                  \/ i = Len(ring) + 1 /\ ring'[i] = b
      BY <2>2, StoreRing
    <3>3. OnLine /\ pos' = pos + 1 /\ sent' = sent
      BY <1>2, Arrival
    <3>4. ASSUME First(b) PROVE pos = 0 /\ b[1] = sent /\ sent \in 1 .. MaxFrames
      BY <2>2, <3>3, <3>4 DEF OnLine, TypeOK
    <3>5. ASSUME NEW i \in DOMAIN ring', First(ring'[i])
          PROVE  WillHave(ring'[i][1]) /\ \A f \in 0 .. MaxFrames : Passed(f)' => f < ring'[i][1]
      <4>1. CASE i \in DOMAIN ring /\ ring'[i] = ring[i]
        <5>1. ring[i][1] \in Nat
          BY <4>1, RingBytes
        <5>2. WillHave(ring[i][1])
          BY <3>5, <4>1, <5>1, ArrivedStep DEF RingInv
        <5>3. QED  BY <3>1, <3>5, <4>1, <5>2 DEF RingInv
      <4>2. CASE ring'[i] = b
        <5>1. pos = 0 /\ ring'[i][1] = sent /\ sent \in 1 .. MaxFrames
          BY <3>4, <3>5, <4>2
        <5>2. WillHave(sent)
          BY <3>3, <5>1 DEF WillHave
        <5>3. \A f \in 0 .. MaxFrames : Passed(f)' => f < sent
          BY <3>1, <5>1 DEF QueueInv, Arrived, Bad
        <5>4. QED  BY <3>3, <5>1, <5>2, <5>3
      <4>3. QED  BY <3>2, <4>1, <4>2
    <3>6. ASSUME NEW i \in DOMAIN ring', NEW j \in DOMAIN ring', i < j,
                 First(ring'[i]), First(ring'[j])
          PROVE  ring'[i][1] < ring'[j][1]
      <4>1. Len(ring) \in Nat /\ DOMAIN ring = 1 .. Len(ring)
        BY LenProperties DEF TypeOK
      <4>2. i \in DOMAIN ring /\ ring'[i] = ring[i]
        BY <3>2, <3>6, <4>1
      <4>3. CASE j \in DOMAIN ring /\ ring'[j] = ring[j]
        BY <3>6, <4>2, <4>3 DEF RingInv
      <4>4. CASE ring'[j] = b
        <5>1. pos = 0 /\ ring'[j][1] = sent /\ sent \in 1 .. MaxFrames
          BY <3>4, <3>6, <4>4
        <5>2. Arrived(ring[i][1])
          BY <3>6, <4>2 DEF RingInv
        <5>3. QED  BY <4>2, <5>1, <5>2 DEF Arrived
      <4>5. QED  BY <3>2, <4>3, <4>4
    <3>7. QED  BY <3>5, <3>6 DEF RingInv, Arrived, WillHave
  <2>3. QED  BY <1>2, <2>1, <2>2, Arrival
<1>3. CASE SendFrame \/ ByteLost
  <2>1. UNCHANGED ring /\ UNCHANGED queue /\ UNCHANGED thread
    BY <1>3 DEF SendFrame, ByteLost, Fault
  <2>2. QED  BY <1>1, <2>1 DEF queue, thread, Passed
<1>4. CASE Thread \/ UNCHANGED vars
  <2>1. UNCHANGED ring
    BY <1>4 DEF Thread, RunWork, GetMessage, QueueEmpty, Dispatch, vars
  <2>2. \A f \in 0 .. MaxFrames : Passed(f)' => Passed(f) \/ f = Bad
    <3>1. CASE RunWork
      BY <3>1 DEF RunWork, Passed
    <3>2. CASE GetMessage
      <4>1. /\ msg' = msgq[1] /\ 1 \in DOMAIN msgq /\ last' = last
            /\ \A i \in DOMAIN msgq' : i + 1 \in DOMAIN msgq /\ msgq'[i] = msgq[i + 1]
        BY <3>2, GetQueue DEF GetMessage
      <4>2. QED  BY <4>1 DEF Passed
    <3>3. CASE QueueEmpty
      BY <3>3 DEF QueueEmpty, Passed, queue
    <3>4. CASE Dispatch
      BY <3>4 DEF Dispatch, Passed, queue
    <3>5. CASE UNCHANGED vars
      BY <3>5 DEF vars, Passed
    <3>6. QED  BY <1>4, <3>1, <3>2, <3>3, <3>4, <3>5 DEF Thread
  <2>3. QED  BY <1>1, <2>1, <2>2
<1>5. QED
  BY <1>2, <1>3, <1>4 DEF Next

\* The messages of the queue.
LEMMA QueueMessages ==
  ASSUME TypeOK, NEW i \in DOMAIN msgq
  PROVE  /\ i \in Nat /\ i >= 1 /\ i <= Len(msgq) /\ Len(msgq) \in Nat
         /\ msgq[i] \in 0 .. MaxFrames /\ Passed(msgq[i])
<1>1. msgq \in Seq(0 .. MaxFrames) /\ i \in 1 .. Len(msgq) /\ Len(msgq) \in Nat
  BY LenProperties DEF TypeOK
<1>2. msgq[i] \in 0 .. MaxFrames
  BY <1>1, ElementOfSeq
<1>3. QED  BY <1>1, <1>2 DEF Passed

LEMMA QueueStep ==
  ASSUME TypeOK, LineInv, RingInv, QueueInv, [Next]_vars
  PROVE  QueueInv'
<1>0. msg \in Nat /\ last \in Nat /\ MaxFrames \in Nat
  BY RxAssumption DEF TypeOK
<1>1. ASSUME NEW f \in 0 .. MaxFrames, Passed(f)', f # Bad PROVE WillHave(f)
  <2>1. CASE Passed(f)
    BY <1>1, <2>1, ArrivedStep DEF QueueInv
  <2>2. CASE Leads(f)
    BY <1>1, <2>2, ArrivedStep DEF Leads, RingInv
  <2>3. QED  BY <1>1, <2>1, <2>2, PassedStep
<1>2. ASSUME UNCHANGED <<queue, thread>> PROVE QueueInv'
  BY <1>1, <1>2 DEF QueueInv, queue, thread, Arrived, WillHave
<1>3. CASE EndOfFrame /\ UNCHANGED thread
  <2>1. /\ \A i \in DOMAIN msgq' :
             \/ i \in DOMAIN msgq /\ msgq'[i] = msgq[i]
             \/ i = Len(msgq) + 1 /\ Leads(msgq'[i])
        /\ msgq' \in Seq(0 .. MaxFrames)
    BY <1>3, QueueGrows
  <2>2. ASSUME NEW m, Leads(m), m # Bad, NEW f \in 0 .. MaxFrames, Passed(f) PROVE f < m
    BY <2>2 DEF Leads, RingInv
  <2>3. Passed(msg) /\ Passed(last) /\ msg \in 0 .. MaxFrames /\ last \in 0 .. MaxFrames
    BY DEF Passed, TypeOK
  <2>4. \A i \in DOMAIN msgq' : msgq'[i] # Bad => msg < msgq'[i] /\ last < msgq'[i]
    BY <2>1, <2>2, <2>3 DEF QueueInv
  <2>5. ASSUME NEW i \in DOMAIN msgq', NEW j \in DOMAIN msgq', i < j,
               msgq'[i] # Bad, msgq'[j] # Bad
        PROVE  msgq'[i] < msgq'[j]
    <3>1. CASE i \in DOMAIN msgq /\ msgq'[i] = msgq[i]
      <4>1. CASE j \in DOMAIN msgq /\ msgq'[j] = msgq[j]
        BY <2>5, <3>1, <4>1 DEF QueueInv
      <4>2. CASE Leads(msgq'[j])
        BY <2>2, <2>5, <3>1, <4>2, QueueMessages
      <4>3. QED  BY <2>1, <4>1, <4>2
    <3>2. CASE i = Len(msgq) + 1
      <4>1. j \notin DOMAIN msgq
        BY <2>5, <3>2, QueueMessages
      <4>2. j = Len(msgq) + 1
        BY <2>1, <4>1
      <4>3. Len(msgq) \in Nat
        BY LenProperties DEF TypeOK
      <4>4. QED  BY <2>5, <3>2, <4>2, <4>3
    <3>3. QED  BY <2>1, <3>1, <3>2
  <2>6. (msg # Bad => last < msg) /\ (pc # "dispatch" => msg = Bad)
    BY DEF QueueInv
  <2>7. QED
    BY <1>1, <1>3, <2>4, <2>5, <2>6 DEF QueueInv, thread, Arrived, WillHave
<1>4. CASE ByteArrives \/ ByteDamaged
  BY <1>2, <1>3, <1>4, Arrival, StoreRing
<1>5. CASE RunWork
  BY <1>1, <1>5 DEF RunWork, QueueInv, line, Arrived, WillHave
<1>6. CASE GetMessage
  <2>1. /\ msg = Bad /\ last' = last /\ pc' = "dispatch"
        /\ msg' = msgq[1] /\ 1 \in DOMAIN msgq
        /\ \A i \in DOMAIN msgq' : i + 1 \in DOMAIN msgq /\ msgq'[i] = msgq[i + 1]
        /\ msgq' \in Seq(0 .. MaxFrames)
    BY <1>6, GetQueue DEF GetMessage, QueueInv
  <2>2. msg' # Bad => last < msg'
    BY <2>1 DEF QueueInv
  <2>3. \A i \in DOMAIN msgq' : i \in Nat /\ i >= 1
    BY <2>1, LenProperties
  <2>4. ASSUME NEW i \in DOMAIN msgq', msgq'[i] # Bad
        PROVE  msg' < msgq'[i] /\ last < msgq'[i]
    <3>1. i + 1 \in DOMAIN msgq /\ msgq'[i] = msgq[i + 1] /\ 1 < i + 1
      BY <2>1, <2>3
    <3>2. last < msgq[i + 1] /\ msgq[i + 1] \in Nat
      BY <2>4, <3>1, <1>0, QueueMessages DEF QueueInv
    <3>3. CASE msgq[1] = Bad
      BY <2>1, <2>4, <3>1, <3>2, <3>3 DEF Bad
    <3>4. CASE msgq[1] # Bad
      BY <2>1, <2>4, <3>1, <3>2, <3>4 DEF QueueInv
    <3>5. QED  BY <3>3, <3>4
  <2>5. ASSUME NEW i \in DOMAIN msgq', NEW j \in DOMAIN msgq', i < j,
               msgq'[i] # Bad, msgq'[j] # Bad
        PROVE  msgq'[i] < msgq'[j]
    <3>1. i + 1 < j + 1
      BY <2>3, <2>5
    <3>2. QED  BY <2>1, <2>5, <3>1 DEF QueueInv
  <2>6. QED
    BY <1>1, <2>1, <2>2, <2>4, <2>5 DEF QueueInv, Arrived, WillHave
<1>7. CASE QueueEmpty
  BY <1>1, <1>7 DEF QueueEmpty, QueueInv, queue, line, Arrived, WillHave
<1>8. CASE Dispatch
  <2>1. /\ msgq' = msgq /\ msg' = Bad /\ last' = IF msg = Bad THEN last ELSE msg
        /\ pc' = "get"
    BY <1>8 DEF Dispatch, queue
  <2>2. \A i \in DOMAIN msgq : msgq[i] # Bad => Bad < msgq[i] /\ last' < msgq[i]
    BY <1>0, <2>1, QueueMessages DEF QueueInv, Bad
  <2>3. QED
    BY <1>1, <2>1, <2>2 DEF QueueInv, Arrived, WillHave
<1>9. CASE SendFrame \/ ByteLost \/ UNCHANGED vars
  BY <1>2, <1>9 DEF SendFrame, ByteLost, Fault, vars, queue, thread
<1>10. QED
  BY <1>4, <1>5, <1>6, <1>7, <1>8, <1>9 DEF Next, Thread
-----------------------------------------------------------------------------
(* Recovery after a fault *)

\* What can be on the line when a byte arrives unhurt.
LEMMA ByteCases ==
  ASSUME TypeOK, LineInv, ByteArrives
  PROVE  /\ OnLine /\ pos' = pos + 1 /\ UNCHANGED <<sent, size, thread, hurt>>
         /\ sent \in 1 .. MaxFrames /\ size \in 1 .. FrameMax /\ pos \in 0 .. size
         /\ \/ pos = size /\ EndOfFrame /\ ~OnLine'
            \/ pos < size /\ Store(<<sent, pos + 1, size>>) /\ <<sent, pos + 1, size>> \in Bytes
               /\ UNCHANGED <<clean, due>> /\ OnLine'
<1>1. OnLine /\ pos' = pos + 1 /\ UNCHANGED <<sent, size, thread, hurt>> /\ Account
  BY DEF ByteArrives
<1>2. sent \in 1 .. MaxFrames /\ size \in 1 .. FrameMax /\ pos \in 0 .. size
  BY <1>1, RxAssumption DEF TypeOK, LineInv, OnLine
<1>3. FrameMax \in Nat /\ size \in Nat /\ pos \in Nat
  BY <1>2, RxAssumption
<1>4. CASE pos = size
  <2>1. EndOfFrame
    BY <1>4 DEF ByteArrives, Receive, NextByte
  <2>2. ~OnLine'
    BY <1>1, <1>3, <1>4 DEF OnLine
  <2>3. QED  BY <1>1, <1>2, <1>4, <2>1, <2>2
<1>5. CASE pos # size
  <2>1. /\ NextByte \in Bytes /\ NextByte # Delimiter
        /\ NextByte = <<sent, pos + 1, size>> /\ pos < size
    BY <1>1, <1>5, NextByteIs
  <2>2. Store(NextByte)
    BY <2>1 DEF ByteArrives, Receive
  <2>3. OnLine'
    BY <1>1, <1>2, <1>3, <2>1 DEF OnLine
  <2>4. UNCHANGED <<clean, due>>
    BY <1>1, <1>5 DEF Account
  <2>5. QED  BY <1>1, <1>2, <2>1, <2>2, <2>3, <2>4
<1>6. QED  BY <1>4, <1>5

\* Nothing is on the line when the host begins a frame.
LEMMA LineFree ==
  ASSUME TypeOK, SendFrame
  PROVE  ~OnLine /\ pos' = 0 /\ UNCHANGED <<ring, clean, due, queue, thread>>
<1>1. sent \in Nat /\ size \in Nat /\ pos \in Nat
  BY RxAssumption DEF TypeOK
<1>2. QED  BY <1>1 DEF SendFrame, OnLine

\* The arithmetic of a frame of s bytes on top of r stale ones.
LEMMA LessStale ==
  ASSUME NEW l \in Nat, NEW r \in Nat, NEW s \in 0 .. FrameMax, NEW n \in Nat,
         NEW t \in Nat, l <= r + s, r - (CobsMax - FrameMax) <= t,
         l <= CobsMax => n = l, l > CobsMax => n = CobsMax
  PROVE  l - n <= t
BY RxAssumption

LEMMA StaleStep ==
  ASSUME TypeOK, LineInv, ResidueShrinks, [Next]_vars
  PROVE  ResidueShrinks'
<1>0. /\ TypeOK' /\ Recovery \in Nat /\ Recovery >= 1 /\ Residue(Recovery) = 0
      /\ clean \in 0 .. Recovery /\ clean \in Nat /\ Len(ring) \in Nat /\ pos \in Nat
  BY TypeStep, RecoveryIs, LenProperties, RxAssumption DEF TypeOK
<1>1. CASE SendFrame
  <2>1. ~OnLine /\ pos' = 0 /\ ring' = ring /\ clean' = clean
    BY <1>1, LineFree
  <2>2. (clean >= 1) => Len(ring) <= Residue(clean)
    <3>1. ASSUME clean >= 1 PROVE Len(ring) <= Residue(clean)
      <4>1. Len(ring) <= Residue(clean) + 0 /\ Residue(clean) \in Nat
        BY <1>0, <2>1, <3>1, ResidueStep DEF ResidueShrinks
      <4>2. QED  BY <1>0, <4>1
    <3>2. QED  BY <3>1
  <2>3. ASSUME clean >= 1 PROVE Len(ring) <= Residue(clean) + (IF OnLine' THEN 0 ELSE 0)
    BY <1>0, <2>2, <2>3, ResidueStep
  <2>4. QED  BY <1>0, <2>1, <2>3 DEF ResidueShrinks
<1>2. CASE ByteArrives
  <2>1. CASE pos < size
    <3>1. /\ OnLine /\ OnLine' /\ pos' = pos + 1 /\ clean' = clean
          /\ \E b \in Bytes : Store(b)
      BY <1>0, <1>2, <2>1, ByteCases
    <3>2. Len(ring') <= Len(ring) + 1 /\ Len(ring') \in Nat
      BY <3>1, StoreRing, LenProperties
    <3>3. ASSUME clean >= 1 PROVE Len(ring') <= Residue(clean) + (pos + 1)
      <4>1. Len(ring) <= Residue(clean) + pos /\ Residue(clean) \in Nat
        BY <1>0, <3>1, <3>3, ResidueStep DEF ResidueShrinks
      <4>2. QED  BY <1>0, <3>2, <4>1
    <3>4. QED  BY <1>0, <3>1, <3>3 DEF ResidueShrinks
  <2>2. CASE pos = size
    <3>1. OnLine /\ EndOfFrame /\ ~OnLine' /\ size \in 0 .. FrameMax
      <4>1. pos < size => FALSE
        BY <1>0, <2>2
      <4>2. OnLine /\ EndOfFrame /\ ~OnLine'
        BY <1>2, <4>1, ByteCases
      <4>3. QED  BY <4>2 DEF TypeOK
    <3>2. /\ Taken \in 0 .. Len(ring) /\ Len(ring') = Len(ring) - Taken
          /\ Len(ring) <= CobsMax => Taken = Len(ring)
          /\ Len(ring) > CobsMax => Taken = CobsMax
      BY <3>1, TakenRing
    <3>3. Taken \in Nat
      BY <1>0, <3>2
    <3>4. ASSUME clean' >= 1 PROVE Len(ring') <= Residue(clean')
      <4>1. ~hurt /\ clean' = Least(clean + 1, Recovery)
        BY <1>2, <2>2, <3>4 DEF ByteArrives, Account, LineInv
      <4>2. CASE clean = 0
        <5>1. clean' = 1
          BY <1>0, <4>1, <4>2 DEF Least
        <5>2. Len(ring) <= RingSize
          BY DEF TypeOK
        <5>3. Len(ring) <= CobsMax => Taken = Len(ring)
          BY <3>2
        <5>4. Len(ring) > CobsMax => Taken = CobsMax
          BY <3>2
        <5>5. Len(ring) - Taken <= RingSize - CobsMax
          BY <1>0, <3>3, <5>2, <5>3, <5>4, RxAssumption
        <5>6. QED  BY <3>2, <5>1, <5>5, ResidueFirst
      <4>3. CASE clean >= 1 /\ clean < Recovery
        <5>1. clean' = clean + 1
          BY <1>0, <4>1, <4>3 DEF Least
        <5>2. Len(ring) <= Residue(clean) + size
          BY <2>2, <3>1, <4>3 DEF ResidueShrinks
        <5>3. /\ Residue(clean) \in Nat /\ Residue(clean + 1) \in Nat
              /\ Residue(clean) - (CobsMax - FrameMax) <= Residue(clean + 1)
          BY <1>0, <4>3, ResidueStep
        <5>4. Len(ring) - Taken <= Residue(clean + 1)
          BY <1>0, <3>1, <3>2, <3>3, <5>2, <5>3, LessStale
        <5>5. QED  BY <3>2, <5>1, <5>4
      <4>4. CASE clean = Recovery
        <5>1. clean' = Recovery
          BY <1>0, <4>1, <4>4 DEF Least
        <5>2. Len(ring) <= 0 + size
          BY <1>0, <2>2, <3>1, <4>4 DEF ResidueShrinks
        <5>3. 0 - (CobsMax - FrameMax) <= 0
          BY RxAssumption
        <5>4. Len(ring) - Taken <= 0
          BY <1>0, <3>1, <3>2, <3>3, <5>2, <5>3, LessStale
        <5>5. QED  BY <1>0, <3>2, <5>1, <5>4
      <4>5. QED  BY <1>0, <4>2, <4>3, <4>4
    <3>5. ASSUME clean' >= 1 PROVE Len(ring') <= Residue(clean') + 0
      <4>1. Residue(clean') \in Nat /\ Len(ring') <= Residue(clean')
        <5>1. clean' \in Nat
          BY <1>0, RecoveryIs DEF TypeOK
        <5>2. QED  BY <3>4, <3>5, <5>1, ResidueStep
      <4>2. QED  BY <4>1
    <3>6. QED  BY <1>0, <3>1, <3>5 DEF ResidueShrinks
  <2>3. QED  BY <1>2, <2>1, <2>2, ByteCases
<1>3. CASE Fault
  BY <1>0, <1>3 DEF Fault, ResidueShrinks
<1>4. CASE Thread \/ UNCHANGED vars
  <2>1. UNCHANGED <<ring, clean, pos, size, sent>>
    BY <1>4 DEF Thread, RunWork, GetMessage, QueueEmpty, Dispatch, line, vars
  <2>2. QED  BY <1>0, <2>1 DEF ResidueShrinks, OnLine
<1>5. QED
  BY <1>1, <1>2, <1>3, <1>4 DEF Next, ByteLost, ByteDamaged

LEMMA AlignStep ==
  ASSUME TypeOK, LineInv, ResidueShrinks, AlignInv, [Next]_vars
  PROVE  AlignInv'
<1>0. /\ Recovery \in Nat /\ Recovery >= 1 /\ Residue(Recovery) = 0
      /\ clean \in 0 .. Recovery /\ clean \in Nat /\ Len(ring) \in Nat /\ pos \in Nat
      /\ FrameMax < RingSize /\ FrameMax \in Nat /\ RingSize \in Nat
      /\ DOMAIN ring = 1 .. Len(ring)
  BY RecoveryIs, LenProperties, RxAssumption DEF TypeOK
<1>1. CASE SendFrame
  <2>1. ~OnLine /\ pos' = 0 /\ ring' = ring /\ clean' = clean
    BY <1>1, LineFree
  <2>2. ASSUME clean = Recovery PROVE Len(ring) = 0
    BY <1>0, <2>1, <2>2 DEF ResidueShrinks
  <2>3. \A i \in 1 .. 0 : FALSE
    OBVIOUS
  <2>4. QED  BY <2>1, <2>2, <2>3 DEF AlignInv
<1>2. CASE ByteArrives
  <2>1. CASE pos = size
    <3>1. pos < size => FALSE
      BY <1>0, <2>1
    <3>2. ~OnLine'
      BY <1>2, <3>1, ByteCases
    <3>3. QED  BY <3>2 DEF AlignInv
  <2>2. CASE pos < size
    <3>0. pos # size
      BY <1>0, <2>2
    <3>1. /\ OnLine /\ pos' = pos + 1
          /\ UNCHANGED <<sent, size, hurt, clean>>
          /\ Store(<<sent, pos + 1, size>>) /\ <<sent, pos + 1, size>> \in Bytes
          /\ size \in 1 .. FrameMax
      BY <1>2, <3>0, ByteCases
    <3>2. ASSUME ~hurt, clean = Recovery
          PROVE  /\ Len(ring') = pos'
                 /\ \A i \in 1 .. pos' : ring'[i] = <<sent, i, size>>
      <4>1. Len(ring) = pos /\ \A i \in 1 .. pos : ring[i] = <<sent, i, size>>
        BY <3>1, <3>2 DEF AlignInv
      <4>2. Len(ring) < RingSize
        BY <1>0, <2>2, <3>1, <4>1
      <4>3. ring' = Append(ring, <<sent, pos + 1, size>>)
        BY <3>1, <4>2 DEF Store
      <4>4. ring \in Seq(Bytes)
        BY DEF TypeOK
      <4>5. /\ Len(ring') = Len(ring) + 1
            /\ \A i \in 1 .. Len(ring) : ring'[i] = ring[i]
            /\ ring'[Len(ring) + 1] = <<sent, pos + 1, size>>
        BY <3>1, <4>3, <4>4, AppendProperties
      <4>6. \A i \in 1 .. pos + 1 : i \in 1 .. pos \/ i = pos + 1
        BY <1>0
      <4>7. QED  BY <3>1, <4>1, <4>5, <4>6
    <3>3. QED  BY <3>1, <3>2 DEF AlignInv
  <2>3. QED  BY <1>0, <1>2, <2>1, <2>2, ByteCases
<1>3. CASE Fault
  BY <1>3 DEF Fault, AlignInv
<1>4. CASE Thread \/ UNCHANGED vars
  <2>1. UNCHANGED <<ring, clean, pos, size, sent, hurt>>
    BY <1>4 DEF Thread, RunWork, GetMessage, QueueEmpty, Dispatch, line, vars
  <2>2. QED  BY <2>1 DEF AlignInv, OnLine
<1>5. QED
  BY <1>1, <1>2, <1>3, <1>4 DEF Next, ByteLost, ByteDamaged

\* A frame that arrives unhurt after the path has recovered is decoded, whole.
LEMMA FrameDecoded ==
  ASSUME TypeOK, LineInv, AlignInv, ByteArrives, pos = size, ~hurt, clean = Recovery
  PROVE  Enqueue(sent) /\ sent \in 1 .. MaxFrames
<1> DEFINE chunk == SubSeq(ring, 1, Taken)
<1>1. /\ OnLine /\ EndOfFrame /\ size \in 1 .. FrameMax /\ sent \in 1 .. MaxFrames
      /\ FrameMax \in Nat
  <2>1. size \in Nat /\ FrameMax \in Nat
    BY RxAssumption DEF TypeOK
  <2>2. pos < size => FALSE
    BY <2>1
  <2>3. QED  BY <2>1, <2>2, ByteCases
<1>2. /\ Len(ring) = size /\ size \in Nat /\ size >= 1
      /\ \A i \in 1 .. size : ring[i] = <<sent, i, size>>
  BY <1>1 DEF AlignInv
<1>3. Taken = size
  <2>1. size <= CobsMax
    BY <1>1, <1>2, RxAssumption
  <2>2. QED  BY <1>1, <1>2, <2>1, TakenRing
<1>4. /\ chunk \in Seq(Bytes) /\ Len(chunk) = size
      /\ \A i \in 1 .. size : chunk[i] = <<sent, i, size>>
  <2>1. ring \in Seq(Bytes) /\ DOMAIN ring = 1 .. size
    BY <1>2, LenProperties DEF TypeOK
  <2>2. \A i \in 1 .. size : ring[i] \in Bytes
    BY <1>2, <2>1, ElementOfSeq
  <2>3. /\ chunk \in Seq(Bytes)
        /\ Len(chunk) = IF 1 <= size THEN size - 1 + 1 ELSE 0
        /\ \A i \in 1 .. size - 1 + 1 : chunk[i] = ring[1 + i - 1]
    BY <1>2, <1>3, <2>1, <2>2, SubSeqProperties
  <2>4. size - 1 + 1 = size /\ \A i \in 1 .. size : 1 + i - 1 = i
    BY <1>2
  <2>5. Len(chunk) = size
    BY <1>2, <2>3, <2>4
  <2>6. QED  BY <1>2, <2>3, <2>4, <2>5
<1> HIDE DEF chunk
<1>5. chunk[1] = <<sent, 1, size>> /\ chunk[1][1] = sent /\ chunk[1][3] = size
  BY <1>2, <1>4
<1>6. FrameAt(chunk, 1)
  <2>1. 1 + size - 1 <= Len(chunk) /\ size > 0
    BY <1>2, <1>4
  <2>2. \A i \in 1 .. size : chunk[1 + i - 1] = <<sent, i, size>>
    BY <1>2, <1>4
  <2>3. QED  BY <1>5, <2>1, <2>2 DEF FrameAt
<1>7. WholeFrames(chunk)
  <2>1. ASSUME NEW i \in 1 .. size
        PROVE  i - chunk[i][2] + 1 = 1 /\ 1 \in 1 .. i
    BY <1>2, <1>4, <2>1
  <2>2. DOMAIN chunk = 1 .. size
    BY <1>4, LenProperties
  <2>3. QED  BY <1>6, <2>1, <2>2 DEF WholeFrames
<1>8. Len(chunk) - 1 <= DecodedMax
  BY <1>1, <1>2, <1>4, RxAssumption
<1>9. Decode(chunk) = {sent}
  <2>1. ~(Len(chunk) - 1 > DecodedMax)
    BY <1>2, <1>4, <1>8, RxAssumption
  <2>2. QED  BY <1>5, <1>6, <1>7, <2>1 DEF Decode
<1>10. sent # None
  BY <1>1 DEF None
<1>11. Taken # 0
  BY <1>2, <1>3
<1>12. \E m \in Decode(chunk) : IF m = None THEN UNCHANGED queue ELSE Enqueue(m)
  BY <1>1, <1>11 DEF EndOfFrame, Taken, chunk
<1>13. QED  BY <1>1, <1>9, <1>10, <1>12

LEMMA SyncStep ==
  ASSUME TypeOK, LineInv, AlignInv, QueueInv, InSync, [Next]_vars
  PROVE  InSync'
<1>1. ASSUME due' \subseteq due, UNCHANGED <<pc, msg>>,
             \A i \in DOMAIN msgq : i \in DOMAIN msgq' /\ msgq'[i] = msgq[i]
      PROVE  InSync'
  BY <1>1 DEF InSync
<1>2. CASE ByteArrives \/ ByteDamaged
  <2>1. UNCHANGED <<pc, msg>>
    BY <1>2, Arrival DEF thread
  <2>2. \A i \in DOMAIN msgq : i \in DOMAIN msgq' /\ msgq'[i] = msgq[i]
    <3>1. CASE EndOfFrame
      BY <3>1, QueueGrows
    <3>2. ASSUME NEW b \in Bytes, Store(b) PROVE UNCHANGED msgq
      BY <3>2, StoreRing DEF queue
    <3>3. QED  BY <1>2, <3>1, <3>2, Arrival
  <2>3. CASE due' \subseteq due
    BY <1>1, <2>1, <2>2, <2>3
  <2>4. CASE ~(due' \subseteq due)
    <3>1. /\ ByteArrives /\ pos = size /\ ~hurt /\ clean = Recovery
          /\ Len(msgq) < QueueDepth /\ due' = due \cup {sent}
      BY <1>2, <2>4 DEF ByteArrives, ByteDamaged, Fault, Account
    <3>2. Enqueue(sent) /\ sent \in 0 .. MaxFrames
      BY <3>1, FrameDecoded
    <3>3. Len(msgq) + 1 \in DOMAIN msgq' /\ msgq'[Len(msgq) + 1] = sent
      BY <3>1, <3>2, EnqueueQueue
    <3>4. QED  BY <2>1, <2>2, <3>1, <3>3 DEF InSync
  <2>5. QED  BY <2>3, <2>4
<1>3. CASE GetMessage
  <2>1. /\ msg' = msgq[1] /\ pc' = "dispatch" /\ pc = "get" /\ due' = due
        /\ \A i \in DOMAIN msgq : i # 1 => i - 1 \in DOMAIN msgq' /\ msgq'[i - 1] = msgq[i]
    BY <1>3, GetQueue DEF GetMessage
  <2>2. ASSUME NEW f \in due
        PROVE  (pc' = "dispatch" /\ msg' = f) \/ \E i \in DOMAIN msgq' : msgq'[i] = f
    <3>1. PICK i \in DOMAIN msgq : msgq[i] = f
      BY <2>1, <2>2 DEF InSync
    <3>2. QED  BY <2>1, <3>1
  <2>3. QED  BY <2>1, <2>2 DEF InSync
<1>4. CASE Dispatch
  <2>1. pc = "dispatch" /\ due' = due \ {msg} /\ msgq' = msgq
    BY <1>4 DEF Dispatch, queue
  <2>2. QED  BY <2>1 DEF InSync
<1>5. CASE RunWork
  <2>1. pc = "idle" /\ due' = due /\ msgq' = msgq
    BY <1>5 DEF RunWork
  <2>2. QED  BY <2>1 DEF InSync
<1>6. CASE QueueEmpty
  <2>1. pc = "get" /\ due' = due /\ msgq' = msgq
    BY <1>6 DEF QueueEmpty, queue
  <2>2. QED  BY <2>1 DEF InSync
<1>7. CASE SendFrame \/ ByteLost \/ UNCHANGED vars
  BY <1>1, <1>7 DEF SendFrame, ByteLost, Fault, vars, queue, thread
<1>8. QED
  BY <1>2, <1>3, <1>4, <1>5, <1>6, <1>7 DEF Next, Thread
-----------------------------------------------------------------------------
LEMMA StepIInv == IInv /\ [Next]_vars => IInv'
<1> SUFFICES ASSUME IInv, [Next]_vars PROVE IInv'
  OBVIOUS
<1>1. /\ TypeOK /\ LineInv /\ NoLostWakeup /\ ResidueShrinks /\ AlignInv /\ InSync
      /\ RingInv /\ QueueInv
  BY DEF IInv
<1>2. TypeOK' /\ LineInv' /\ NoLostWakeup'
  BY <1>1, TypeStep, LineStep, WakeupStep
<1>3. ResidueShrinks' /\ AlignInv' /\ InSync'
  BY <1>1, StaleStep, AlignStep, SyncStep
<1>4. RingInv' /\ QueueInv'
  BY <1>1, RingStep, QueueStep
<1>5. QED  BY <1>2, <1>3, <1>4 DEF IInv

LEMMA Inductive == Spec => []IInv
BY InitIInv, StepIInv, PTL DEF Spec

\* The variables keep their types: neither the ring (ring_buf_put) nor the queue
\* (k_msgq_put) ever holds more than its size.
THEOREM TypeCorrect == Spec => []TypeOK
<1>1. IInv => TypeOK
  BY DEF IInv
<1>2. QED  BY <1>1, Inductive, PTL

\* A packet that uart_isr queues while rx_dispatch_handler is emptying the queue is
\* never left behind: the work item is queued or the handler still looks.
THEOREM WakeupCorrect == Spec => []NoLostWakeup
<1>1. IInv => NoLostWakeup
  BY DEF IInv
<1>2. QED  BY <1>1, Inductive, PTL

\* Bytes that a fault left in rx_ring_buf are gone after a number of frames that
\* only the sizes of the buffers decide.
THEOREM ResidueCorrect == Spec => []ResidueShrinks
<1>1. IInv => ResidueShrinks
  BY DEF IInv
<1>2. QED  BY <1>1, Inductive, PTL

\* After that, uart_isr decodes and queues every frame that finds room in the
\* queue, and rx_dispatch_handler does not lose it.
THEOREM SyncCorrect == Spec => []InSync
<1>1. IInv => InSync
  BY DEF IInv
<1>2. QED  BY <1>1, Inductive, PTL

LEMMA ChannelStep == IInv /\ [Next]_vars => [Path!Next]_(Path!vars)
<1> SUFFICES ASSUME IInv, [Next]_vars PROVE [Path!Next]_(Path!vars)
  OBVIOUS
<1>1. TypeOK /\ QueueInv
  BY DEF IInv
<1>2. CASE SendFrame
  <2>1. Path!Send
    BY <1>2 DEF SendFrame, Path!Send, thread
  <2>2. QED  BY <2>1 DEF Path!Next
<1>3. CASE Dispatch
  <2>1. CASE msg = Bad
    BY <1>3, <2>1 DEF Dispatch, line, Path!vars
  <2>2. CASE msg # Bad
    <3>1. last' = msg /\ turn' = ~turn /\ sent' = sent
      BY <1>3, <2>2 DEF Dispatch, line
    <3>2. last < msg /\ Arrived(msg)
      BY <1>1, <2>2 DEF QueueInv, Passed, TypeOK
    <3>3. msg \in (last + 1) .. sent
      BY <1>1, <3>2, RxAssumption DEF TypeOK, Arrived
    <3>4. Path!Deliver
      BY <3>1, <3>3 DEF Path!Deliver
    <3>5. QED  BY <3>4 DEF Path!Next
  <2>3. QED  BY <2>1, <2>2
<1>4. CASE ByteArrives \/ Fault \/ RunWork \/ GetMessage \/ QueueEmpty \/ UNCHANGED vars
  BY <1>4 DEF ByteArrives, Fault, RunWork, GetMessage, QueueEmpty, vars, thread, line,
              Path!vars
<1>5. QED
  BY <1>2, <1>3, <1>4 DEF Next, Thread, ByteLost, ByteDamaged

\* Interrupt handler, ring, decoder, queue and work item implement a channel that
\* may lose packets: whatever the line does, no packet is dispatched that was
\* not sent, none twice and none after a later one.
THEOREM ChannelCorrect == Spec => IsChannel
<1>1. Init => Path!Init
  BY DEF Init, Path!Init
<1>2. QED
  BY <1>1, Inductive, ChannelStep, PTL DEF Spec, IsChannel, Path!Spec
=============================================================================
