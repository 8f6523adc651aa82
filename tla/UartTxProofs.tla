----------------------------- MODULE UartTxProofs -----------------------------
(***************************************************************************)
(* The send path for every size of the ring, every set of lengths and any  *)
(* number of packets: the positions of the ring stay in order and bytes    *)
(* never wait for an interrupt nobody enables, until main writes a         *)
(* position that is no longer what it read; without a race the path is a   *)
(* Channel; and the damage of other races, of a full ring and of console   *)
(* text stays where it is done.                                            *)
(***************************************************************************)
EXTENDS UartTx, SequenceTheorems, TLAPS

\* main, from the claim of the first part to the interrupt's enabling.
Thread == [pc : {"idle", "claim", "copy", "finish", "commit", "enable"}, p : Nat, n : Nat, got : Nat, at : Nat,
           part : Nat, copied : Nat]

\* main is in ring_buf_put and has not committed; it has not ended it.
Claiming == main.pc \in {"claim", "copy", "finish"}
Putting  == main.pc \in {"claim", "copy", "finish", "commit"}

\* What main has read is still so, unless a reply has come since.
ReadInv ==
  /\ main.pc = "claim"  => main.at = head /\ head + main.part <= get + TxSize
  /\ main.pc = "finish" => main.at = tail /\ main.got <= head - tail
  /\ main.pc = "commit" => main.at = tail

MainInv ==
  /\ main \in Thread
  /\ main.got <= main.n
  /\ main.pc = "claim" => main.copied = 0 /\ main.part <= main.n - main.got
  /\ main.pc = "copy" => main.part <= main.got
  /\ main.pc # "idle" => main.p \in 1 .. packets
  /\ late => raced
  /\ late \/ ReadInv

Sound == TypeOK /\ InOrder

IInv == TypeOK /\ Kicked /\ (torn \/ (InOrder /\ MainInv))
-----------------------------------------------------------------------------
(* Without a race *)

\* The byte at position k.
At(k) == mem[k % TxSize]

\* Packets put as a whole.
Settled == IF Claiming THEN packets - 1 ELSE packets

\* Bytes that main has copied.
Ready == IF main.pc = "copy" THEN main.got - main.part + main.copied ELSE main.got

\* What is claimed is main's, and main has written a piece of its packet there.
ClaimInv ==
  IF Claiming
  THEN /\ main.p = packets /\ main.n >= 2 /\ head = tail + main.got
       /\ main.pc = "copy" => main.at = head - main.part
       /\ \A j \in 1 .. Ready : At(tail + j - 1) = <<main.p, j, main.n>>
  ELSE head = tail

\* A packet that has left the ring, or may have: accepted, or begun in what the
\* host has.
Passed(f) == f = last \/ (acc # <<>> /\ acc[1][2] = 1 /\ f = acc[1][1])

\* Each packet has its first byte in the ring at most once, in the order begun, and
\* behind it no packet that has already left the ring.
OrderInv ==
  /\ \A k \in get .. tail - 1 :
       /\ At(k)[1] \in 1 .. Settled /\ At(k)[3] >= 2
       /\ At(k)[2] = 1 => \A f \in 0 .. MaxPackets : Passed(f) => f < At(k)[1]
  /\ \A k, l \in get .. tail - 1 :
       k < l /\ At(k)[2] = 1 /\ At(l)[2] = 1 => At(k)[1] < At(l)[1]

\* The host has a packet begun after the latest it accepted.
AccInv ==
  /\ last <= Settled
  /\ acc # <<>> /\ acc[1][1] > 0 =>
       /\ acc[1][1] <= Settled /\ acc[1][3] >= 2
       /\ acc[1][2] = 1 => last < acc[1][1]

UnlessRaced == ~raced => ClaimInv /\ OrderInv /\ AccInv
-----------------------------------------------------------------------------
(* Positions and the memory *)

LEMMA Remainder ==
  ASSUME NEW i \in Nat, NEW n \in Nat, n > 0
  PROVE  /\ i % n \in 0 .. n - 1 /\ i \div n \in Nat
         /\ i = (i \div n) * n + (i % n)
OBVIOUS

\* Positions less than the size apart are different places.
LEMMA Apart ==
  ASSUME NEW n \in Nat, n > 0, NEW i \in Nat, NEW j \in Nat, i < j, j < i + n
  PROVE  i % n # j % n
<1> DEFINE a == i \div n
           b == j \div n
<1>1. /\ a \in Nat /\ i = a * n + (i % n) /\ i % n \in Nat
      /\ b \in Nat /\ j = b * n + (j % n) /\ j % n \in Nat
  BY Remainder
<1> HIDE DEF a, b
<1>2. SUFFICES ASSUME i % n = j % n PROVE FALSE
  OBVIOUS
<1>3. (b - a) * n = b * n - a * n
  BY <1>1
<1>4. (b - a) * n = j - i
  BY <1>1, <1>2, <1>3
<1>5. CASE b - a <= 0
  <2>1. (b - a) * n <= 0
    BY <1>1, <1>5
  <2>2. QED  BY <1>4, <2>1
<1>6. CASE b - a >= 1
  <2>1. (b - a) * n >= n
    BY <1>1, <1>6
  <2>2. QED  BY <1>4, <2>1
<1>7. QED  BY <1>1, <1>5, <1>6
LEMMA FreeIs ==
  ASSUME Sound
  PROVE  Free \in 0 .. TxSize /\ head + Free = get + TxSize
BY TxAssumption DEF Sound, InOrder, TypeOK, Free

\* A claim takes what main still needs, what is free and what is left before the
\* end of the memory at most.
LEMMA LeastIs ==
  ASSUME NEW a \in Nat, NEW b \in Nat
  PROVE  Least(a, b) \in Nat /\ Least(a, b) <= a /\ Least(a, b) <= b
         /\ (Least(a, b) = a \/ Least(a, b) = b)
BY DEF Least

LEMMA WrittenType ==
  ASSUME TypeOK, NEW p \in 0 .. MaxPackets, NEW n \in Nat, NEW at \in Nat,
         NEW i \in Nat, NEW j \in Nat
  PROVE  Written(p, n, at, i, j) \in [0 .. TxSize - 1 -> Bytes]
<1>1. mem \in [0 .. TxSize - 1 -> Bytes] /\ DOMAIN mem = 0 .. TxSize - 1
  BY DEF TypeOK
<1>2. ASSUME NEW x \in 0 .. TxSize - 1, NEW k \in i .. j
      PROVE  <<p, k, n>> \in Bytes
  BY DEF Bytes
<1>3. ASSUME NEW x \in 0 .. TxSize - 1, \E k \in i .. j : (at + k - i) % TxSize = x
      PROVE  (CHOOSE k \in i .. j : (at + k - i) % TxSize = x) \in i .. j
  BY <1>3
<1>4. ASSUME NEW x \in 0 .. TxSize - 1
      PROVE  (IF \E k \in i .. j : (at + k - i) % TxSize = x
              THEN <<p, CHOOSE k \in i .. j : (at + k - i) % TxSize = x, n>>
              ELSE mem[x]) \in Bytes
  <2>1. CASE \E k \in i .. j : (at + k - i) % TxSize = x
    BY <1>2, <1>3, <2>1
  <2>2. CASE ~\E k \in i .. j : (at + k - i) % TxSize = x
    BY <1>1, <2>2
  <2>3. QED  BY <2>1, <2>2
<1>5. QED  BY <1>1, <1>4 DEF Written

\* Memory f has bytes i .. j of packet p from position at on.
Holds(f, p, n, at, i, j) == \A k \in i .. j : f[(at + k - i) % TxSize] = <<p, k, n>>

\* A piece of at most the memory's size is found where it was put ...
LEMMA WrittenThere ==
  ASSUME TypeOK, NEW p, NEW n, NEW at \in Nat, NEW i \in Nat, NEW j \in Nat, j < i + TxSize
  PROVE  Holds(Written(p, n, at, i, j), p, n, at, i, j)
<1> SUFFICES ASSUME NEW k \in i .. j
             PROVE  Written(p, n, at, i, j)[(at + k - i) % TxSize] = <<p, k, n>>
  BY DEF Holds
<1> DEFINE x == (at + k - i) % TxSize
           c == CHOOSE l \in i .. j : (at + l - i) % TxSize = x
<1>1. DOMAIN mem = 0 .. TxSize - 1 /\ TxSize \in Nat /\ TxSize > 0
  BY TxAssumption DEF TypeOK
<1>2. at + k - i \in Nat
  OBVIOUS
<1>3. x \in 0 .. TxSize - 1
  BY <1>1, <1>2, Remainder
<1>4. \E l \in i .. j : (at + l - i) % TxSize = x
  OBVIOUS
<1>5. c \in i .. j /\ (at + c - i) % TxSize = x
  BY <1>4
<1>6. Written(p, n, at, i, j)[x] = <<p, c, n>>
  BY <1>1, <1>3, <1>4 DEF Written
<1> HIDE DEF c
<1>7. at + c - i \in Nat
  BY <1>5
<1>8. ~(c < k)
  <2>1. SUFFICES ASSUME c < k PROVE FALSE
    OBVIOUS
  <2>2. at + c - i < at + k - i /\ at + k - i < at + c - i + TxSize
    BY <1>1, <1>5, <2>1
  <2>3. QED  BY <1>1, <1>2, <1>5, <1>7, <2>2, Apart
<1>9. ~(k < c)
  <2>1. SUFFICES ASSUME k < c PROVE FALSE
    OBVIOUS
  <2>2. at + k - i < at + c - i /\ at + c - i < at + k - i + TxSize
    BY <1>1, <1>5, <2>1
  <2>3. QED  BY <1>1, <1>2, <1>5, <1>7, <2>2, Apart
<1>10. c = k
  BY <1>5, <1>8, <1>9
<1>11. QED  BY <1>6, <1>10

\* ... and what is before it, from where its end does not reach, stays as it was.
LEMMA WrittenElsewhere ==
  ASSUME TypeOK, NEW p, NEW n, NEW at \in Nat, NEW i \in Nat, NEW j \in Nat,
         NEW q \in Nat, q < at, at + j - i < q + TxSize
  PROVE  Written(p, n, at, i, j)[q % TxSize] = mem[q % TxSize]
<1>1. DOMAIN mem = 0 .. TxSize - 1 /\ TxSize \in Nat /\ TxSize > 0
  BY TxAssumption DEF TypeOK
<1>2. q % TxSize \in 0 .. TxSize - 1
  BY <1>1, Remainder
<1>3. ASSUME NEW k \in i .. j
      PROVE  (at + k - i) % TxSize # q % TxSize
  <2>1. at + k - i \in Nat /\ q < at + k - i /\ at + k - i < q + TxSize
    BY <1>1
  <2>2. QED  BY <1>1, <2>1, Apart
<1>4. QED  BY <1>1, <1>2, <1>3 DEF Written
-----------------------------------------------------------------------------
(* Types and positions *)

LEMMA ClaimIs ==
  ASSUME Sound, NEW m \in Thread, m.got <= m.n, Claim(m)
  PROVE  \E part \in Nat :
           /\ part <= m.n - m.got /\ part <= Free
           /\ main' = [m EXCEPT !.pc = "claim", !.at = head, !.part = part, !.copied = 0]
<1> DEFINE rest == m.n - m.got
           room == TxSize - (head % TxSize)
           part == Least(rest, Least(Free, room))
<1>1. m.n \in Nat /\ m.got \in Nat
  BY DEF Thread
<1>2. rest \in Nat
  BY <1>1
<1>3. Free \in Nat
  BY FreeIs, TxAssumption
<1>4. room \in Nat
  <2>1. head \in Nat /\ TxSize \in Nat /\ TxSize > 0
    BY TxAssumption DEF Sound, InOrder, TypeOK
  <2>2. head % TxSize \in 0 .. TxSize - 1
    BY <2>1, Remainder
  <2>3. QED  BY <2>1, <2>2
<1>5. main' = [m EXCEPT !.pc = "claim", !.at = head, !.part = part, !.copied = 0]
  BY DEF Claim
<1> HIDE DEF rest, room
<1>6. Least(Free, room) \in Nat /\ Least(Free, room) <= Free
  BY <1>3, <1>4, LeastIs
<1>7. part \in Nat /\ part <= rest /\ part <= Least(Free, room)
  BY <1>2, <1>6, LeastIs
<1>8. part <= Free
  BY <1>3, <1>6, <1>7
<1>9. QED
  BY <1>5, <1>7, <1>8 DEF rest

LEMMA HostTypes ==
  ASSUME TypeOK, NEW b \in Bytes, HostReads(b)
  PROVE  /\ acc' \in Seq(Bytes) /\ last' \in 0 .. MaxPackets /\ turn' \in BOOLEAN
         /\ noise' \in BOOLEAN /\ judged' \in 0 .. MaxPackets
         /\ noisy' \subseteq 0 .. MaxPackets /\ wrongly' \subseteq 1 .. MaxPackets
<1>1. b[1] \in 0 .. MaxPackets /\ MaxPackets \in Nat
  BY TxAssumption DEF Bytes
<1>2. CASE ~IsDelimiter(b)
  <2>1. acc' = Append(acc, b) /\ UNCHANGED <<last, turn, noise, noisy, judged, wrongly>>
    BY <1>2 DEF HostReads
  <2>2. acc' \in Seq(Bytes)
    BY <2>1, AppendProperties DEF TypeOK
  <2>3. QED  BY <2>1, <2>2 DEF TypeOK
<1>3. CASE IsDelimiter(b)
  <2>1. /\ acc' = <<>> /\ noise' = FALSE
        /\ judged' = (IF b[1] > judged THEN b[1] ELSE judged)
        /\ noisy' = (IF noise THEN noisy \cup {b[1]} ELSE noisy)
        /\ wrongly' = wrongly \cup {p \in (judged + 1) .. b[1] :
                       p # last' /\ p \notin noisy' /\ {p - 1, p} \cap spoiled = {}}
    BY <1>3 DEF HostReads
  <2>2. acc' \in Seq(Bytes)
    BY <2>1
  <2>3. judged' \in 0 .. MaxPackets
    BY <1>1, <2>1 DEF TypeOK
  <2>4. noisy' \subseteq 0 .. MaxPackets
    BY <1>1, <2>1 DEF TypeOK
  <2>5. wrongly' \subseteq 1 .. MaxPackets
    <3>1. \A p \in (judged + 1) .. b[1] : p \in 1 .. MaxPackets
      BY <1>1 DEF TypeOK
    <3>2. QED  BY <2>1, <3>1 DEF TypeOK
  <2>6. last' \in 0 .. MaxPackets /\ turn' \in BOOLEAN
    <3>1. \/ UNCHANGED <<last, turn>>
          \/ acc # <<>> /\ last' = acc[1][1] /\ turn' = ~turn
      BY <1>3 DEF HostReads
    <3>2. ASSUME acc # <<>> PROVE acc[1][1] \in 0 .. MaxPackets
      <4>1. acc[1] \in Bytes
        BY <3>2, HeadTailProperties DEF TypeOK
      <4>2. QED  BY <4>1 DEF Bytes
    <3>3. QED  BY <3>1, <3>2 DEF TypeOK
  <2>7. QED  BY <2>1, <2>2, <2>3, <2>4, <2>5, <2>6
<1>4. QED  BY <1>2, <1>3

LEMMA InitIInv == Init => IInv
<1> SUFFICES ASSUME Init PROVE IInv
  OBVIOUS
<1>1. mem \in [0 .. TxSize - 1 -> Bytes]
  BY TxAssumption DEF Init, Zero, Bytes
<1>2. acc \in Seq(Bytes)
  BY DEF Init
<1>3. main \in Thread /\ main.pc = "idle" /\ main.part = 0 /\ main.got = 0 /\ main.copied = 0
      /\ main.n = 0
  BY DEF Init, NotSending, Thread
<1>4. TypeOK
  BY <1>1, <1>2, <1>3, TxAssumption DEF Init, TypeOK
<1>5. InOrder
  BY TxAssumption DEF InOrder, Init
<1>6. MainInv
  BY <1>3 DEF MainInv, ReadInv, Init
<1>7. QED  BY <1>4, <1>5, <1>6 DEF IInv, Kicked, Init

LEMMA OrderStep ==
  Sound /\ MainInv /\ [Next]_vars => TypeOK' /\ (torn' \/ (InOrder' /\ MainInv'))
<1> SUFFICES ASSUME Sound, MainInv, [Next]_vars PROVE TypeOK' /\ (torn' \/ (InOrder' /\ MainInv'))
  OBVIOUS
<1>1. /\ TypeOK /\ TxSize \in Nat /\ TxSize > 0 /\ MaxPackets \in Nat /\ MaxText \in Nat
      /\ get \in Nat /\ tail \in Nat /\ head \in Nat /\ packets \in 0 .. MaxPackets
      /\ get <= tail /\ tail <= head /\ head - get <= TxSize
  BY TxAssumption DEF Sound, InOrder, TypeOK
<1>2. /\ main \in Thread /\ main.p \in Nat /\ main.n \in Nat /\ main.got \in Nat
      /\ main.at \in Nat /\ main.part \in Nat /\ main.copied \in Nat
      /\ main.got <= main.n /\ main.copied <= main.part
      /\ (main.pc = "claim" => main.copied = 0 /\ main.part <= main.n - main.got)
      /\ (main.pc = "copy" => main.part <= main.got)
      /\ (main.pc # "idle" => main.p \in 1 .. packets)
      /\ (late => raced) /\ (late \/ ReadInv)
  BY <1>1 DEF MainInv, Thread, TypeOK
<1>3. Free \in Nat /\ head + Free = get + TxSize
  BY FreeIs, TxAssumption
\* A claim by main, in state m, which is in its put of a packet.
<1>4. ASSUME NEW m \in Thread, m.got <= m.n, m.p \in 1 .. packets', packets' \in 0 .. MaxPackets,
             Claim(m), UNCHANGED <<ring, irq, replying, host, text, spoiled, races>>
      PROVE  TypeOK' /\ InOrder' /\ MainInv'
  <2>1. PICK part \in Nat :
           /\ part <= m.n - m.got /\ part <= Free
           /\ main' = [m EXCEPT !.pc = "claim", !.at = head, !.part = part, !.copied = 0]
    BY <1>4, ClaimIs
  <2>2. /\ main' \in Thread /\ main'.pc = "claim" /\ main'.part = part /\ main'.copied = 0
        /\ main'.got = m.got /\ main'.p = m.p /\ main'.n = m.n /\ main'.at = head
    BY <1>1, <2>1 DEF Thread
  <2>3. UNCHANGED <<mem, get, tail, head, irq, replying, host, text, spoiled, raced, late, torn>>
    BY <1>4 DEF ring, races
  <2>4. ReadInv'
    BY <1>1, <1>3, <2>1, <2>2, <2>3 DEF ReadInv
  <2>5. MainInv'
    BY <1>2, <1>4, <2>1, <2>2, <2>3, <2>4 DEF MainInv
  <2>6. TypeOK'
    BY <1>1, <1>4, <2>2, <2>3 DEF TypeOK, host
  <2>7. QED
    BY <1>1, <2>3, <2>5, <2>6 DEF InOrder
<1>5. ASSUME NEW n \in Lengths, MainPut(n)
      PROVE  TypeOK' /\ InOrder' /\ MainInv'
  <2>1. packets' = packets + 1 /\ packets' \in 1 .. MaxPackets
    BY <1>1, <1>5 DEF MainPut, Begin
  <2>2. n \in Nat
    BY TxAssumption
  <2>3. PICK p \in Nat : p = packets'
    BY <2>1
  <2>4. PICK m : m = [NotSending EXCEPT !.p = p, !.n = n]
    OBVIOUS
  <2>5. m \in Thread /\ m.got = 0 /\ m.n = n /\ m.p = p
    BY <2>2, <2>4 DEF NotSending, Thread
  <2>6. Claim(m)
    BY <1>5, <2>3, <2>4 DEF MainPut
  <2>7. UNCHANGED <<ring, irq, replying, host, text, spoiled, races>>
    BY <1>5 DEF MainPut
  <2>8. m.got <= m.n /\ m.p \in 1 .. packets' /\ packets' \in 0 .. MaxPackets
    BY <1>1, <2>1, <2>2, <2>3, <2>5
  <2>9. QED  BY <1>4, <2>5, <2>6, <2>7, <2>8
<1>6. CASE MainTake
  <2>1. PICK position \in {main.at, head} : head' = position + main.part
    BY <1>6 DEF MainTake
  <2>0. position \in Nat /\ main.got + main.part \in Nat /\ position + main.part \in Nat
    BY <1>1, <1>2
  <2>2. /\ main.pc = "claim" /\ main' = [main EXCEPT !.pc = "copy", !.got = main.got + main.part]
        /\ torn' = late
        /\ UNCHANGED <<mem, get, tail, irq, replying, packets, host, text, spoiled, raced, late>>
    BY <1>6 DEF MainTake
  <2>3. /\ main' \in Thread /\ main'.pc = "copy" /\ main'.got = main.got + main.part
        /\ main'.part = main.part /\ main'.copied = main.copied
        /\ main'.p = main.p /\ main'.n = main.n
    BY <1>2, <2>0, <2>2 DEF Thread
  <2>4. TypeOK'
    <3>1. head' \in Nat /\ torn' \in BOOLEAN
      BY <1>1, <2>0, <2>1, <2>2 DEF TypeOK
    <3>2. QED  BY <1>1, <1>2, <2>2, <2>3, <3>1 DEF TypeOK, host
  <2>5. ASSUME ~late PROVE InOrder' /\ MainInv'
    <3>1. main.at = head /\ head + main.part <= get + TxSize
      BY <1>2, <2>2, <2>5 DEF ReadInv
    <3>2. head' = head + main.part
      BY <2>1, <3>1
    <3>3. ReadInv'
      BY <2>3 DEF ReadInv
    <3>4. MainInv'
      BY <1>2, <2>2, <2>3, <3>3 DEF MainInv
    <3>5. QED  BY <1>1, <1>2, <2>2, <3>1, <3>2, <3>4 DEF InOrder
  <2>6. QED  BY <2>2, <2>4, <2>5
<1>7. CASE MainCopy
  <2>1. PICK k \in Nat : k = main.got - main.part + main.copied + 1
    BY <1>2, <1>7 DEF MainCopy
  <2>2. /\ main.pc = "copy" /\ main.copied < main.part
        /\ mem' = Written(main.p, main.n, main.at + main.copied, k, k)
        /\ main' = [main EXCEPT !.copied = main.copied + 1]
        /\ UNCHANGED <<get, tail, head, irq, replying, packets, host, text, spoiled, raced, late, torn>>
    BY <1>7, <2>1 DEF MainCopy, races
  <2>3. main.p \in 0 .. MaxPackets /\ main.at + main.copied \in Nat
    BY <1>1, <1>2, <2>2
  <2>4. mem' \in [0 .. TxSize - 1 -> Bytes]
    BY <1>1, <1>2, <2>2, <2>3, WrittenType
  <2>5. /\ main' \in Thread /\ main'.pc = "copy" /\ main'.copied = main.copied + 1
        /\ main'.part = main.part /\ main'.got = main.got /\ main'.p = main.p /\ main'.n = main.n
    BY <1>2, <2>2 DEF Thread
  <2>6. MainInv'
    BY <1>2, <2>2, <2>5 DEF MainInv, ReadInv
  <2>7. main'.copied <= main'.part
    BY <1>2, <2>2, <2>5
  <2>8. TypeOK'
    BY <1>1, <2>2, <2>4, <2>5, <2>7 DEF TypeOK, host
  <2>9. QED  BY <1>1, <2>2, <2>6, <2>8 DEF InOrder
<1>8. CASE MainClaim
  <2>1. main.got < main.n /\ main.pc = "copy" /\ packets' = packets
    BY <1>8 DEF MainClaim, Copied
  <2>2. main.got <= main.n /\ main.p \in 1 .. packets'
    BY <1>2, <2>1
  <2>3. QED  BY <1>1, <1>2, <1>4, <1>8, <2>1, <2>2 DEF MainClaim
<1>9. CASE MainFinish
  <2>1. /\ main.pc = "copy"
        /\ main' = (IF main.got <= head - tail THEN [main EXCEPT !.pc = "finish", !.at = tail]
                    ELSE [main EXCEPT !.pc = "enable"])
        /\ spoiled' = (IF main.got < main.n THEN spoiled \cup {main.p} ELSE spoiled)
        /\ UNCHANGED <<mem, get, tail, head, irq, replying, packets, host, text, raced, late, torn>>
    BY <1>9 DEF MainFinish, Copied, ring, races
  <2>2. /\ main' \in Thread /\ main'.copied = main.copied
        /\ main'.part = main.part /\ main'.got = main.got /\ main'.p = main.p /\ main'.n = main.n
        /\ \/ main'.pc = "finish" /\ main'.at = tail /\ main.got <= head - tail
           \/ main'.pc = "enable"
    BY <1>1, <1>2, <2>1 DEF Thread
  <2>3. ReadInv'
    BY <1>1, <2>1, <2>2 DEF ReadInv
  <2>4. MainInv'
    BY <1>2, <2>1, <2>2, <2>3 DEF MainInv
  <2>5. spoiled' \subseteq 1 .. (MaxPackets + 1)
    <3>1. main.p \in 1 .. (MaxPackets + 1)
      BY <1>1, <1>2, <2>1
    <3>2. QED  BY <1>1, <2>1, <3>1 DEF TypeOK
  <2>6. TypeOK'
    BY <1>1, <1>2, <2>1, <2>2, <2>5 DEF TypeOK, host
  <2>7. QED  BY <1>1, <2>1, <2>4, <2>6 DEF InOrder
<1>10. CASE MainCommit
  <2>1. PICK position \in {main.at, tail} : tail' = position + main.got
    BY <1>10 DEF MainCommit
  <2>2. /\ main.pc = "finish" /\ main' = [main EXCEPT !.pc = "commit", !.at = tail']
        /\ torn' = late
        /\ UNCHANGED <<mem, get, head, irq, replying, packets, host, text, spoiled, raced, late>>
    BY <1>10 DEF MainCommit
  <2>3. tail' \in Nat
    BY <1>1, <1>2, <2>1
  <2>4. /\ main' \in Thread /\ main'.pc = "commit" /\ main'.at = tail'
        /\ main'.part = main.part /\ main'.copied = main.copied /\ main'.got = main.got
        /\ main'.p = main.p /\ main'.n = main.n
    BY <1>2, <2>2, <2>3 DEF Thread
  <2>5. TypeOK'
    <3>1. torn' \in BOOLEAN
      BY <1>1, <2>2 DEF TypeOK
    <3>2. QED  BY <1>1, <1>2, <2>2, <2>3, <2>4, <3>1 DEF TypeOK, host
  <2>6. ASSUME ~late PROVE InOrder' /\ MainInv'
    <3>1. main.at = tail /\ main.got <= head - tail
      BY <1>2, <2>2, <2>6 DEF ReadInv
    <3>2. tail' = tail + main.got
      BY <2>1, <3>1
    <3>3. ReadInv'
      BY <2>4 DEF ReadInv
    <3>4. MainInv'
      BY <1>2, <2>2, <2>4, <3>3 DEF MainInv
    <3>5. QED  BY <1>1, <1>2, <2>2, <3>1, <3>2, <3>4 DEF InOrder
  <2>7. QED  BY <2>2, <2>5, <2>6
<1>11. CASE MainForget
  <2>1. /\ main.pc = "commit" /\ main' = [main EXCEPT !.pc = "enable"]
        /\ head' \in {main.at, tail} /\ torn' = late
        /\ UNCHANGED <<mem, get, tail, irq, replying, packets, host, text, spoiled, raced, late>>
    BY <1>11 DEF MainForget
  <2>2. /\ main' \in Thread /\ main'.pc = "enable"
        /\ main'.part = main.part /\ main'.copied = main.copied /\ main'.got = main.got
        /\ main'.p = main.p /\ main'.n = main.n
    BY <1>2, <2>1 DEF Thread
  <2>3. TypeOK'
    <3>1. head' \in Nat /\ torn' \in BOOLEAN
      BY <1>1, <1>2, <2>1 DEF TypeOK
    <3>2. QED  BY <1>1, <1>2, <2>1, <2>2, <3>1 DEF TypeOK, host
  <2>4. ASSUME ~late PROVE InOrder' /\ MainInv'
    <3>1. head' = tail
      BY <1>2, <2>1, <2>4 DEF ReadInv
    <3>2. MainInv'
      BY <1>2, <2>1, <2>2 DEF MainInv, ReadInv
    <3>3. QED  BY <1>1, <2>1, <3>1, <3>2 DEF InOrder
  <2>5. QED  BY <2>1, <2>3, <2>4
<1>12. CASE MainEnable
  <2>1. /\ irq' = TRUE /\ main' = NotSending
        /\ UNCHANGED <<mem, get, tail, head, replying, packets, host, text, spoiled, raced, late, torn>>
    BY <1>12 DEF MainEnable, ring, races
  <2>2. /\ main' \in Thread /\ main'.pc = "idle" /\ main'.copied = 0 /\ main'.part = 0
        /\ main'.got = 0 /\ main'.n = 0
    BY <2>1 DEF NotSending, Thread
  <2>3. TypeOK'
    BY <1>1, <2>1, <2>2 DEF TypeOK, host
  <2>4. MainInv'
    BY <1>2, <2>1, <2>2 DEF MainInv, ReadInv
  <2>5. QED  BY <1>1, <2>1, <2>3, <2>4 DEF InOrder
<1>13. ASSUME NEW n \in Lengths, ReplyPut(n)
       PROVE  TypeOK' /\ InOrder' /\ MainInv'
  <2>1. packets' = packets + 1 /\ packets' \in 1 .. MaxPackets
    BY <1>1, <1>13 DEF ReplyPut, Begin
  <2>2. n \in Nat
    BY TxAssumption
  <2>3. PICK p \in Nat : p = packets'
    BY <2>1
  <2>4. PICK got \in Nat : got = Least(n, Free) /\ got <= n /\ got <= Free
    BY <1>3, <2>2, LeastIs
  <2>5. /\ mem' = Written(p, n, head, 1, got)
        /\ tail' = tail + got /\ head' = tail + got
        /\ spoiled' = spoiled \cup (IF Putting THEN {main.p, p, p + 1} ELSE {})
                              \cup (IF got < n THEN {p} ELSE {})
        /\ raced' = (raced \/ Putting) /\ late' = (late \/ (Putting /\ main.pc # "copy"))
        /\ replying' = TRUE
        /\ UNCHANGED <<get, irq, main, host, text, torn>>
    BY <1>13, <2>3, <2>4 DEF ReplyPut, Putting
  <2>6. mem' \in [0 .. TxSize - 1 -> Bytes]
    <3>1. p \in 0 .. MaxPackets
      BY <2>1, <2>3
    <3>2. QED  BY <1>1, <2>2, <2>5, <3>1, WrittenType
  <2>7. spoiled' \subseteq 1 .. (MaxPackets + 1)
    <3>1. p \in 1 .. (MaxPackets + 1) /\ p + 1 \in 1 .. (MaxPackets + 1)
      BY <1>1, <2>1, <2>3
    <3>2. Putting => main.p \in 1 .. (MaxPackets + 1)
      BY <1>1, <1>2 DEF Putting
    <3>3. spoiled \subseteq 1 .. (MaxPackets + 1)
      BY <1>1 DEF TypeOK
    <3>4. QED  BY <2>5, <3>1, <3>2, <3>3
  <2>8. raced' \in BOOLEAN /\ late' \in BOOLEAN
    BY <1>1, <2>5 DEF TypeOK, Putting
  <2>9. TypeOK'
    BY <1>1, <2>1, <2>5, <2>6, <2>7, <2>8 DEF TypeOK, host
  <2>10. MainInv'
    <3>1. late' \/ ReadInv'
      BY <2>5 DEF ReadInv, Putting
    <3>2. late' => raced'
      BY <1>2, <2>5
    <3>3. QED  BY <1>1, <1>2, <2>1, <2>5, <3>1, <3>2 DEF MainInv
  <2>11. QED  BY <1>1, <1>3, <2>4, <2>5, <2>9, <2>10 DEF InOrder
<1>14. CASE ReplyEnable
  <2>1. /\ irq' = TRUE /\ replying' = FALSE
        /\ UNCHANGED <<mem, get, tail, head, main, packets, host, text, spoiled, raced, late, torn>>
    BY <1>14 DEF ReplyEnable, ring, races
  <2>2. TypeOK'
    BY <1>1, <2>1 DEF TypeOK, host
  <2>3. MainInv'
    BY <2>1 DEF MainInv, ReadInv
  <2>4. QED  BY <1>1, <2>1, <2>2, <2>3 DEF InOrder
<1>15. CASE IsrSend
  <2>1. /\ get < tail /\ get' = get + 1 /\ HostReads(mem[get % TxSize])
        /\ UNCHANGED <<mem, tail, head, irq, main, replying, packets, text, spoiled, raced, late, torn>>
    BY <1>15 DEF IsrSend, races
  <2>2. mem[get % TxSize] \in Bytes
    <3>1. get % TxSize \in 0 .. TxSize - 1
      BY <1>1, Remainder
    <3>2. QED  BY <1>1, <3>1 DEF TypeOK
  <2>3. /\ acc' \in Seq(Bytes) /\ last' \in 0 .. MaxPackets /\ turn' \in BOOLEAN
        /\ noise' \in BOOLEAN /\ judged' \in 0 .. MaxPackets
        /\ noisy' \subseteq 0 .. MaxPackets /\ wrongly' \subseteq 1 .. MaxPackets
    BY <1>1, <2>1, <2>2, HostTypes
  <2>4. TypeOK'
    BY <1>1, <2>1, <2>3 DEF TypeOK
  <2>5. MainInv'
    <3>1. late \/ ReadInv'
      BY <1>1, <1>2, <2>1 DEF ReadInv
    <3>2. QED  BY <1>2, <2>1, <3>1 DEF MainInv
  <2>6. QED  BY <1>1, <2>1, <2>4, <2>5 DEF InOrder
<1>16. CASE IsrEmpty
  <2>1. /\ irq' = FALSE
        /\ UNCHANGED <<mem, get, tail, head, main, replying, packets, host, text, spoiled, raced, late, torn>>
    BY <1>16 DEF IsrEmpty, ring, races
  <2>2. TypeOK'
    BY <1>1, <2>1 DEF TypeOK, host
  <2>3. MainInv'
    BY <2>1 DEF MainInv, ReadInv
  <2>4. QED  BY <1>1, <2>1, <2>2, <2>3 DEF InOrder
<1>17. CASE Console
  <2>1. /\ text < MaxText /\ text' = text + 1 /\ acc' = Append(acc, Text) /\ noise' = TRUE
        /\ UNCHANGED <<mem, get, tail, head, irq, main, replying, packets, last, turn, noisy, spoiled,
                       raced, late, torn, judged, wrongly>>
    BY <1>17 DEF Console, ring, races
  <2>2. Text \in Bytes
    BY <1>1 DEF Text, Bytes
  <2>3. acc' \in Seq(Bytes)
    BY <1>1, <2>1, <2>2, AppendProperties DEF TypeOK
  <2>4. TypeOK'
    BY <1>1, <2>1, <2>3 DEF TypeOK
  <2>5. MainInv'
    BY <2>1 DEF MainInv, ReadInv
  <2>6. QED  BY <1>1, <2>1, <2>4, <2>5 DEF InOrder
<1>18. CASE UNCHANGED vars
  <2>1. TypeOK'
    BY <1>1, <1>18 DEF TypeOK, vars
  <2>2. MainInv'
    BY <1>18 DEF MainInv, ReadInv, vars
  <2>3. QED  BY <1>1, <1>18, <2>1, <2>2 DEF InOrder, vars
<1>19. QED
  BY <1>5, <1>6, <1>7, <1>8, <1>9, <1>10, <1>11, <1>12, <1>13, <1>14, <1>15, <1>16, <1>17, <1>18
     DEF Next, Main, MainWorks, Reply, Isr, Outside
\* Only a commit makes bytes wait anew, and the thread that commits enables the
\* interrupt next.
LEMMA KickStep == Sound /\ MainInv /\ Kicked /\ [Next]_vars => Kicked'
<1> SUFFICES ASSUME Sound, MainInv, Kicked, [Next]_vars PROVE Kicked'
  OBVIOUS
<1>0. main \in Thread
  BY DEF MainInv
<1>1. ASSUME NEW n \in Lengths, MainPut(n) PROVE Kicked'
  <2>1. UNCHANGED <<get, tail, irq, replying>> /\ main.pc = "idle"
    BY <1>1 DEF MainPut, ring
  <2>2. QED  BY <2>1 DEF Kicked
<1>2. CASE MainTake \/ MainCopy \/ MainClaim \/ MainFinish
  <2>1. UNCHANGED <<get, tail, irq, replying>> /\ main.pc \in {"claim", "copy"}
    BY <1>2 DEF MainTake, MainCopy, MainClaim, MainFinish, Copied, ring
  <2>2. QED  BY <2>1 DEF Kicked
<1>3. CASE MainCommit
  <2>1. main'.pc = "commit"
    BY <1>0, <1>3 DEF MainCommit, Thread
  <2>2. QED  BY <2>1 DEF Kicked
<1>4. CASE MainForget
  <2>1. main'.pc = "enable"
    BY <1>0, <1>4 DEF MainForget, Thread
  <2>2. QED  BY <2>1 DEF Kicked
<1>5. CASE MainEnable
  BY <1>5 DEF MainEnable, ring, Kicked
<1>6. ASSUME NEW n \in Lengths, ReplyPut(n) PROVE Kicked'
  BY <1>6 DEF ReplyPut, Kicked
<1>7. CASE ReplyEnable
  BY <1>7 DEF ReplyEnable, Kicked
<1>8. CASE IsrSend
  BY <1>8 DEF IsrSend, Kicked
<1>9. CASE IsrEmpty
  <2>1. ~(get < tail)'
    BY <1>9 DEF IsrEmpty, ring, Sound, InOrder, TypeOK
  <2>2. QED  BY <2>1 DEF Kicked
<1>10. CASE Console
  BY <1>10 DEF Console, ring, Kicked
<1>11. CASE UNCHANGED vars
  BY <1>11 DEF vars, Kicked
<1>12. QED
  BY <1>1, <1>2, <1>3, <1>4, <1>5, <1>6, <1>7, <1>8, <1>9, <1>10, <1>11
     DEF Next, Main, MainWorks, Reply, Isr, Outside

\* Once main has written an old position nothing more is said.
LEMMA TornStep == torn /\ [Next]_vars => UNCHANGED vars
BY DEF Next, Main, Reply, Isr, Outside

LEMMA IInvStep == IInv /\ [Next]_vars => IInv'
<1> SUFFICES ASSUME IInv, [Next]_vars PROVE IInv'
  OBVIOUS
<1>1. CASE torn
  <2>1. UNCHANGED vars
    BY <1>1, TornStep
  <2>2. TypeOK' /\ Kicked' /\ torn'
    BY <1>1, <2>1 DEF IInv, TypeOK, Kicked, vars
  <2>3. QED  BY <2>2 DEF IInv
<1>2. CASE ~torn
  BY <1>2, OrderStep, KickStep DEF IInv, Sound
<1>3. QED  BY <1>1, <1>2

LEMMA Inductive == Spec => []IInv
BY InitIInv, IInvStep, PTL DEF Spec

\* Whatever interrupts come between the steps of main's ring_buf_put, and whatever
\* replies are put by the work queue at other points of it than between the reading of
\* a position and its writing, the ring hands out no byte it was not given and never
\* holds more than its size.
THEOREM RingCorrect == Spec => []RingInOrder
<1>1. IInv => RingInOrder
  BY DEF IInv, RingInOrder
<1>2. QED  BY <1>1, Inductive, PTL

\* Bytes that send_uart_data has committed never wait for an interrupt that nobody
\* will enable, although uart_isr disables it whenever it finds the ring empty.
THEOREM KickCorrect == Spec => []Kicked
<1>1. IInv => Kicked
  BY DEF IInv
<1>2. QED  BY <1>1, Inductive, PTL
-----------------------------------------------------------------------------
(* The order of what leaves the ring *)

LEMMA Positions ==
  ASSUME Sound
  PROVE  /\ get \in Nat /\ tail \in Nat /\ head \in Nat /\ TxSize \in Nat /\ TxSize > 0
         /\ get <= tail /\ tail <= head /\ head <= get + TxSize
         /\ MaxPackets \in Nat /\ packets \in 0 .. MaxPackets /\ last \in 0 .. MaxPackets
         /\ \A k \in get .. tail - 1 : k \in Nat /\ At(k) \in Bytes
<1>1. /\ get \in Nat /\ tail \in Nat /\ head \in Nat /\ TxSize \in Nat /\ TxSize > 0
      /\ get <= tail /\ tail <= head /\ head <= get + TxSize
      /\ MaxPackets \in Nat /\ packets \in 0 .. MaxPackets /\ last \in 0 .. MaxPackets
  BY TxAssumption DEF Sound, InOrder, TypeOK
<1>2. ASSUME NEW k \in get .. tail - 1
      PROVE  k \in Nat /\ At(k) \in Bytes
  <2>1. k \in Nat
    BY <1>1
  <2>2. k % TxSize \in 0 .. TxSize - 1
    BY <1>1, <2>1, Remainder
  <2>3. QED  BY <2>1, <2>2 DEF At, Sound, InOrder, TypeOK
<1>3. QED  BY <1>1, <1>2

LEMMA Thing ==
  ASSUME NEW b \in Bytes
  PROVE  b[1] \in 0 .. MaxPackets /\ b[2] \in Nat /\ b[3] \in Nat
BY DEF Bytes

\* What the host has not begins with a byte.
LEMMA FirstOfAcc ==
  ASSUME TypeOK, acc # <<>>
  PROVE  acc[1] \in Bytes
BY HeadTailProperties DEF TypeOK

\* Packets settle in the order they are begun in.
LEMMA SettledIs ==
  ASSUME Sound, MainInv
  PROVE  Settled \in 0 .. packets
<1>1. packets \in 0 .. MaxPackets /\ (Claiming => main.p \in 1 .. packets)
  BY DEF Sound, TypeOK, MainInv, Claiming
<1>2. Claiming => packets >= 1
  BY <1>1, TxAssumption
<1>3. QED  BY <1>1, <1>2, TxAssumption DEF Settled

\* A step that leaves what is committed, and the host, alone.
LEMMA Still ==
  ASSUME OrderInv, AccInv, Sound, MainInv, UNCHANGED <<get, tail, acc, last>>,
         \A k \in get .. tail - 1 : mem'[k % TxSize] = At(k),
         NEW s \in Nat, s = Settled', Settled <= s
  PROVE  OrderInv' /\ AccInv'
<1>1. \A k \in get .. tail - 1 : At(k)' = At(k)
  BY DEF At
<1>2. \A f : Passed(f)' <=> Passed(f)
  BY DEF Passed
<1>3. Settled \in Nat /\ last \in Nat
  BY SettledIs, Positions, TxAssumption
<1>4. \A x \in 1 .. Settled : x \in 1 .. s
  BY <1>3
<1>5. OrderInv'
  BY <1>1, <1>2, <1>4 DEF OrderInv
<1>6. last' <= Settled'
  BY <1>3 DEF AccInv
<1>7. ASSUME acc' # <<>>, acc'[1][1] > 0
      PROVE  /\ acc'[1][1] <= Settled' /\ acc'[1][3] >= 2
             /\ (acc'[1][2] = 1 => last' < acc'[1][1])
  <2>1. acc[1] \in Bytes
    BY <1>7, FirstOfAcc DEF Sound
  <2>2. acc[1][1] \in Nat
    BY <2>1, Thing, TxAssumption
  <2>3. acc[1][1] <= Settled /\ acc[1][3] >= 2 /\ (acc[1][2] = 1 => last < acc[1][1])
    BY <1>7 DEF AccInv
  <2>4. QED  BY <1>3, <2>2, <2>3
<1>8. QED  BY <1>5, <1>6, <1>7 DEF AccInv

\* A step that commits the beginning of the next packet.
LEMMA Committed ==
  ASSUME OrderInv, AccInv, Sound, MainInv, UNCHANGED <<get, acc, last>>,
         NEW p \in Nat, NEW n \in Nat, NEW got \in Nat, n >= 2,
         p = Settled + 1, Settled' = p, tail' = tail + got,
         \A k \in get .. tail - 1 : mem'[k % TxSize] = At(k),
         \A j \in 1 .. got : mem'[(tail + j - 1) % TxSize] = <<p, j, n>>
  PROVE  OrderInv' /\ AccInv'
<1>1. /\ get \in Nat /\ tail \in Nat /\ get <= tail /\ Settled \in Nat /\ last \in Nat
      /\ \A k \in get .. tail - 1 : k \in Nat /\ At(k) \in Bytes
  BY Positions, SettledIs, TxAssumption
<1>2. \A f : Passed(f)' <=> Passed(f)
  BY DEF Passed
\* A position has an old byte or a new one.
<1>3. \A k \in get .. tail + got - 1 :
        \/ k \in get .. tail - 1 /\ At(k)' = At(k)
        \/ k >= tail /\ k - tail + 1 \in 1 .. got /\ At(k)' = <<p, k - tail + 1, n>>
  <2>1. TAKE k \in get .. tail + got - 1
  <2>2. CASE k < tail
    <3>1. k \in get .. tail - 1
      BY <1>1, <2>2
    <3>2. QED  BY <3>1 DEF At
  <2>3. CASE k >= tail
    <3>1. k - tail + 1 \in 1 .. got /\ tail + (k - tail + 1) - 1 = k
      BY <1>1, <2>3
    <3>2. mem'[(tail + (k - tail + 1) - 1) % TxSize] = <<p, k - tail + 1, n>>
      BY <3>1
    <3>3. QED  BY <2>3, <3>1, <3>2 DEF At
  <2>4. QED  BY <1>1, <2>2, <2>3
<1>4. ASSUME NEW f \in 0 .. MaxPackets, Passed(f) PROVE f < p
  <2>1. CASE f = last
    BY <1>1, <2>1 DEF AccInv
  <2>2. CASE acc # <<>> /\ f = acc[1][1]
    <3>1. f \in Nat /\ (f > 0 => f <= Settled)
      BY <2>2, TxAssumption DEF AccInv
    <3>2. QED  BY <1>1, <3>1
  <2>3. QED  BY <1>4, <2>1, <2>2 DEF Passed
<1>5. ASSUME NEW k \in get .. tail + got - 1
      PROVE  /\ At(k)'[1] \in 1 .. p /\ At(k)'[3] >= 2
             /\ (At(k)'[2] = 1 => \A f \in 0 .. MaxPackets : Passed(f) => f < At(k)'[1])
  <2>1. CASE k \in get .. tail - 1 /\ At(k)' = At(k)
    <3>1. At(k)[1] \in 1 .. Settled /\ At(k)[3] >= 2
      BY <2>1 DEF OrderInv
    <3>2. At(k)[1] \in 1 .. p
      BY <1>1, <3>1
    <3>3. At(k)[2] = 1 => \A f \in 0 .. MaxPackets : Passed(f) => f < At(k)[1]
      BY <2>1 DEF OrderInv
    <3>4. QED  BY <2>1, <3>1, <3>2, <3>3
  <2>2. CASE At(k)' = <<p, k - tail + 1, n>>
    <3>1. At(k)'[1] = p /\ At(k)'[3] = n
      BY <2>2
    <3>2. p \in 1 .. p
      BY <1>1
    <3>3. QED  BY <1>4, <3>1, <3>2
  <2>3. QED  BY <1>3, <2>1, <2>2
<1>6. ASSUME NEW k \in get .. tail + got - 1, NEW l \in get .. tail + got - 1,
             k < l, At(k)'[2] = 1, At(l)'[2] = 1
      PROVE  At(k)'[1] < At(l)'[1]
  <2>1. CASE l \in get .. tail - 1 /\ At(l)' = At(l)
    <3>1. k \in get .. tail - 1
      BY <1>1, <1>6, <2>1
    <3>2. At(k)' = At(k)
      BY <3>1 DEF At
    <3>3. QED  BY <1>6, <2>1, <3>1, <3>2 DEF OrderInv
  <2>2. CASE l >= tail /\ At(l)' = <<p, l - tail + 1, n>>
    <3>1. l = tail /\ At(l)'[1] = p
      BY <1>1, <1>6, <2>2
    <3>2. k \in get .. tail - 1
      BY <1>1, <1>6, <3>1
    <3>3. At(k)' = At(k) /\ At(k)[1] \in 1 .. Settled
      BY <3>2 DEF At, OrderInv
    <3>4. At(k)[1] < p
      BY <1>1, <3>3
    <3>5. QED  BY <3>1, <3>3, <3>4
  <2>3. QED  BY <1>3, <2>1, <2>2
<1>7. OrderInv'
  <2>1. get' .. tail' - 1 = get .. tail + got - 1
    <3>1. get' = get /\ tail' = tail + got
      OBVIOUS
    <3>2. (tail + got) - 1 = tail + (got - 1)
      BY <1>1
    <3>3. QED  BY <3>1, <3>2
  <2>2. ASSUME NEW k \in get .. tail + got - 1
        PROVE  /\ At(k)'[1] \in 1 .. Settled' /\ At(k)'[3] >= 2
               /\ (At(k)'[2] = 1 => \A f \in 0 .. MaxPackets : Passed(f)' => f < At(k)'[1])
    BY <1>2, <1>5
  <2>3. QED  BY <1>6, <2>1, <2>2 DEF OrderInv
<1>8. last' <= Settled'
  BY <1>1 DEF AccInv
<1>9. ASSUME acc' # <<>>, acc'[1][1] > 0
      PROVE  /\ acc'[1][1] <= Settled' /\ acc'[1][3] >= 2
             /\ (acc'[1][2] = 1 => last' < acc'[1][1])
  <2>1. acc[1] \in Bytes
    BY <1>9, FirstOfAcc DEF Sound
  <2>2. acc[1][1] \in Nat
    BY <2>1, Thing, TxAssumption
  <2>3. acc[1][1] <= Settled /\ acc[1][3] >= 2 /\ (acc[1][2] = 1 => last < acc[1][1])
    BY <1>9 DEF AccInv
  <2>4. QED  BY <1>1, <2>2, <2>3
<1>10. QED  BY <1>7, <1>8, <1>9 DEF AccInv
\* A byte read by the host.  A packet it accepts is one that has passed.
LEMMA ReadIs ==
  ASSUME OrderInv, AccInv, Sound, get < tail, HostReads(At(get))
  PROVE  /\ \A f : Passed(f)' => Passed(f) \/ (At(get)[2] = 1 /\ f = At(get)[1])
         /\ \/ UNCHANGED <<last, turn>>
            \/ turn' = ~turn /\ last < last' /\ last' <= Settled
         /\ \/ acc' = <<>>
            \/ acc = <<>> /\ last' = last /\ acc'[1] = At(get)
            \/ acc # <<>> /\ last' = last /\ acc'[1] = acc[1]
<1> DEFINE b == At(get)
<1>1. /\ get \in get .. tail - 1 /\ last \in Nat /\ b \in Bytes /\ TypeOK
      /\ MaxPackets \in Nat
  <2>1. get \in get .. tail - 1
    BY Positions
  <2>2. QED  BY <2>1, Positions DEF Sound
<1>2. CASE ~IsDelimiter(b)
  <2>1. acc' = Append(acc, b) /\ last' = last /\ turn' = turn
    BY <1>2 DEF HostReads
  <2>2. CASE acc = <<>>
    <3>1. acc'[1] = b
      BY <2>1, <2>2
    <3>2. QED  BY <2>1, <2>2, <3>1 DEF Passed
  <2>3. CASE acc # <<>>
    <3>1. Len(acc) \in Nat \ {0} /\ acc \in Seq(Bytes)
      BY <1>1, <2>3, EmptySeq, LenProperties DEF TypeOK
    <3>2. 1 \in 1 .. Len(acc)
      BY <3>1
    <3>3. acc'[1] = acc[1]
      BY <1>1, <2>1, <3>1, <3>2, AppendProperties
    <3>4. QED  BY <2>1, <2>3, <3>3 DEF Passed
  <2>4. QED  BY <2>2, <2>3
<1>3. CASE IsDelimiter(b)
  <2>1. /\ acc' = <<>>
        /\ \/ UNCHANGED <<last, turn>>
           \/ /\ acc # <<>> /\ BeginsWith(acc[1][1], acc[1][3])
              /\ last' = acc[1][1] /\ turn' = ~turn
    BY <1>3 DEF HostReads
  <2>2. CASE UNCHANGED <<last, turn>>
    BY <2>1, <2>2 DEF Passed
  <2>3. CASE /\ acc # <<>> /\ BeginsWith(acc[1][1], acc[1][3])
             /\ last' = acc[1][1] /\ turn' = ~turn
    <3>1. acc[1] \in Bytes
      BY <1>1, <2>3, FirstOfAcc
    <3>2. acc[1][1] > 0 /\ \A i \in 1 .. acc[1][3] - 1 : acc[i] = <<acc[1][1], i, acc[1][3]>>
      BY <2>3 DEF BeginsWith
    <3>3. acc[1][1] <= Settled /\ acc[1][3] >= 2 /\ (acc[1][2] = 1 => last < acc[1][1])
      BY <2>3, <3>2 DEF AccInv
    <3>4. 1 \in 1 .. acc[1][3] - 1
      BY <1>1, <3>1, <3>3, Thing
    <3>5. acc[1][2] = 1
      BY <3>2, <3>4
    <3>6. QED  BY <2>1, <2>3, <3>3, <3>5 DEF Passed
  <2>4. QED  BY <2>1, <2>2, <2>3
<1>4. QED  BY <1>2, <1>3

LEMMA ReadStep ==
  ASSUME OrderInv, AccInv, Sound, MainInv, get < tail, HostReads(At(get)), get' = get + 1,
         UNCHANGED <<mem, tail, main, packets>>
  PROVE  OrderInv' /\ AccInv'
<1> DEFINE b == At(get)
<1>1. /\ get \in get .. tail - 1 /\ last \in Nat /\ b \in Bytes /\ TypeOK
      /\ get \in Nat /\ tail \in Nat /\ Settled \in Nat /\ MaxPackets \in Nat
  <2>1. get \in get .. tail - 1
    BY Positions
  <2>2. QED  BY <2>1, Positions, SettledIs DEF Sound
<1>2. Settled' = Settled /\ \A k : At(k)' = At(k)
  BY DEF Settled, Claiming, At
<1>3. /\ \A f : Passed(f)' => Passed(f) \/ (b[2] = 1 /\ f = b[1])
      /\ \/ UNCHANGED <<last, turn>>
         \/ turn' = ~turn /\ last < last' /\ last' <= Settled
      /\ \/ acc' = <<>>
         \/ acc = <<>> /\ last' = last /\ acc'[1] = b
         \/ acc # <<>> /\ last' = last /\ acc'[1] = acc[1]
  BY ReadIs
<1>4. /\ b[1] \in 1 .. Settled /\ b[3] >= 2
      /\ b[2] = 1 => \A f \in 0 .. MaxPackets : Passed(f) => f < b[1]
  BY <1>1 DEF OrderInv
<1>5. \A k \in get' .. tail' - 1 : k \in get .. tail - 1 /\ get < k
  <2>1. get' = get + 1 /\ tail' = tail
    OBVIOUS
  <2>2. QED  BY <1>1, <2>1
<1>6. ASSUME NEW k \in get' .. tail' - 1, At(k)[2] = 1, NEW f \in 0 .. MaxPackets, Passed(f)'
      PROVE  f < At(k)[1]
  <2>1. CASE Passed(f)
    BY <1>5, <1>6, <2>1 DEF OrderInv
  <2>2. CASE b[2] = 1 /\ f = b[1]
    BY <1>1, <1>5, <1>6, <2>2 DEF OrderInv
  <2>3. QED  BY <1>3, <1>6, <2>1, <2>2
<1>7. OrderInv'
  <2>1. ASSUME NEW k \in get' .. tail' - 1
        PROVE  /\ At(k)[1] \in 1 .. Settled /\ At(k)[3] >= 2
               /\ At(k)[2] = 1 => \A f \in 0 .. MaxPackets : Passed(f)' => f < At(k)[1]
    BY <1>5, <1>6 DEF OrderInv
  <2>2. \A k, l \in get' .. tail' - 1 :
          k < l /\ At(k)[2] = 1 /\ At(l)[2] = 1 => At(k)[1] < At(l)[1]
    BY <1>5 DEF OrderInv
  <2>3. QED  BY <1>2, <2>1, <2>2 DEF OrderInv
<1>8. last' <= Settled'
  BY <1>1, <1>2, <1>3 DEF AccInv
<1>9. ASSUME acc' # <<>>, acc'[1][1] > 0
      PROVE  /\ acc'[1][1] <= Settled' /\ acc'[1][3] >= 2
             /\ (acc'[1][2] = 1 => last' < acc'[1][1])
  <2>1. CASE acc = <<>> /\ last' = last /\ acc'[1] = b
    <3>1. b[1] <= Settled
      BY <1>1, <1>4
    <3>2. last \in 0 .. MaxPackets /\ Passed(last)
      BY <1>1 DEF TypeOK, Passed
    <3>3. QED  BY <1>2, <1>4, <2>1, <3>1, <3>2
  <2>2. CASE acc # <<>> /\ last' = last /\ acc'[1] = acc[1]
    BY <1>2, <1>9, <2>2 DEF AccInv
  <2>3. QED  BY <1>3, <1>9, <2>1, <2>2
<1>10. QED  BY <1>7, <1>8, <1>9 DEF AccInv

\* Console text begins no packet.
LEMMA TextStep ==
  ASSUME OrderInv, AccInv, Sound, MainInv, acc' = Append(acc, Text),
         UNCHANGED <<mem, get, tail, main, packets, last>>
  PROVE  OrderInv' /\ AccInv'
<1>1. /\ TypeOK /\ Settled' = Settled /\ Settled \in Nat
      /\ \A k : At(k)' = At(k)
  BY SettledIs, Positions DEF Settled, Claiming, At, Sound
<1>2. \/ acc = <<>> /\ acc'[1] = Text
      \/ acc # <<>> /\ acc'[1] = acc[1]
  <2>1. CASE acc = <<>>
    BY <2>1
  <2>2. CASE acc # <<>>
    <3>1. Len(acc) \in Nat \ {0} /\ acc \in Seq(Bytes)
      BY <1>1, <2>2, EmptySeq, LenProperties DEF TypeOK
    <3>2. 1 \in 1 .. Len(acc) /\ Text \in Bytes
      BY <3>1, TxAssumption DEF Bytes, Text
    <3>3. QED  BY <2>2, <3>1, <3>2, AppendProperties
  <2>3. QED  BY <2>1, <2>2
<1>3. \A f : Passed(f)' => Passed(f) \/ f = 0
  BY <1>2 DEF Passed, Text
<1>4. OrderInv'
  <2>1. ASSUME NEW k \in get .. tail - 1
        PROVE  /\ At(k)[1] \in 1 .. Settled /\ At(k)[3] >= 2
               /\ At(k)[2] = 1 => \A f \in 0 .. MaxPackets : Passed(f)' => f < At(k)[1]
    <3>1. At(k)[1] \in 1 .. Settled /\ At(k)[3] >= 2
      BY DEF OrderInv
    <3>2. 0 < At(k)[1]
      BY <1>1, <3>1
    <3>3. QED  BY <1>3, <3>1, <3>2 DEF OrderInv
  <2>2. \A k, l \in get .. tail - 1 :
          k < l /\ At(k)[2] = 1 /\ At(l)[2] = 1 => At(k)[1] < At(l)[1]
    BY DEF OrderInv
  <2>3. QED  BY <1>1, <2>1, <2>2 DEF OrderInv
<1>5. AccInv'
  BY <1>1, <1>2 DEF AccInv, Text
<1>6. QED  BY <1>4, <1>5
-----------------------------------------------------------------------------
(* The refinement *)

\* main copies a byte to a free place.
LEMMA CopyIs ==
  ASSUME TypeOK, MainInv, MainCopy, main.at + main.part <= get + TxSize,
         NEW k \in Nat, k = main.got - main.part + main.copied + 1,
         NEW at \in Nat, at = main.at + main.copied
  PROVE  /\ mem'[at % TxSize] = <<main.p, k, main.n>>
         /\ \A q \in Nat : get <= q /\ q < at => mem'[q % TxSize] = At(q)
<1>1. TxSize \in Nat /\ TxSize > 0 /\ get \in Nat
  BY TxAssumption DEF TypeOK
<1>2. main.at \in Nat /\ main.part \in Nat /\ main.copied \in Nat
  BY DEF MainInv, Thread
<1>3. mem' = Written(main.p, main.n, at, k, k) /\ main.copied < main.part
  BY DEF MainCopy
<1>4. k < k + TxSize /\ k \in k .. k /\ at + k - k = at
  BY <1>1
<1>5. Holds(mem', main.p, main.n, at, k, k)
  BY <1>1, <1>3, <1>4, WrittenThere
<1>6. mem'[at % TxSize] = <<main.p, k, main.n>>
  BY <1>4, <1>5 DEF Holds
<1>7. ASSUME NEW q \in Nat, get <= q, q < at PROVE mem'[q % TxSize] = At(q)
  <2>1. at + k - k < q + TxSize
    BY <1>1, <1>2, <1>3, <1>4, <1>7
  <2>2. Written(main.p, main.n, at, k, k)[q % TxSize] = mem[q % TxSize]
    BY <1>1, <1>7, <2>1, WrittenElsewhere
  <2>3. QED  BY <1>3, <2>2 DEF At
<1>8. QED  BY <1>6, <1>7

\* What main has copied is one byte more.
LEMMA CopyMore ==
  ASSUME Sound, MainInv, MainCopy, head = tail + main.got, main.at = head - main.part,
         \A j \in 1 .. main.got - main.part + main.copied :
           At(tail + j - 1) = <<main.p, j, main.n>>
  PROVE  /\ \A j \in 1 .. main.got - main.part + main.copied + 1 :
              mem'[(tail + j - 1) % TxSize] = <<main.p, j, main.n>>
         /\ \A q \in get .. tail - 1 : mem'[q % TxSize] = At(q)
<1>1. /\ get \in Nat /\ tail \in Nat /\ head \in Nat /\ TxSize \in Nat /\ TxSize > 0
      /\ get <= tail /\ tail <= head /\ head <= get + TxSize /\ TypeOK
  BY Positions DEF Sound
<1>2. /\ main.got \in Nat /\ main.at \in Nat /\ main.part \in Nat /\ main.copied \in Nat
      /\ main.part <= main.got /\ main.copied < main.part
  BY DEF MainInv, Thread, MainCopy
<1>3. PICK k \in Nat : k = main.got - main.part + main.copied + 1
  BY <1>2
<1>4. PICK at \in Nat : at = main.at + main.copied
  BY <1>2
<1>5. at = tail + k - 1 /\ tail <= at /\ main.at + main.part <= get + TxSize /\ k >= 1
  BY <1>1, <1>2, <1>3, <1>4
<1>6. /\ mem'[at % TxSize] = <<main.p, k, main.n>>
      /\ \A q \in Nat : get <= q /\ q < at => mem'[q % TxSize] = At(q)
  BY <1>1, <1>3, <1>4, <1>5, CopyIs
<1>7. ASSUME NEW j \in 1 .. k PROVE mem'[(tail + j - 1) % TxSize] = <<main.p, j, main.n>>
  <2>1. CASE j = k
    BY <1>5, <1>6, <2>1
  <2>2. CASE j < k
    <3>1. j \in 1 .. main.got - main.part + main.copied
      BY <1>2, <1>3, <2>2
    <3>2. tail + j - 1 \in Nat /\ get <= tail + j - 1 /\ tail + j - 1 < at
      BY <1>1, <1>5, <2>2
    <3>3. QED  BY <1>6, <3>1, <3>2
  <2>3. QED  BY <2>1, <2>2
<1>8. ASSUME NEW q \in get .. tail - 1 PROVE mem'[q % TxSize] = At(q)
  <2>1. q \in Nat /\ get <= q /\ q < at
    BY <1>1, <1>5
  <2>2. QED  BY <1>6, <2>1
<1>9. QED  BY <1>3, <1>7, <1>8

\* main copies a byte behind those it has copied and short of what is not sent.
LEMMA CopyStep ==
  ASSUME Sound, MainInv, ClaimInv, OrderInv, AccInv, MainCopy
  PROVE  ClaimInv' /\ OrderInv' /\ AccInv'
<1>1. /\ main \in Thread /\ main.got \in Nat /\ main.part \in Nat /\ main.copied \in Nat
      /\ main.part <= main.got
  BY DEF MainInv, Thread, MainCopy
<1>2. /\ main.pc = "copy" /\ main' = [main EXCEPT !.copied = main.copied + 1]
      /\ UNCHANGED <<get, tail, head, packets, acc, last>>
  BY DEF MainCopy, host
<1>3. /\ main.p = packets /\ main.n >= 2
      /\ head = tail + main.got /\ main.at = head - main.part
      /\ \A j \in 1 .. main.got - main.part + main.copied :
           At(tail + j - 1) = <<main.p, j, main.n>>
  BY <1>2 DEF ClaimInv, Claiming, Ready
<1>4. /\ main'.pc = "copy" /\ main'.p = main.p /\ main'.n = main.n /\ main'.got = main.got
      /\ main'.at = main.at /\ main'.part = main.part /\ main'.copied = main.copied + 1
  BY <1>1, <1>2 DEF Thread
<1>5. /\ \A j \in 1 .. main.got - main.part + main.copied + 1 :
           mem'[(tail + j - 1) % TxSize] = <<main.p, j, main.n>>
      /\ \A q \in get .. tail - 1 : mem'[q % TxSize] = At(q)
  BY <1>3, CopyMore
<1>6. Ready' = main.got - main.part + main.copied + 1
  BY <1>1, <1>4 DEF Ready
<1>7. ClaimInv'
  BY <1>2, <1>3, <1>4, <1>5, <1>6 DEF ClaimInv, Claiming, At
<1>8. Settled' = Settled /\ Settled \in Nat
  BY <1>2, <1>4, SettledIs, Positions DEF Settled, Claiming
<1>9. QED  BY <1>2, <1>5, <1>7, <1>8, Still

\* main reads where its claim goes, behind what is committed.
LEMMA ClaimStep ==
  ASSUME Sound, MainInv, OrderInv, AccInv, NEW m \in Thread, m.got <= m.n, m.n >= 2,
         m.p = packets', Claim(m), UNCHANGED <<mem, get, tail, head, acc, last>>,
         head = tail + m.got,
         \A j \in 1 .. m.got : At(tail + j - 1) = <<m.p, j, m.n>>,
         packets' = Settled + 1
  PROVE  ClaimInv' /\ OrderInv' /\ AccInv'
<1>1. PICK part \in Nat :
        /\ part <= m.n - m.got /\ part <= Free
        /\ main' = [m EXCEPT !.pc = "claim", !.at = head, !.part = part, !.copied = 0]
  BY ClaimIs
<1>2. m.got \in Nat /\ tail \in Nat /\ head \in Nat /\ Settled \in Nat
  BY Positions, SettledIs DEF Thread
<1>3. /\ main'.pc = "claim" /\ main'.p = m.p /\ main'.n = m.n /\ main'.got = m.got
  BY <1>1 DEF Thread
<1>4. Ready' = m.got
  BY <1>3 DEF Ready
<1>5. ClaimInv'
  BY <1>3, <1>4 DEF ClaimInv, Claiming, At
<1>6. Settled' = Settled
  BY <1>2, <1>3 DEF Settled, Claiming
<1>7. OrderInv' /\ AccInv'
  <2>1. \A k \in get .. tail - 1 : mem'[k % TxSize] = At(k)
    BY DEF At
  <2>2. QED  BY <1>2, <1>6, <2>1, Still
<1>8. QED  BY <1>5, <1>7

\* main takes what it has found free.
LEMMA TakeStep ==
  ASSUME Sound, MainInv, ClaimInv, OrderInv, AccInv, MainTake, ~late
  PROVE  ClaimInv' /\ OrderInv' /\ AccInv'
<1>1. /\ tail \in Nat /\ head \in Nat /\ Settled \in Nat
      /\ main \in Thread /\ main.got \in Nat /\ main.part \in Nat /\ main.at \in Nat
      /\ main.copied = 0
  BY Positions, SettledIs DEF MainInv, Thread, MainTake
<1>2. main.pc = "claim" /\ main' = [main EXCEPT !.pc = "copy", !.got = main.got + main.part]
      /\ UNCHANGED <<mem, get, tail, packets, acc, last>>
  BY DEF MainTake, host
<1>3. head' = head + main.part /\ main.at = head
  BY <1>2 DEF MainTake, MainInv, ReadInv
<1>4. /\ main'.pc = "copy" /\ main'.p = main.p /\ main'.n = main.n
      /\ main'.got = main.got + main.part /\ main'.at = main.at /\ main'.part = main.part
      /\ main'.copied = main.copied
  BY <1>1, <1>2 DEF Thread
<1>5. /\ main.p = packets /\ main.n >= 2 /\ head = tail + main.got
      /\ \A j \in 1 .. main.got : At(tail + j - 1) = <<main.p, j, main.n>>
  BY <1>2 DEF ClaimInv, Claiming, Ready
<1>6. Ready' = main.got
  BY <1>1, <1>4 DEF Ready
<1>7. head' = tail' + main'.got /\ main'.at = head' - main'.part
  BY <1>1, <1>2, <1>3, <1>4, <1>5
<1>8. ClaimInv'
  BY <1>2, <1>4, <1>5, <1>6, <1>7 DEF ClaimInv, Claiming, At
<1>9. Settled' = Settled
  BY <1>2, <1>4 DEF Settled, Claiming
<1>10. \A k \in get .. tail - 1 : mem'[k % TxSize] = At(k)
  BY <1>2 DEF At
<1>11. QED  BY <1>1, <1>2, <1>8, <1>9, <1>10, Still

\* The work queue puts what it can behind what is committed.
LEMMA ReplyStep ==
  ASSUME Sound, MainInv, ClaimInv, OrderInv, AccInv, NEW r \in Lengths, ReplyPut(r),
         ~Putting
  PROVE  ClaimInv' /\ OrderInv' /\ AccInv'
<1>1. /\ get \in Nat /\ tail \in Nat /\ head \in Nat /\ TxSize \in Nat /\ TxSize > 0
      /\ get <= tail /\ tail <= head /\ head <= get + TxSize /\ TypeOK
      /\ packets \in Nat /\ r \in Nat /\ r >= 2
  BY Positions, TxAssumption DEF Sound
<1>2. Free \in Nat /\ head + Free = get + TxSize
  BY FreeIs, TxAssumption
<1>3. PICK got \in Nat : got = Least(r, Free) /\ got <= Free
  BY <1>1, <1>2, LeastIs
<1>4. PICK p \in Nat : p = packets' /\ p = packets + 1
  BY <1>1 DEF ReplyPut, Begin
<1>5. /\ mem' = Written(p, r, head, 1, got)
      /\ tail' = tail + got /\ head' = tail + got
      /\ UNCHANGED <<get, main, acc, last>>
  BY <1>3, <1>4 DEF ReplyPut, host
<1>6. head = tail /\ ~Claiming
  BY DEF ClaimInv, Putting, Claiming
<1>7. ClaimInv'
  BY <1>5, <1>6 DEF ClaimInv, Claiming
<1>8. \A j \in 1 .. got : mem'[(tail + j - 1) % TxSize] = <<p, j, r>>
  <2>1. SUFFICES ASSUME NEW j \in 1 .. got PROVE mem'[(tail + j - 1) % TxSize] = <<p, j, r>>
    OBVIOUS
  <2>2. got < 1 + TxSize
    BY <1>1, <1>2, <1>3
  <2>3. Holds(mem', p, r, head, 1, got)
    BY <1>1, <1>5, <2>2, WrittenThere
  <2>4. QED  BY <1>6, <2>3 DEF Holds
<1>9. \A k \in get .. tail - 1 : mem'[k % TxSize] = At(k)
  <2>1. SUFFICES ASSUME NEW k \in get .. tail - 1 PROVE mem'[k % TxSize] = At(k)
    OBVIOUS
  <2>2. k \in Nat /\ k < head /\ head + got - 1 < k + TxSize
    BY <1>1, <1>2, <1>3, <1>6
  <2>3. Written(p, r, head, 1, got)[k % TxSize] = mem[k % TxSize]
    BY <1>1, <2>2, WrittenElsewhere
  <2>4. QED  BY <1>5, <2>3 DEF At
<1>10. p = Settled + 1 /\ Settled' = p
  BY <1>4, <1>5, <1>6 DEF Settled, Claiming
<1>11. QED
  BY <1>1, <1>5, <1>7, <1>8, <1>9, <1>10, Committed

\* main finds what it has got claimed.
LEMMA FinishStep ==
  ASSUME Sound, MainInv, ClaimInv, OrderInv, AccInv, MainFinish
  PROVE  ClaimInv' /\ OrderInv' /\ AccInv'
<1>1. /\ tail \in Nat /\ head \in Nat /\ Settled \in Nat
      /\ main \in Thread /\ main.got \in Nat /\ main.part \in Nat
  BY Positions, SettledIs DEF MainInv, Thread
<1>2. /\ main.pc = "copy" /\ main.copied = main.part
      /\ UNCHANGED <<mem, get, tail, head, packets, acc, last>>
  BY DEF MainFinish, Copied, ring, host
<1>3. /\ main.p = packets /\ main.n >= 2 /\ head = tail + main.got
      /\ \A j \in 1 .. Ready : At(tail + j - 1) = <<main.p, j, main.n>>
  BY <1>2 DEF ClaimInv, Claiming
<1>4. main' = [main EXCEPT !.pc = "finish", !.at = tail]
  BY <1>1, <1>3 DEF MainFinish
<1>5. main'.pc = "finish" /\ main'.p = main.p /\ main'.n = main.n /\ main'.got = main.got
  BY <1>1, <1>4 DEF Thread
<1>6. Ready' = main.got /\ Ready = main.got
  BY <1>1, <1>2, <1>5 DEF Ready
<1>7. ClaimInv'
  BY <1>2, <1>3, <1>5, <1>6 DEF ClaimInv, Claiming, At
<1>8. Settled' = Settled
  BY <1>2, <1>5 DEF Settled, Claiming
<1>9. \A k \in get .. tail - 1 : mem'[k % TxSize] = At(k)
  BY <1>2 DEF At
<1>10. QED  BY <1>1, <1>2, <1>7, <1>8, <1>9, Still

\* main commits what it has copied.
LEMMA CommitStep ==
  ASSUME Sound, MainInv, ClaimInv, OrderInv, AccInv, MainCommit, ~late
  PROVE  ClaimInv' /\ OrderInv' /\ AccInv'
<1>1. /\ tail \in Nat /\ head \in Nat /\ packets \in Nat
  BY Positions
<1>2. /\ main \in Thread /\ main.p \in Nat /\ main.n \in Nat /\ main.got \in Nat
  BY DEF MainInv, Thread
<1>3. /\ main.pc = "finish" /\ main' = [main EXCEPT !.pc = "commit", !.at = tail']
      /\ UNCHANGED <<mem, get, head, packets, acc, last>>
  BY DEF MainCommit, host
<1>4. tail' = tail + main.got
  BY <1>3 DEF MainCommit, MainInv, ReadInv
<1>5. /\ main.p = packets /\ main.n >= 2 /\ head = tail + main.got
      /\ \A j \in 1 .. main.got : At(tail + j - 1) = <<main.p, j, main.n>>
  BY <1>3 DEF ClaimInv, Claiming, Ready
<1>6. main'.pc = "commit"
  BY <1>2, <1>3 DEF Thread
<1>7. ClaimInv'
  BY <1>3, <1>4, <1>5, <1>6 DEF ClaimInv, Claiming
<1>8. Settled + 1 = main.p /\ Settled' = main.p
  BY <1>1, <1>3, <1>5, <1>6 DEF Settled, Claiming
<1>9. \A j \in 1 .. main.got : mem'[(tail + j - 1) % TxSize] = <<main.p, j, main.n>>
  BY <1>3, <1>5 DEF At
<1>10. \A k \in get .. tail - 1 : mem'[k % TxSize] = At(k)
  BY <1>3 DEF At
<1>11. UNCHANGED <<get, acc, last>>
  BY <1>3
<1>12. QED
  BY <1>2, <1>4, <1>5, <1>7, <1>8, <1>9, <1>10, <1>11, Committed

LEMMA InitUnlessRaced == Init => UnlessRaced
<1> SUFFICES ASSUME Init PROVE UnlessRaced
  OBVIOUS
<1>1. main.pc = "idle" /\ head = tail /\ get = 0 /\ tail = 0 /\ last = 0 /\ acc = <<>> /\ packets = 0
  BY DEF Init, NotSending
<1>2. QED  BY <1>1 DEF UnlessRaced, ClaimInv, OrderInv, AccInv, Settled, Claiming

LEMMA UnlessRacedStep ==
  Sound /\ MainInv /\ UnlessRaced /\ [Next]_vars => UnlessRaced'
<1> SUFFICES ASSUME Sound, MainInv, UnlessRaced, [Next]_vars, ~raced'
             PROVE  ClaimInv' /\ OrderInv' /\ AccInv'
  BY DEF UnlessRaced
<1>1. /\ packets \in Nat /\ tail \in Nat /\ head \in Nat /\ Settled \in Nat
  BY Positions, SettledIs
<1>2. \A n \in Lengths : n \in Nat /\ n >= 2
  BY TxAssumption
<1>3. ASSUME ~raced PROVE ClaimInv /\ OrderInv /\ AccInv
  BY <1>3 DEF UnlessRaced
<1>0. ~raced => ~late
  BY DEF MainInv
<1>4. ASSUME ~raced, UNCHANGED <<mem, get, tail, head, acc, last, packets>>,
             UNCHANGED main \/ (~Claiming /\ ~Claiming')
      PROVE  ClaimInv' /\ OrderInv' /\ AccInv'
  <2>1. Settled' = Settled
    BY <1>4 DEF Settled, Claiming
  <2>2. ClaimInv'
    BY <1>3, <1>4 DEF ClaimInv, Claiming, Ready, At
  <2>3. \A k \in get .. tail - 1 : mem'[k % TxSize] = At(k)
    BY <1>4 DEF At
  <2>4. UNCHANGED <<get, tail, acc, last>>
    BY <1>4
  <2>5. QED  BY <1>1, <1>3, <1>4, <2>1, <2>2, <2>3, <2>4, Still
<1>5. ASSUME NEW n \in Lengths, MainPut(n) PROVE ClaimInv' /\ OrderInv' /\ AccInv'
  <2>1. /\ main.pc = "idle" /\ raced' = raced /\ packets' = packets + 1
        /\ UNCHANGED <<mem, get, tail, head, acc, last>>
        /\ Claim([NotSending EXCEPT !.p = packets', !.n = n])
    BY <1>5 DEF MainPut, Begin, host, ring, races
  <2>2. PICK p \in Nat : p = packets'
    BY <1>1, <2>1
  <2>3. PICK m : m = [NotSending EXCEPT !.p = p, !.n = n]
    OBVIOUS
  <2>4. m \in Thread /\ m.got = 0 /\ m.n = n /\ m.p = p
    BY <1>2, <2>3 DEF NotSending, Thread
  <2>5. Claim(m)
    BY <2>1, <2>2, <2>3
  <2>6. ClaimInv /\ OrderInv /\ AccInv
    BY <1>3, <2>1
  <2>7. head = tail + m.got /\ packets' = Settled + 1
    BY <1>1, <2>1, <2>4, <2>6 DEF ClaimInv, Claiming, Settled
  <2>8. \A j \in 1 .. m.got : At(tail + j - 1) = <<m.p, j, m.n>>
    BY <2>4
  <2>9. m.got <= m.n /\ m.n >= 2 /\ m.p = packets'
    BY <1>2, <2>2, <2>4
  <2>10. QED  BY <2>1, <2>4, <2>5, <2>6, <2>7, <2>8, <2>9, ClaimStep
<1>6. CASE MainTake
  BY <1>0, <1>3, <1>6, TakeStep DEF MainTake
<1>7. CASE MainCopy
  BY <1>3, <1>7, CopyStep DEF MainCopy, races
<1>8. CASE MainClaim
  <2>1. /\ main.pc = "copy" /\ main.copied = main.part /\ main.got < main.n
        /\ raced' = raced /\ packets' = packets /\ Claim(main)
        /\ UNCHANGED <<mem, get, tail, head, acc, last>>
    BY <1>8 DEF MainClaim, Copied, host, ring, races
  <2>2. ClaimInv /\ OrderInv /\ AccInv
    BY <1>3, <2>1
  <2>3. /\ main.p = packets /\ main.n >= 2 /\ head = tail + main.got
        /\ \A j \in 1 .. Ready : At(tail + j - 1) = <<main.p, j, main.n>>
    BY <2>1, <2>2 DEF ClaimInv, Claiming
  <2>4. main \in Thread /\ main.got \in Nat /\ main.n \in Nat /\ main.part \in Nat
    BY DEF MainInv, Thread
  <2>5. Ready = main.got
    BY <2>1, <2>4 DEF Ready
  <2>6. main.got <= main.n /\ packets' = Settled + 1 /\ main.p = packets'
    BY <1>1, <2>1, <2>3, <2>4 DEF Settled, Claiming
  <2>7. \A j \in 1 .. main.got : At(tail + j - 1) = <<main.p, j, main.n>>
    BY <2>3, <2>5
  <2>8. QED  BY <2>1, <2>2, <2>3, <2>4, <2>6, <2>7, ClaimStep
<1>9. CASE MainFinish
  BY <1>3, <1>9, FinishStep DEF MainFinish, races
<1>10. CASE MainCommit
  BY <1>0, <1>3, <1>10, CommitStep DEF MainCommit
<1>11. CASE MainForget
  <2>1. /\ ~raced /\ main.pc = "commit" /\ main \in Thread
        /\ main' = [main EXCEPT !.pc = "enable"]
        /\ UNCHANGED <<mem, get, tail, acc, last, packets>>
    BY <1>11 DEF MainForget, MainInv, host
  <2>2. main'.pc = "enable" /\ ~Claiming /\ ~Claiming'
    BY <2>1 DEF Thread, Claiming
  <2>3. head' = head
    <3>1. head' = tail
      BY <1>0, <1>11, <2>1 DEF MainForget, MainInv, ReadInv
    <3>2. QED  BY <1>3, <2>1, <2>2, <3>1 DEF ClaimInv
  <2>4. QED  BY <1>4, <2>1, <2>2, <2>3
<1>12. CASE MainEnable
  <2>1. ~Claiming /\ ~Claiming'
    BY <1>12 DEF MainEnable, NotSending, Claiming
  <2>2. QED  BY <1>4, <1>12, <2>1 DEF MainEnable, ring, host, races
<1>13. ASSUME NEW n \in Lengths, ReplyPut(n) PROVE ClaimInv' /\ OrderInv' /\ AccInv'
  <2>1. ~raced /\ ~Putting
    BY <1>13 DEF ReplyPut, Putting
  <2>2. QED  BY <1>3, <1>13, <2>1, ReplyStep
<1>14. CASE ReplyEnable \/ IsrEmpty \/ UNCHANGED vars
  <2>1. ~raced /\ UNCHANGED <<mem, get, tail, head, acc, last, packets>> /\ UNCHANGED main
    BY <1>14 DEF ReplyEnable, IsrEmpty, vars, ring, host, races
  <2>2. QED  BY <1>4, <2>1
<1>15. CASE IsrSend
  <2>1. /\ ~raced /\ get < tail /\ HostReads(At(get)) /\ get' = get + 1
        /\ UNCHANGED <<mem, tail, head, main, packets>>
    BY <1>15 DEF IsrSend, At, races
  <2>2. ClaimInv /\ OrderInv /\ AccInv
    BY <1>3, <2>1
  <2>3. ClaimInv'
    BY <2>1, <2>2 DEF ClaimInv, Claiming, Ready, At
  <2>4. QED  BY <2>1, <2>2, <2>3, ReadStep
<1>16. CASE Console
  <2>1. /\ ~raced /\ acc' = Append(acc, Text)
        /\ UNCHANGED <<mem, get, tail, head, main, packets, last>>
    BY <1>16 DEF Console, ring, races
  <2>2. ClaimInv /\ OrderInv /\ AccInv
    BY <1>3, <2>1
  <2>3. ClaimInv'
    BY <2>1, <2>2 DEF ClaimInv, Claiming, Ready, At
  <2>4. QED  BY <2>1, <2>2, <2>3, TextStep
<1>17. QED
  BY <1>5, <1>6, <1>7, <1>8, <1>9, <1>10, <1>11, <1>12, <1>13, <1>14, <1>15, <1>16
     DEF Next, Main, MainWorks, Reply, Isr, Outside

LEMMA ChannelStep ==
  ASSUME Sound, MainInv, UnlessRaced, [Next]_vars, ~raced'
  PROVE  Path!Next \/ UNCHANGED Path!vars
<1>1. CASE (\E n \in Lengths : MainPut(n)) \/ (\E n \in Lengths : ReplyPut(n))
  <2>1. Path!Send
    BY <1>1 DEF MainPut, ReplyPut, Begin, host, Path!Send
  <2>2. QED  BY <2>1 DEF Path!Next
<1>2. CASE IsrSend
  <2>1. /\ ~raced /\ get < tail /\ HostReads(At(get)) /\ packets' = packets
    BY <1>2 DEF IsrSend, At, races
  <2>2. \/ UNCHANGED <<last, turn>>
        \/ turn' = ~turn /\ last < last' /\ last' <= Settled
    BY <2>1, ReadIs DEF UnlessRaced
  <2>3. CASE UNCHANGED <<last, turn>>
    BY <2>1, <2>3 DEF Path!vars
  <2>4. CASE turn' = ~turn /\ last < last' /\ last' <= Settled
    <3>1. Settled \in 0 .. packets /\ packets \in Nat /\ last \in Nat
      BY SettledIs, Positions
    <3>2. last' \in Nat
      BY OrderStep, TxAssumption DEF TypeOK
    <3>3. last' \in (last + 1) .. packets
      BY <2>4, <3>1, <3>2
    <3>4. Path!Deliver
      BY <2>1, <2>4, <3>3 DEF Path!Deliver
    <3>5. QED  BY <3>4 DEF Path!Next
  <2>5. QED  BY <2>2, <2>3, <2>4
<1>3. CASE MainWorks \/ ReplyEnable \/ IsrEmpty \/ Console \/ UNCHANGED vars
  BY <1>3 DEF MainWorks, MainTake, MainCopy, MainClaim, MainFinish, MainCommit, MainForget, MainEnable,
              ReplyEnable, IsrEmpty, Console, vars, host, Path!vars
<1>4. QED
  BY <1>1, <1>2, <1>3 DEF Next, Main, Reply, Isr, Outside

\* As long as no reply is put while main is in ring_buf_put, what the host accepts
\* from the port is what send_packet was given, in order and at most once, however
\* full the ring and whatever console text comes between.
THEOREM InOrderCorrect == Spec => InOrderUnlessRaced
<1>1. IInv /\ UnlessRaced /\ [Next]_vars
        => UnlessRaced' /\ [raced' \/ Path!Next \/ UNCHANGED Path!vars]_vars
  <2>1. SUFFICES ASSUME IInv, UnlessRaced, [Next]_vars
                 PROVE  UnlessRaced' /\ [raced' \/ Path!Next \/ UNCHANGED Path!vars]_vars
    OBVIOUS
  <2>2. CASE torn
    <3>1. UNCHANGED vars
      BY <2>1, <2>2, TornStep
    <3>2. UnlessRaced'
      BY <2>1, <3>1 DEF UnlessRaced, ClaimInv, OrderInv, AccInv, Settled, Claiming, Ready, Passed, At, vars
    <3>3. QED  BY <3>1, <3>2
  <2>3. CASE ~torn
    BY <2>1, <2>3, UnlessRacedStep, ChannelStep DEF IInv, Sound
  <2>4. QED  BY <2>2, <2>3
<1>2. Spec => []UnlessRaced
  BY <1>1, Inductive, InitUnlessRaced, PTL DEF Spec
<1>3. QED
  BY <1>1, <1>2, Inductive, PTL DEF Spec, InOrderUnlessRaced
-----------------------------------------------------------------------------
(* Damage: races, full buffers and console text *)

\* A packet put now follows a delimiter, or nothing at all; console text aside.
CleanEnd ==
  IF get < tail THEN IsDelimiter(At(tail - 1)) ELSE noise \/ acc = <<>>

\* The same of packet p, n bytes long, from position s on: all that the host has is
\* what has left of it.
Clean(p, s, n) ==
  IF get < s
  THEN IsDelimiter(At(s - 1))
  ELSE noise \/ (Len(acc) = get - s /\ \A i \in 1 .. get - s : acc[i] = <<p, i, n>>)

\* A reply put during a put of main spoils both and the next packet, before which the
\* claims and what is committed agree again.
SpoiledInv ==
  /\ spoiled \subseteq 1 .. packets + 1
  /\ packets + 1 \in spoiled => packets \in spoiled /\ (Putting => main.p \in spoiled)
  /\ packets + 1 \notin spoiled =>
       /\ Putting  => main.p = packets
       /\ Claiming => main.got <= head - tail
       /\ ~Putting => head = tail

\* A put that nothing has spoiled writes behind what is committed ...
OwnInv ==
  /\ main.n >= 2 /\ head = tail + main.got
  /\ main.pc = "copy" => main.at = head - main.part
  /\ main.pc = "finish" => main.got = main.n
  /\ \A j \in 1 .. Ready : At(tail + j - 1) = <<main.p, j, main.n>>
  /\ \A k \in get .. tail - 1 : At(k)[1] < main.p
  /\ main.p - 1 \notin spoiled => CleanEnd

\* ... and a spoiled one writes nowhere before that.
PutInv ==
  /\ \A x \in 0 .. TxSize - 1 : mem[x][1] <= packets
  /\ main.pc = "copy" => main.at + main.part <= get + TxSize
  /\ Claiming /\ main.p \notin spoiled => OwnInv
  /\ ~Claiming /\ packets \notin spoiled => CleanEnd

\* Packet p, n bytes long, is committed from position s on, and has not left.
Segment(p, s, n) ==
  /\ n >= 2 /\ s + n \in (get + 1) .. tail
  /\ main.pc = "copy" => s + n <= main.at
  /\ \A k \in get .. s - 1 : At(k)[1] < p
  /\ \A k \in get .. s + n - 1 : s <= k => At(k) = <<p, k - s + 1, n>>
  /\ p - 1 \notin spoiled => Clean(p, s, n)

\* A packet that is put, whole.
Kept(p) == p \notin spoiled /\ ~(Claiming /\ main.p = p)

WholeInv ==
  \A p \in judged + 1 .. packets : Kept(p) => \E s, n \in Nat : Segment(p, s, n)

DamageInv == SpoiledInv /\ PutInv /\ WholeInv /\ wrongly = {}

LEMMA Shapes ==
  ASSUME Sound, MainInv
  PROVE  /\ get \in Nat /\ tail \in Nat /\ head \in Nat /\ TxSize \in Nat /\ TxSize > 0
         /\ get <= tail /\ tail <= head /\ head <= get + TxSize
         /\ packets \in Nat /\ judged \in Nat /\ mem \in [0 .. TxSize - 1 -> Bytes]
         /\ acc \in Seq(Bytes) /\ noise \in BOOLEAN
         /\ main \in Thread /\ main.p \in Nat /\ main.n \in Nat /\ main.got \in Nat
         /\ main.at \in Nat /\ main.part \in Nat /\ main.copied \in Nat
         /\ main.got <= main.n /\ (main.pc # "idle" => main.p \in 1 .. packets)
         /\ (main.pc = "copy" => main.part <= main.got)
         /\ \A k \in Nat : At(k) \in Bytes /\ k % TxSize \in 0 .. TxSize - 1
<1>1. TxSize \in Nat /\ TxSize > 0 /\ MaxPackets \in Nat /\ TypeOK
  BY TxAssumption DEF Sound
<1>2. \A k \in Nat : k % TxSize \in 0 .. TxSize - 1
  BY <1>1, Remainder
<1>3. mem \in [0 .. TxSize - 1 -> Bytes]
  BY <1>1 DEF TypeOK
<1>4. \A k \in Nat : At(k) \in Bytes
  BY <1>2, <1>3 DEF At
<1>5. packets \in Nat /\ judged \in Nat /\ acc \in Seq(Bytes) /\ noise \in BOOLEAN
  BY <1>1 DEF TypeOK
<1>6. /\ get \in Nat /\ tail \in Nat /\ head \in Nat
      /\ get <= tail /\ tail <= head /\ head <= get + TxSize
  BY Positions
<1>7. /\ main \in Thread /\ main.p \in Nat /\ main.n \in Nat /\ main.got \in Nat
      /\ main.at \in Nat /\ main.part \in Nat /\ main.copied \in Nat
      /\ main.got <= main.n /\ (main.pc # "idle" => main.p \in 1 .. packets)
      /\ (main.pc = "copy" => main.part <= main.got)
  BY DEF MainInv, Thread
<1>8. QED  BY <1>1, <1>2, <1>3, <1>4, <1>5, <1>6, <1>7

\* No byte in the memory is of a packet not begun.
LEMMA Begun ==
  ASSUME Sound, MainInv, PutInv, NEW k \in Nat
  PROVE  At(k)[1] \in 0 .. packets
<1>1. k % TxSize \in 0 .. TxSize - 1 /\ At(k) \in Bytes /\ packets \in Nat
  BY Shapes
<1>2. At(k)[1] \in Nat
  BY <1>1, Thing, TxAssumption
<1>3. At(k)[1] <= packets
  BY <1>1 DEF PutInv, At
<1>4. QED  BY <1>1, <1>2, <1>3

\* A packet stays where it is put as long as nothing is written there and nothing
\* leaves.
LEMMA SegmentStays ==
  ASSUME NEW p \in Nat, NEW s \in Nat, NEW n \in Nat, Segment(p, s, n),
         get \in Nat, tail \in Nat, tail' \in Nat, tail <= tail', UNCHANGED <<get, acc, noise>>,
         spoiled \subseteq spoiled', main'.pc = "copy" => s + n <= main'.at,
         \A k \in get .. s + n - 1 : mem'[k % TxSize] = At(k)
  PROVE  Segment(p, s, n)'
<1>1. \A k \in get .. s + n - 1 : At(k)' = At(k)
  BY DEF At
<1>2. n >= 2 /\ s + n \in (get' + 1) .. tail'
  BY DEF Segment
<1>3. \A k \in get .. s - 1 : k \in get .. s + n - 1
  BY <1>2
<1>4. \A k \in get' .. s - 1 : At(k)'[1] < p
  BY <1>1, <1>3 DEF Segment
<1>5. \A k \in get' .. s + n - 1 : s <= k => At(k)' = <<p, k - s + 1, n>>
  BY <1>1 DEF Segment
<1>6. ASSUME p - 1 \notin spoiled' PROVE Clean(p, s, n)'
  <2>1. Clean(p, s, n)
    BY <1>6 DEF Segment
  <2>2. CASE get < s
    <3>1. s - 1 \in get .. s + n - 1
      BY <1>2, <2>2
    <3>2. At(s - 1)' = At(s - 1)
      BY <1>1, <3>1
    <3>3. QED  BY <2>1, <2>2, <3>2 DEF Clean
  <2>3. CASE ~(get < s)
    BY <2>1, <2>3 DEF Clean
  <2>4. QED  BY <2>2, <2>3
<1>7. QED  BY <1>2, <1>4, <1>5, <1>6 DEF Segment

LEMMA WholeStays ==
  ASSUME WholeInv, Sound, MainInv, UNCHANGED <<get, acc, noise, judged>>,
         tail' \in Nat, tail <= tail', packets' \in Nat, spoiled \subseteq spoiled',
         main'.pc = "copy" => (main.pc = "copy" /\ main'.at = main.at)
                              \/ (main'.at \in Nat /\ tail <= main'.at),
         \A k \in get .. tail - 1 :
           (main.pc = "copy" => k < main.at) => mem'[k % TxSize] = At(k),
         \A p \in judged + 1 .. packets' :
           Kept(p)' => \/ p <= packets /\ Kept(p)
                      \/ \E s, n \in Nat : Segment(p, s, n)'
  PROVE  WholeInv'
<1>1. get \in Nat /\ tail \in Nat /\ judged \in Nat /\ packets \in Nat /\ main.at \in Nat
  BY Shapes
<1>2. ASSUME NEW p \in judged + 1 .. packets', Kept(p)'
      PROVE  \E s, n \in Nat : Segment(p, s, n)'
  <2>1. CASE p <= packets /\ Kept(p)
    <3>1. p \in judged + 1 .. packets /\ p \in Nat
      BY <1>1, <2>1
    <3>2. PICK s \in Nat, n \in Nat : Segment(p, s, n)
      BY <2>1, <3>1 DEF WholeInv
    <3>3. s + n <= tail /\ (main.pc = "copy" => s + n <= main.at)
      BY <1>1, <3>2 DEF Segment
    <3>4. main'.pc = "copy" => s + n <= main'.at
      BY <1>1, <3>3
    <3>5. \A k \in get .. s + n - 1 : mem'[k % TxSize] = At(k)
      <4>1. SUFFICES ASSUME NEW k \in get .. s + n - 1 PROVE mem'[k % TxSize] = At(k)
        OBVIOUS
      <4>2. k \in get .. tail - 1 /\ (main.pc = "copy" => k < main.at)
        BY <1>1, <3>3
      <4>3. QED  BY <4>2
    <3>6. Segment(p, s, n)'
      BY <1>1, <3>1, <3>2, <3>4, <3>5, SegmentStays
    <3>7. QED  BY <3>6
  <2>2. QED  BY <1>2, <2>1
<1>3. judged' = judged
  OBVIOUS
<1>4. QED  BY <1>2, <1>3 DEF WholeInv

\* The packet before ends in its delimiter, which is what CleanEnd says.
LEMMA EndStays ==
  ASSUME CleanEnd, get \in Nat, tail \in Nat, UNCHANGED <<get, tail, acc, noise>>,
         \A k \in get .. tail - 1 : mem'[k % TxSize] = At(k)
  PROVE  CleanEnd'
<1>1. CASE get < tail
  <2>1. tail - 1 \in get .. tail - 1
    BY <1>1
  <2>2. At(tail - 1)' = At(tail - 1)
    BY <2>1 DEF At
  <2>3. QED  BY <1>1, <2>2 DEF CleanEnd
<1>2. CASE ~(get < tail)
  BY <1>2 DEF CleanEnd
<1>3. QED  BY <1>1, <1>2
\* main, in state m, reads where its next part goes, in the put of the latest packet
\* unless that is spoiled.
LEMMA DamageClaim ==
  ASSUME Sound, MainInv, PutInv, WholeInv, NEW m \in Thread, m.got <= m.n, Claim(m),
         UNCHANGED <<mem, get, tail, head, acc, noise, spoiled, judged>>,
         packets' \in Nat, packets <= packets',
         spoiled \subseteq 1 .. packets' + 1,
         packets' + 1 \in spoiled => packets' \in spoiled /\ m.p \in spoiled,
         packets' + 1 \notin spoiled => m.p = packets' /\ m.got <= head - tail,
         m.p \notin spoiled =>
           /\ m.n >= 2 /\ head = tail + m.got
           /\ \A j \in 1 .. m.got : At(tail + j - 1) = <<m.p, j, m.n>>
           /\ \A k \in get .. tail - 1 : At(k)[1] < m.p
           /\ m.p - 1 \notin spoiled => CleanEnd,
         \A p \in judged + 1 .. packets' : p \notin spoiled /\ p # m.p => p <= packets /\ Kept(p)
  PROVE  SpoiledInv' /\ PutInv' /\ WholeInv'
<1>1. PICK part \in Nat :
        /\ part <= m.n - m.got /\ part <= Free
        /\ main' = [m EXCEPT !.pc = "claim", !.at = head, !.part = part, !.copied = 0]
  BY ClaimIs
<1>2. /\ get \in Nat /\ tail \in Nat /\ head \in Nat /\ TxSize \in Nat /\ TxSize > 0
      /\ get <= tail /\ tail <= head /\ packets \in Nat /\ m.got \in Nat
  BY Shapes DEF Thread
<1>3. /\ main'.pc = "claim" /\ main'.p = m.p /\ main'.n = m.n /\ main'.got = m.got
  BY <1>1 DEF Thread
<1>4. Claiming' /\ Putting' /\ Ready' = m.got
  BY <1>3 DEF Claiming, Putting, Ready
<1>5. UNCHANGED <<mem, get, tail, head, acc, noise, spoiled, judged>>
  OBVIOUS
<1>6. SpoiledInv'
  BY <1>3, <1>4, <1>5 DEF SpoiledInv
<1>7. \A k : At(k)' = At(k)
  BY <1>5 DEF At
<1>8. ASSUME m.p \notin spoiled PROVE OwnInv'
  <2>1. head' = tail' + main'.got
    BY <1>3, <1>5, <1>8
  <2>2. \A j \in 1 .. m.got : At(tail + j - 1)' = <<m.p, j, m.n>>
    <3>1. tail' = tail /\ mem' = mem
      BY <1>5
    <3>2. \A j \in 1 .. m.got : At(tail + j - 1) = <<m.p, j, m.n>>
      BY <1>8
    <3>3. QED  BY <3>1, <3>2 DEF At
  <2>3. CleanEnd => CleanEnd'
    BY <1>2, <1>5, <1>7, EndStays DEF At
  <2>4. \A k \in get' .. tail' - 1 : At(k)'[1] < m.p
    BY <1>5, <1>7, <1>8
  <2>5. QED  BY <1>3, <1>4, <1>5, <1>8, <2>1, <2>2, <2>3, <2>4 DEF OwnInv
<1>9. \A x \in 0 .. TxSize - 1 : mem'[x][1] <= packets'
  <2>1. SUFFICES ASSUME NEW x \in 0 .. TxSize - 1 PROVE mem[x][1] <= packets'
    BY <1>5
  <2>2. mem[x][1] <= packets /\ mem[x] \in Bytes
    BY Shapes DEF PutInv
  <2>3. mem[x][1] \in Nat
    BY <2>2, Thing, TxAssumption
  <2>4. QED  BY <1>2, <2>2, <2>3
<1>10. PutInv'
  BY <1>3, <1>4, <1>5, <1>8, <1>9 DEF PutInv
<1>11. ASSUME NEW p \in judged + 1 .. packets', Kept(p)'
       PROVE  p <= packets /\ Kept(p)
  BY <1>3, <1>4, <1>5, <1>11 DEF Kept
<1>12. \A k \in get .. tail - 1 : mem'[k % TxSize] = At(k)
  BY <1>5 DEF At
<1>13. WholeInv'
  BY <1>2, <1>3, <1>5, <1>11, <1>12, WholeStays
<1>14. QED  BY <1>6, <1>10, <1>13

\* main takes what it has found free.
LEMMA DamageTake ==
  ASSUME Sound, MainInv, SpoiledInv, PutInv, WholeInv, MainTake, ~late
  PROVE  SpoiledInv' /\ PutInv' /\ WholeInv'
<1>1. /\ get \in Nat /\ tail \in Nat /\ head \in Nat /\ tail <= head
      /\ packets \in Nat /\ judged \in Nat
      /\ main \in Thread /\ main.got \in Nat /\ main.part \in Nat /\ main.at \in Nat
      /\ main.got + main.part \in Nat
  <2>1. /\ get \in Nat /\ tail \in Nat /\ head \in Nat /\ tail <= head
        /\ packets \in Nat /\ judged \in Nat
        /\ main \in Thread /\ main.got \in Nat /\ main.part \in Nat /\ main.at \in Nat
    BY Shapes
  <2>2. QED  BY <2>1
<1>2. /\ main.pc = "claim" /\ main' = [main EXCEPT !.pc = "copy", !.got = main.got + main.part]
      /\ UNCHANGED <<mem, get, tail, packets, acc, noise, judged, spoiled>>
  BY DEF MainTake, host
<1>3. /\ main.at = head /\ main.at + main.part <= get + TxSize /\ main.copied = 0
      /\ head' = head + main.part
  BY <1>2 DEF MainTake, MainInv, ReadInv
<1>4. /\ main'.pc = "copy" /\ main'.p = main.p /\ main'.n = main.n
      /\ main'.got = main.got + main.part /\ main'.at = main.at /\ main'.part = main.part
      /\ main'.copied = 0
  BY <1>1, <1>2, <1>3 DEF Thread
<1>5. Claiming /\ Claiming' /\ Putting /\ Putting' /\ Ready = main.got /\ Ready' = main.got
  BY <1>1, <1>2, <1>4 DEF Claiming, Putting, Ready
<1>6. SpoiledInv'
  <2>1. main.got <= head - tail => main'.got <= head' - tail'
    BY <1>1, <1>2, <1>3, <1>4
  <2>2. QED  BY <1>2, <1>4, <1>5, <2>1 DEF SpoiledInv
<1>7. \A k \in get .. tail - 1 : mem'[k % TxSize] = At(k)
  BY <1>2 DEF At
<1>8. CleanEnd => CleanEnd'
  BY <1>1, <1>2, <1>7, EndStays
<1>9. ASSUME main.p \notin spoiled PROVE OwnInv'
  <2>1. OwnInv
    BY <1>5, <1>9 DEF PutInv
  <2>2. head' = tail' + main'.got /\ main'.at = head' - main'.part
    BY <1>1, <1>2, <1>3, <1>4, <2>1 DEF OwnInv
  <2>3. \A j \in 1 .. Ready' : At(tail + j - 1)' = <<main.p, j, main.n>>
    BY <1>2, <1>5, <2>1 DEF OwnInv, At
  <2>4. \A k \in get .. tail - 1 : At(k)'[1] < main.p
    BY <1>2, <2>1 DEF OwnInv, At
  <2>5. QED  BY <1>2, <1>4, <1>8, <2>1, <2>2, <2>3, <2>4 DEF OwnInv
<1>10. PutInv'
  BY <1>2, <1>3, <1>4, <1>5, <1>9 DEF PutInv
<1>11. \A q \in judged + 1 .. packets' : Kept(q)' => q <= packets /\ Kept(q)
  <2>1. SUFFICES ASSUME NEW q \in judged + 1 .. packets', Kept(q)' PROVE q <= packets /\ Kept(q)
    OBVIOUS
  <2>2. q <= packets
    BY <1>1, <1>2
  <2>3. QED  BY <1>2, <1>4, <1>5, <2>1, <2>2 DEF Kept
<1>12. WholeInv'
  <2>1. /\ tail' \in Nat /\ tail <= tail' /\ packets' \in Nat /\ spoiled \subseteq spoiled'
        /\ UNCHANGED <<get, acc, noise, judged>> /\ main'.at \in Nat /\ tail <= main'.at
    BY <1>1, <1>2, <1>3, <1>4
  <2>2. QED  BY <1>7, <1>11, <2>1, WholeStays
<1>13. QED  BY <1>6, <1>10, <1>12
\* What is written is of packet p, the rest as it was.
LEMMA WrittenOf ==
  ASSUME DOMAIN mem = 0 .. TxSize - 1, NEW p, NEW n, NEW at, NEW i, NEW j, NEW x \in 0 .. TxSize - 1
  PROVE  Written(p, n, at, i, j)[x][1] = p \/ Written(p, n, at, i, j)[x] = mem[x]
<1>1. CASE \E k \in i .. j : (at + k - i) % TxSize = x
  <2>1. Written(p, n, at, i, j)[x] = <<p, CHOOSE k \in i .. j : (at + k - i) % TxSize = x, n>>
    BY <1>1 DEF Written
  <2>2. QED  BY <2>1
<1>2. CASE ~\E k \in i .. j : (at + k - i) % TxSize = x
  BY <1>2 DEF Written
<1>3. QED  BY <1>1, <1>2

LEMMA DamageCopy ==
  ASSUME Sound, MainInv, SpoiledInv, PutInv, WholeInv, MainCopy
  PROVE  SpoiledInv' /\ PutInv' /\ WholeInv'
<1>1. /\ get \in Nat /\ tail \in Nat /\ head \in Nat /\ TxSize \in Nat /\ TxSize > 0
      /\ get <= tail /\ packets \in Nat /\ mem \in [0 .. TxSize - 1 -> Bytes] /\ TypeOK
      /\ main \in Thread /\ main.got \in Nat /\ main.at \in Nat /\ main.part \in Nat
      /\ main.copied \in Nat /\ main.part <= main.got
      /\ (main.pc # "idle" => main.p \in 1 .. packets)
  BY Shapes DEF Sound, MainCopy
<1>2. PICK k \in Nat : k = main.got - main.part + main.copied + 1
  BY <1>1
<1>3. PICK at \in Nat : at = main.at + main.copied
  BY <1>1
<1>4. /\ main.pc = "copy" /\ main.copied < main.part
      /\ mem' = Written(main.p, main.n, at, k, k)
      /\ main' = [main EXCEPT !.copied = main.copied + 1]
      /\ UNCHANGED <<get, tail, head, packets, acc, noise, judged, spoiled>>
  BY <1>2, <1>3 DEF MainCopy, host
<1>5. /\ main'.pc = "copy" /\ main'.p = main.p /\ main'.n = main.n /\ main'.got = main.got
      /\ main'.at = main.at /\ main'.part = main.part /\ main'.copied = main.copied + 1
  BY <1>1, <1>4 DEF Thread
<1>0. /\ Claiming /\ Claiming' /\ Putting /\ Putting'
      /\ Ready = main.got - main.part + main.copied /\ Ready' = main.got - main.part + main.copied + 1
  <2>1. Claiming /\ Claiming' /\ Putting /\ Putting'
    BY <1>4, <1>5 DEF Claiming, Putting
  <2>2. /\ Ready = main.got - main.part + main.copied
        /\ Ready' = main.got - main.part + (main.copied + 1)
    BY <1>4, <1>5 DEF Ready
  <2>3. main.got \in Nat /\ main.part \in Nat /\ main.copied \in Nat
    BY <1>1
  <2>4. QED  BY <2>1, <2>2, <2>3
<1>6. SpoiledInv'
  BY <1>0, <1>4, <1>5 DEF SpoiledInv
<1>7. main.at + main.part <= get + TxSize
  BY <1>4 DEF PutInv
<1>8. \A q \in Nat : get <= q /\ q < at => mem'[q % TxSize] = At(q)
  BY <1>1, <1>2, <1>3, <1>7, CopyIs
<1>9. \A x \in 0 .. TxSize - 1 : mem'[x][1] <= packets'
  <2>1. SUFFICES ASSUME NEW x \in 0 .. TxSize - 1 PROVE mem'[x][1] <= packets
    BY <1>4
  <2>2. mem'[x][1] = main.p \/ mem'[x] = mem[x]
    BY <1>1, <1>4, WrittenOf
  <2>3. mem[x][1] <= packets
    BY DEF PutInv
  <2>4. main.p <= packets
    BY <1>1, <1>4
  <2>5. QED  BY <2>2, <2>3, <2>4
<1>10. ASSUME main.p \notin spoiled PROVE OwnInv'
  <2>1. /\ main.n >= 2 /\ head = tail + main.got /\ main.at = head - main.part
        /\ \A j \in 1 .. main.got - main.part + main.copied :
             At(tail + j - 1) = <<main.p, j, main.n>>
        /\ \A q \in get .. tail - 1 : At(q)[1] < main.p
        /\ main.p - 1 \notin spoiled => CleanEnd
    BY <1>0, <1>4, <1>10 DEF PutInv, OwnInv
  <2>2. /\ \A j \in 1 .. main.got - main.part + main.copied + 1 :
             mem'[(tail + j - 1) % TxSize] = <<main.p, j, main.n>>
        /\ \A q \in get .. tail - 1 : mem'[q % TxSize] = At(q)
    BY <2>1, CopyMore
  <2>3. \A j \in 1 .. Ready' : At(tail + j - 1)' = <<main'.p, j, main'.n>>
    BY <1>0, <1>4, <1>5, <2>2 DEF At
  <2>4. \A q \in get' .. tail' - 1 : At(q)'[1] < main'.p
    BY <1>4, <1>5, <2>1, <2>2 DEF At
  <2>5. CleanEnd => CleanEnd'
    BY <1>1, <1>4, <2>2, EndStays
  <2>6. QED  BY <1>4, <1>5, <2>1, <2>3, <2>4, <2>5 DEF OwnInv
<1>11. PutInv'
  BY <1>0, <1>4, <1>5, <1>7, <1>9, <1>10 DEF PutInv
<1>12. \A q \in get .. tail - 1 :
         (main.pc = "copy" => q < main.at) => mem'[q % TxSize] = At(q)
  <2>1. SUFFICES ASSUME NEW q \in get .. tail - 1, q < main.at PROVE mem'[q % TxSize] = At(q)
    BY <1>4
  <2>2. q \in Nat /\ get <= q /\ q < at
    BY <1>1, <1>3, <2>1
  <2>3. QED  BY <1>8, <2>2
<1>13. \A p \in judged + 1 .. packets' : Kept(p)' => p <= packets /\ Kept(p)
  <2>1. SUFFICES ASSUME NEW p \in judged + 1 .. packets', Kept(p)' PROVE p <= packets /\ Kept(p)
    OBVIOUS
  <2>2. judged \in Nat
    BY <1>1 DEF TypeOK
  <2>3. p <= packets
    BY <1>1, <1>4, <2>2
  <2>4. QED  BY <1>0, <1>4, <1>5, <2>1, <2>3 DEF Kept
<1>14. WholeInv'
  <2>1. tail' \in Nat /\ tail <= tail' /\ packets' \in Nat
    BY <1>1, <1>4
  <2>2. /\ spoiled \subseteq spoiled'
        /\ main.pc = "copy" /\ main'.at = main.at
    BY <1>4, <1>5
  <2>3. UNCHANGED <<get, acc, noise, judged>>
    BY <1>4
  <2>4. \A p \in judged + 1 .. packets' :
          Kept(p)' => \/ p <= packets /\ Kept(p)
                     \/ \E s, n \in Nat : Segment(p, s, n)'
    BY <1>13
  <2>5. QED  BY <1>12, <2>1, <2>2, <2>3, <2>4, WholeStays
<1>15. QED  BY <1>6, <1>11, <1>14
\* A packet committed whole is in its place, at the end.
LEMMA NewSegment ==
  ASSUME Sound, MainInv, UNCHANGED <<get, acc, noise>>,
         NEW p \in Nat, NEW n \in Nat, n >= 2, tail' = tail + n, main'.pc # "copy",
         \A k \in get .. tail - 1 : At(k)[1] < p /\ mem'[k % TxSize] = At(k),
         \A j \in 1 .. n : mem'[(tail + j - 1) % TxSize] = <<p, j, n>>,
         p - 1 \notin spoiled' => CleanEnd
  PROVE  (\E s \in Nat : Segment(p, s, n)') /\ CleanEnd'
<1>1. get \in Nat /\ tail \in Nat /\ get <= tail /\ acc \in Seq(Bytes)
  BY Shapes
<1>2. PICK s \in Nat : s = tail
  BY <1>1
<1>3. n >= 2 /\ s + n \in (get' + 1) .. tail'
  BY <1>1, <1>2
<1>4. get' = get /\ \A k \in get .. s - 1 : At(k)'[1] < p
  BY <1>2 DEF At
<1>5. \A k \in get .. s + n - 1 : s <= k => At(k)' = <<p, k - s + 1, n>>
  <2>1. SUFFICES ASSUME NEW k \in get .. s + n - 1, s <= k PROVE At(k)' = <<p, k - s + 1, n>>
    OBVIOUS
  <2>2. k - s + 1 \in 1 .. n /\ s + (k - s + 1) - 1 = k
    BY <1>1, <1>2, <2>1
  <2>3. mem'[(s + (k - s + 1) - 1) % TxSize] = <<p, k - s + 1, n>>
    BY <1>2, <2>2
  <2>4. QED  BY <2>2, <2>3 DEF At
<1>6. ASSUME CleanEnd PROVE Clean(p, s, n)'
  <2>1. CASE get < s
    <3>1. s - 1 \in get .. s - 1 /\ IsDelimiter(At(s - 1))
      BY <1>1, <1>2, <1>6, <2>1 DEF CleanEnd
    <3>2. At(s - 1)' = At(s - 1)
      BY <1>2, <3>1 DEF At
    <3>3. QED  BY <2>1, <3>1, <3>2 DEF Clean
  <2>2. CASE ~(get < s)
    <3>1. get - s = 0 /\ (noise \/ acc = <<>>)
      BY <1>1, <1>2, <1>6, <2>2 DEF CleanEnd
    <3>2. noise' \/ acc' = <<>>
      BY <3>1
    <3>3. QED  BY <1>4, <2>2, <3>1, <3>2 DEF Clean
  <2>3. QED  BY <2>1, <2>2
<1>7. Segment(p, s, n)'
  BY <1>3, <1>4, <1>5, <1>6 DEF Segment
<1>8. CleanEnd'
  <2>1. s + n - 1 \in get .. s + n - 1 /\ s <= s + n - 1 /\ tail' - 1 = s + n - 1
    BY <1>1, <1>2
  <2>2. At(s + n - 1)' = <<p, s + n - 1 - s + 1, n>>
    BY <1>5, <2>1
  <2>3. s + n - 1 - s + 1 = n
    OBVIOUS
  <2>4. IsDelimiter(At(s + n - 1)')
    BY <2>2, <2>3 DEF IsDelimiter
  <2>5. get' < tail'
    BY <1>1, <1>3
  <2>6. QED  BY <2>1, <2>4, <2>5 DEF CleanEnd, At
<1>9. QED  BY <1>2, <1>7, <1>8

\* main finds what it has got claimed, unless its put is spoiled.
LEMMA DamageFinish ==
  ASSUME Sound, MainInv, SpoiledInv, PutInv, WholeInv, MainFinish
  PROVE  SpoiledInv' /\ PutInv' /\ WholeInv'
<1>1. /\ get \in Nat /\ tail \in Nat /\ head \in Nat
      /\ packets \in Nat /\ judged \in Nat
      /\ main \in Thread /\ main.p \in Nat /\ main.n \in Nat /\ main.got \in Nat
      /\ main.part \in Nat /\ main.got <= main.n
      /\ (main.pc # "idle" => main.p \in 1 .. packets)
  BY Shapes
<1>2. /\ main.pc = "copy" /\ main.copied = main.part
      /\ main' = (IF main.got <= head - tail THEN [main EXCEPT !.pc = "finish", !.at = tail]
                  ELSE [main EXCEPT !.pc = "enable"])
      /\ spoiled' = (IF main.got < main.n THEN spoiled \cup {main.p} ELSE spoiled)
      /\ UNCHANGED <<mem, get, tail, head, packets, acc, noise, judged>>
  BY DEF MainFinish, Copied, host, ring
<1>3. main.p \in 1 .. packets /\ Claiming /\ Putting /\ Ready = main.got
  BY <1>1, <1>2 DEF Claiming, Putting, Ready
<1>4. spoiled \subseteq spoiled' /\ spoiled' \subseteq spoiled \cup {main.p}
  BY <1>2
<1>5. main'.p = main.p /\ main'.n = main.n /\ main'.got = main.got
  BY <1>1, <1>2 DEF Thread
<1>6. spoiled' \subseteq 1 .. packets + 1 /\ (packets + 1 \in spoiled' => packets + 1 \in spoiled)
  <2>1. main.p \in 1 .. packets + 1 /\ main.p # packets + 1
    BY <1>1, <1>3
  <2>2. QED  BY <1>4, <2>1 DEF SpoiledInv
<1>7. \A k \in get .. tail - 1 : mem'[k % TxSize] = At(k)
  BY <1>2 DEF At
<1>8. CleanEnd => CleanEnd'
  BY <1>1, <1>2, <1>7, EndStays
<1>9. CASE main.got <= head - tail
  <2>1. main'.pc = "finish" /\ Claiming' /\ Putting' /\ Ready' = main.got
    <3>1. main'.pc = "finish"
      BY <1>1, <1>2, <1>9 DEF Thread
    <3>2. QED  BY <1>5, <3>1 DEF Claiming, Putting, Ready
  <2>2. SpoiledInv'
    BY <1>2, <1>3, <1>4, <1>5, <1>6, <1>9, <2>1 DEF SpoiledInv
  <2>3. ASSUME main.p \notin spoiled' PROVE OwnInv'
    <3>1. OwnInv /\ main.got = main.n
      BY <1>1, <1>2, <1>3, <1>4, <2>3 DEF PutInv
    <3>2. \A j \in 1 .. Ready' : At(tail + j - 1)' = <<main.p, j, main.n>>
      BY <1>2, <1>3, <2>1, <3>1 DEF OwnInv, At
    <3>3. \A k \in get .. tail - 1 : At(k)'[1] < main.p
      BY <1>2, <3>1 DEF OwnInv, At
    <3>4. QED  BY <1>2, <1>4, <1>5, <1>8, <2>1, <3>1, <3>2, <3>3 DEF OwnInv
  <2>4. PutInv'
    BY <1>2, <1>5, <2>1, <2>3 DEF PutInv
  <2>5. \A q \in judged + 1 .. packets' : Kept(q)' => q <= packets /\ Kept(q)
    <3>1. SUFFICES ASSUME NEW q \in judged + 1 .. packets', Kept(q)' PROVE q <= packets /\ Kept(q)
      OBVIOUS
    <3>2. q <= packets
      BY <1>1, <1>2
    <3>3. QED  BY <1>4, <1>5, <2>1, <3>1, <3>2 DEF Kept
  <2>6. WholeInv'
    <3>1. /\ tail' \in Nat /\ tail <= tail' /\ packets' \in Nat /\ main'.pc # "copy"
          /\ UNCHANGED <<get, acc, noise, judged>>
      BY <1>1, <1>2, <2>1
    <3>2. QED  BY <1>4, <1>7, <2>5, <3>1, WholeStays
  <2>7. QED  BY <2>2, <2>4, <2>6
<1>10. CASE ~(main.got <= head - tail)
  <2>1. main'.pc = "enable" /\ ~Claiming' /\ ~Putting'
    <3>1. main'.pc = "enable"
      BY <1>1, <1>2, <1>10 DEF Thread
    <3>2. QED  BY <3>1 DEF Claiming, Putting
  <2>2. packets + 1 \in spoiled /\ packets \in spoiled /\ main.p \in spoiled
    BY <1>3, <1>10 DEF SpoiledInv
  <2>3. spoiled' = spoiled
    BY <1>4, <2>2
  <2>4. SpoiledInv'
    BY <1>2, <1>6, <2>1, <2>2, <2>3 DEF SpoiledInv
  <2>5. PutInv'
    BY <1>2, <2>1, <2>2, <2>3 DEF PutInv
  <2>6. \A q \in judged + 1 .. packets' : Kept(q)' => q <= packets /\ Kept(q)
    <3>1. SUFFICES ASSUME NEW q \in judged + 1 .. packets', Kept(q)' PROVE q <= packets /\ Kept(q)
      OBVIOUS
    <3>2. q <= packets /\ q # main.p
      BY <1>1, <1>2, <2>2, <2>3, <3>1 DEF Kept
    <3>3. QED  BY <2>3, <3>1, <3>2 DEF Kept
  <2>7. WholeInv'
    <3>1. /\ tail' \in Nat /\ tail <= tail' /\ packets' \in Nat /\ main'.pc # "copy"
          /\ UNCHANGED <<get, acc, noise, judged>>
      BY <1>1, <1>2, <2>1
    <3>2. QED  BY <1>4, <1>7, <2>6, <3>1, WholeStays
  <2>8. QED  BY <2>4, <2>5, <2>7
<1>11. QED  BY <1>9, <1>10

\* main commits what it has copied.
LEMMA DamageCommit ==
  ASSUME Sound, MainInv, SpoiledInv, PutInv, WholeInv, MainCommit, ~late
  PROVE  SpoiledInv' /\ PutInv' /\ WholeInv'
<1>1. /\ get \in Nat /\ tail \in Nat /\ head \in Nat /\ get <= tail
      /\ packets \in Nat /\ judged \in Nat
      /\ main \in Thread /\ main.p \in Nat /\ main.n \in Nat /\ main.got \in Nat
      /\ (main.pc # "idle" => main.p \in 1 .. packets)
  BY Shapes
<1>2. /\ main.pc = "finish" /\ main' = [main EXCEPT !.pc = "commit", !.at = tail']
      /\ UNCHANGED <<mem, get, head, packets, acc, noise, judged, spoiled>>
  BY DEF MainCommit, host
<1>3. tail' = tail + main.got
  BY <1>2 DEF MainCommit, MainInv, ReadInv
<1>4. /\ main'.pc = "commit" /\ main'.p = main.p
      /\ Claiming /\ Putting /\ ~Claiming' /\ Putting' /\ Ready = main.got
  <2>1. main'.pc = "commit" /\ main'.p = main.p
    BY <1>1, <1>2 DEF Thread
  <2>2. QED  BY <1>2, <2>1 DEF Claiming, Putting, Ready
<1>5. SpoiledInv'
  BY <1>2, <1>4 DEF SpoiledInv
\* An unspoiled put is whole.
<1>6. PICK p \in Nat, n \in Nat : p = main.p /\ n = main.n
  BY <1>1
<1>7. ASSUME p \notin spoiled
      PROVE  (\E s \in Nat : Segment(p, s, n)') /\ CleanEnd'
  <2>1. OwnInv /\ main.got = n
    BY <1>2, <1>4, <1>6, <1>7 DEF PutInv, OwnInv
  <2>2. n >= 2 /\ tail' = tail + n /\ main'.pc # "copy" /\ UNCHANGED <<get, acc, noise>>
    BY <1>2, <1>3, <1>4, <1>6, <2>1 DEF OwnInv
  <2>3. \A j \in 1 .. n : mem'[(tail + j - 1) % TxSize] = <<p, j, n>>
    BY <1>2, <1>4, <1>6, <2>1 DEF OwnInv, At
  <2>4. \A k \in get .. tail - 1 : At(k)[1] < p /\ mem'[k % TxSize] = At(k)
    BY <1>2, <1>6, <2>1 DEF OwnInv, At
  <2>5. p - 1 \notin spoiled' => CleanEnd
    BY <1>2, <1>6, <2>1 DEF OwnInv
  <2>6. QED  BY <2>2, <2>3, <2>4, <2>5, NewSegment
<1>8. PutInv'
  <2>1. packets \notin spoiled => main.p = packets
    BY <1>4 DEF SpoiledInv
  <2>2. QED  BY <1>2, <1>4, <1>6, <1>7, <2>1 DEF PutInv
<1>9. \A q \in judged + 1 .. packets' :
         Kept(q)' => \/ q <= packets /\ Kept(q)
                    \/ \E s, m \in Nat : Segment(q, s, m)'
  <2>1. SUFFICES ASSUME NEW q \in judged + 1 .. packets', Kept(q)'
                 PROVE  \/ q <= packets /\ Kept(q)
                        \/ \E s, m \in Nat : Segment(q, s, m)'
    OBVIOUS
  <2>2. q <= packets /\ q \notin spoiled
    BY <1>1, <1>2, <2>1 DEF Kept
  <2>3. CASE q = p
    BY <1>7, <2>2, <2>3
  <2>4. CASE q # p
    BY <1>6, <2>2, <2>4 DEF Kept
  <2>5. QED  BY <2>3, <2>4
<1>10. WholeInv'
  <2>1. /\ tail' \in Nat /\ tail <= tail' /\ packets' \in Nat /\ main'.pc # "copy"
        /\ UNCHANGED <<get, acc, noise, judged>> /\ spoiled \subseteq spoiled'
    BY <1>1, <1>2, <1>3, <1>4
  <2>2. \A k \in get .. tail - 1 :
          (main.pc = "copy" => k < main.at) => mem'[k % TxSize] = At(k)
    BY <1>2 DEF At
  <2>3. QED  BY <1>9, <2>1, <2>2, WholeStays
<1>11. QED  BY <1>5, <1>8, <1>10
\* A reply.  Unless main is in a put it goes behind what is committed, whole if there
\* is room; otherwise it, main's packet and the next are spoiled.
LEMMA DamageReply ==
  ASSUME Sound, MainInv, SpoiledInv, PutInv, WholeInv, NEW r \in Lengths, ReplyPut(r)
  PROVE  SpoiledInv' /\ PutInv' /\ WholeInv'
<1>1. /\ get \in Nat /\ tail \in Nat /\ head \in Nat /\ TxSize \in Nat /\ TxSize > 0
      /\ get <= tail /\ tail <= head /\ TypeOK
      /\ packets \in Nat /\ judged \in Nat /\ mem \in [0 .. TxSize - 1 -> Bytes]
      /\ main.at \in Nat /\ (main.pc # "idle" => main.p \in 1 .. packets)
  BY Shapes DEF Sound
<1>2. Free \in Nat /\ head + Free = get + TxSize
  BY FreeIs, TxAssumption
<1>3. r \in Nat /\ r >= 2
  BY TxAssumption
<1>4. PICK got \in Nat : got = Least(r, Free) /\ got <= r /\ got <= Free
  BY <1>2, <1>3, LeastIs
<1>5. PICK p \in Nat : p = packets' /\ p = packets + 1
  BY <1>1 DEF ReplyPut, Begin
<1>6. /\ mem' = Written(p, r, head, 1, got)
      /\ tail' = tail + got /\ head' = tail + got
      /\ spoiled' = spoiled \cup (IF Putting THEN {main.p, p, p + 1} ELSE {})
                            \cup (IF got < r THEN {p} ELSE {})
      /\ UNCHANGED <<get, main, acc, noise, judged>>
      /\ (Putting' <=> Putting) /\ (Claiming' <=> Claiming) /\ (Claiming => Putting)
  BY <1>4, <1>5 DEF ReplyPut, host, Putting, Claiming
<1>7. /\ tail' \in Nat /\ tail <= tail' /\ spoiled \subseteq spoiled'
      /\ spoiled \subseteq 1 .. p
  BY <1>1, <1>4, <1>5, <1>6 DEF SpoiledInv
<1>8. SpoiledInv'
  <2>3. spoiled \subseteq 1 .. p + 1 /\ p + 1 \notin spoiled
    <3>1. \A x \in 1 .. p : x \in 1 .. p + 1 /\ x # p + 1
      OBVIOUS
    <3>2. spoiled \subseteq 1 .. p
      BY <1>7
    <3>3. QED  BY <3>1, <3>2
  <2>1. CASE Putting
    <3>1. {main.p, p, p + 1} \subseteq spoiled' /\ spoiled' \subseteq spoiled \cup {main.p, p, p + 1}
      BY <1>6, <2>1
    <3>2. main.p \in 1 .. p + 1 /\ p \in 1 .. p + 1 /\ p + 1 \in 1 .. p + 1
      BY <1>1, <1>5, <2>1 DEF Putting
    <3>3. spoiled' \subseteq 1 .. p + 1
      BY <2>3, <3>1, <3>2
    <3>4. SpoiledInv'
      BY <1>5, <1>6, <3>1, <3>3 DEF SpoiledInv
    <3>5. QED  BY <3>4
  <2>2. CASE ~Putting
    <3>1. spoiled' \subseteq spoiled \cup {p} /\ (p \notin spoiled' => got = r)
      BY <1>3, <1>4, <1>6, <2>2
    <3>2. p \in 1 .. p + 1 /\ p + 1 # p
      BY <1>1, <1>5
    <3>3. p + 1 \notin spoiled'
      BY <2>3, <3>1, <3>2
    <3>4. spoiled' \subseteq 1 .. p + 1
      BY <2>3, <3>1, <3>2
    <3>5. QED  BY <1>5, <1>6, <2>2, <3>3, <3>4 DEF SpoiledInv
  <2>4. QED  BY <2>1, <2>2
<1>9. \A x \in 0 .. TxSize - 1 : mem'[x][1] <= packets'
  <2>1. SUFFICES ASSUME NEW x \in 0 .. TxSize - 1 PROVE mem'[x][1] <= p
    BY <1>5
  <2>2. mem'[x][1] = p \/ mem'[x] = mem[x]
    BY <1>1, <1>6, WrittenOf
  <2>3. mem[x][1] <= packets /\ mem[x][1] \in Nat
    BY <1>1, Thing, TxAssumption DEF PutInv
  <2>4. QED  BY <1>1, <1>5, <2>2, <2>3
<1>10. \A k \in get .. tail - 1 : mem'[k % TxSize] = At(k)
  <2>1. SUFFICES ASSUME NEW k \in get .. tail - 1 PROVE mem'[k % TxSize] = At(k)
    OBVIOUS
  <2>2. k \in Nat /\ k < head /\ head + got - 1 < k + TxSize
    BY <1>1, <1>2, <1>4
  <2>3. Written(p, r, head, 1, got)[k % TxSize] = mem[k % TxSize]
    BY <1>1, <2>2, WrittenElsewhere
  <2>4. QED  BY <1>6, <2>3 DEF At
<1>11. ASSUME p \notin spoiled'
       PROVE  (\E s \in Nat : Segment(p, s, r)') /\ CleanEnd'
  <2>1. ~Putting /\ ~Claiming /\ got = r /\ p \notin spoiled
    BY <1>3, <1>4, <1>6, <1>11
  <2>2. head = tail
    BY <1>5, <2>1 DEF SpoiledInv
  <2>3. Holds(mem', p, r, head, 1, got)
    <3>1. got < 1 + TxSize
      BY <1>1, <1>2, <1>4
    <3>2. QED  BY <1>1, <1>6, <3>1, WrittenThere
  <2>4. \A j \in 1 .. r : mem'[(tail + j - 1) % TxSize] = <<p, j, r>>
    BY <2>1, <2>2, <2>3 DEF Holds
  <2>5. \A k \in get .. tail - 1 : At(k)[1] < p /\ mem'[k % TxSize] = At(k)
    <3>1. SUFFICES ASSUME NEW k \in get .. tail - 1 PROVE At(k)[1] < p
      BY <1>10
    <3>2. k \in Nat
      BY <1>1
    <3>3. QED  BY <1>1, <1>5, <3>2, Begun
  <2>6. p - 1 \notin spoiled' => CleanEnd
    <3>1. p - 1 = packets
      BY <1>1, <1>5
    <3>2. QED  BY <1>7, <2>1, <3>1 DEF PutInv
  <2>7. UNCHANGED <<get, acc, noise>> /\ main'.pc # "copy" /\ tail' = tail + r
    BY <1>6, <2>1 DEF Putting
  <2>8. QED  BY <1>3, <2>1, <2>4, <2>5, <2>6, <2>7, NewSegment
<1>12. PutInv'
  <2>1. Claiming' => main'.p \in spoiled'
    BY <1>6
  <2>2. main'.pc = "copy" => main'.at + main'.part <= get' + TxSize
    BY <1>6 DEF PutInv
  <2>3. packets' \notin spoiled' => CleanEnd'
    BY <1>5, <1>11
  <2>4. QED  BY <1>9, <2>1, <2>2, <2>3 DEF PutInv
<1>13. \A q \in judged + 1 .. packets' :
         Kept(q)' => \/ q <= packets /\ Kept(q)
                    \/ \E s, m \in Nat : Segment(q, s, m)'
  <2>1. SUFFICES ASSUME NEW q \in judged + 1 .. packets', Kept(q)'
                 PROVE  \/ q <= packets /\ Kept(q)
                        \/ \E s, m \in Nat : Segment(q, s, m)'
    OBVIOUS
  <2>2. q \notin spoiled' /\ q \in Int /\ q <= p
    BY <1>1, <1>5, <2>1 DEF Kept
  <2>3. CASE q = p
    BY <1>3, <1>11, <2>2, <2>3
  <2>4. CASE q # p
    <3>1. q <= packets
      BY <1>1, <1>5, <2>2, <2>4
    <3>2. Kept(q)
      BY <1>6, <1>7, <2>1 DEF Kept
    <3>3. QED  BY <3>1, <3>2
  <2>5. QED  BY <2>3, <2>4
<1>14. WholeInv'
  <2>1. packets' \in Nat /\ UNCHANGED <<get, acc, noise, judged>>
    BY <1>5, <1>6
  <2>2. main'.pc = "copy" => main.pc = "copy" /\ main'.at = main.at
    BY <1>6
  <2>3. \A k \in get .. tail - 1 :
          (main.pc = "copy" => k < main.at) => mem'[k % TxSize] = At(k)
    BY <1>10
  <2>4. QED  BY <1>7, <1>13, <2>1, <2>2, <2>3, WholeStays
<1>15. QED  BY <1>8, <1>12, <1>14
\* A byte of a kept packet that the host reads is the next of it.
LEMMA NextOfSegment ==
  ASSUME Sound, MainInv, NEW p \in Nat, NEW s \in Nat, NEW n \in Nat, Segment(p, s, n),
         At(get)[1] >= p
  PROVE  /\ s <= get /\ get < s + n /\ At(get) = <<p, get - s + 1, n>>
         /\ get - s + 1 \in 1 .. n
<1>1. get \in Nat /\ tail \in Nat /\ n >= 2 /\ get < s + n /\ At(get) \in Bytes
  BY Shapes, SMTT(30) DEF Segment
<1>2. At(get)[1] \in Nat
  BY <1>1, Thing, TxAssumption
<1>3. s <= get
  <2>1. SUFFICES ASSUME get < s PROVE FALSE
    BY <1>1
  <2>2. get \in get .. s - 1
    BY <1>1, <2>1
  <2>3. At(get)[1] < p
    BY <2>2 DEF Segment
  <2>4. QED  BY <1>2, <2>3
<1>4. get \in get .. s + n - 1
  BY <1>1
<1>5. At(get) = <<p, get - s + 1, n>>
  BY <1>3, <1>4 DEF Segment
<1>6. QED  BY <1>1, <1>3, <1>5

\* A packet that is kept, and so is the one before, is accepted at its delimiter.
LEMMA NotWrongly ==
  ASSUME Sound, MainInv, PutInv, WholeInv, get < tail, HostReads(At(get)),
         IsDelimiter(At(get)), NEW p \in (judged + 1) .. At(get)[1],
         p \notin noisy', {p - 1, p} \cap spoiled = {}
  PROVE  last' = p
<1> DEFINE b == At(get)
<1>1. /\ get \in Nat /\ judged \in Nat /\ packets \in Nat /\ b \in Bytes /\ acc \in Seq(Bytes)
      /\ b[1] \in 0 .. packets
  BY Shapes, Begun
<1>2. p \in judged + 1 .. packets /\ p \in Nat /\ p > 0 /\ b[1] >= p
  BY <1>1
<1>3. p \notin spoiled /\ p - 1 \notin spoiled
  OBVIOUS
<1>4. Kept(p)
  <2>1. SUFFICES ASSUME Claiming, main.p = p PROVE FALSE
    BY <1>3 DEF Kept
  <2>2. get \in get .. tail - 1
    BY Positions
  <2>3. b[1] < p
    BY <1>3, <2>1, <2>2 DEF PutInv, OwnInv
  <2>4. QED  BY <1>1, <1>2, <2>3
<1>5. PICK s \in Nat, n \in Nat : Segment(p, s, n)
  BY <1>2, <1>4 DEF WholeInv
<1>6. s <= get /\ get < s + n /\ b = <<p, get - s + 1, n>>
  BY <1>2, <1>5, NextOfSegment
<1>7. get - s + 1 = n /\ b[1] = p
  BY <1>6 DEF IsDelimiter
<1>8. n >= 2 /\ Clean(p, s, n)
  BY <1>3, <1>5 DEF Segment
<1>9. noise \/ (Len(acc) = n - 1 /\ \A i \in 1 .. n - 1 : acc[i] = <<p, i, n>>)
  <2>1. ~(get < s) /\ get - s = n - 1
    BY <1>1, <1>6, <1>7
  <2>2. QED  BY <1>8, <2>1 DEF Clean
<1>10. noisy' = (IF noise THEN noisy \cup {b[1]} ELSE noisy)
  BY DEF HostReads
<1>11. ~noise
  BY <1>7, <1>10
<1>12. Len(acc) = n - 1 /\ \A i \in 1 .. n - 1 : acc[i] = <<p, i, n>>
  BY <1>9, <1>11
<1>13. acc # <<>> /\ acc[1] = <<p, 1, n>>
  <2>1. 1 \in 1 .. n - 1 /\ Len(acc) # 0
    BY <1>8, <1>12
  <2>2. QED  BY <1>12, <2>1
<1>14. acc[1][1] = p /\ acc[1][3] = n
  BY <1>13
<1>15. BeginsWith(acc[1][1], acc[1][3])
  <2>1. Len(acc) >= n - 1
    BY <1>8, <1>12
  <2>2. QED  BY <1>2, <1>12, <1>14, <2>1 DEF BeginsWith
<1>16. \/ last' = acc[1][1]
       \/ Len(acc) >= acc[1][3]
  BY <1>13, <1>15 DEF HostReads
<1>17. ~(Len(acc) >= n)
  BY <1>8, <1>12
<1>18. QED  BY <1>14, <1>16, <1>17

LEMMA DamageRead ==
  ASSUME Sound, MainInv, DamageInv, IsrSend
  PROVE  DamageInv'
<1> DEFINE b == At(get)
<1>1. /\ get \in Nat /\ tail \in Nat /\ TxSize \in Nat /\ judged \in Nat /\ packets \in Nat
      /\ main.at \in Nat /\ main.part \in Nat /\ b \in Bytes /\ acc \in Seq(Bytes)
      /\ noise \in BOOLEAN /\ b[1] \in 0 .. packets
      /\ SpoiledInv /\ PutInv /\ WholeInv /\ wrongly = {}
  BY Shapes, Begun DEF DamageInv
<1>2. /\ get < tail /\ get' = get + 1 /\ HostReads(b)
      /\ UNCHANGED <<mem, tail, head, main, packets, spoiled>>
      /\ (Claiming' <=> Claiming) /\ (Putting' <=> Putting) /\ Ready' = Ready
  BY DEF IsrSend, At, Claiming, Putting, Ready
<1>3. SpoiledInv'
  BY <1>1, <1>2 DEF SpoiledInv
<1>4. wrongly' = {}
  <2>1. CASE ~IsDelimiter(b)
    BY <1>1, <1>2, <2>1 DEF HostReads
  <2>2. CASE IsDelimiter(b)
    <3>1. wrongly' = wrongly \cup {p \in (judged + 1) .. b[1] :
                       p # last' /\ p \notin noisy' /\ {p - 1, p} \cap spoiled = {}}
      BY <1>2, <2>2 DEF HostReads
    <3>2. \A p \in (judged + 1) .. b[1] :
            ~(p # last' /\ p \notin noisy' /\ {p - 1, p} \cap spoiled = {})
      BY <1>1, <1>2, <2>2, NotWrongly
    <3>3. QED  BY <1>1, <3>1, <3>2
  <2>3. QED  BY <2>1, <2>2
\* What the host has, after the byte.
<1>5. \/ /\ ~IsDelimiter(b) /\ acc' = Append(acc, b) /\ noise' = noise /\ judged' = judged
      \/ /\ IsDelimiter(b) /\ acc' = <<>> /\ noise' = FALSE
         /\ judged' = (IF b[1] > judged THEN b[1] ELSE judged)
  BY <1>2 DEF HostReads
<1>6. judged' \in Nat /\ judged <= judged' /\ (IsDelimiter(b) => b[1] <= judged')
  BY <1>1, <1>5
<1>7. \A k : At(k)' = At(k)
  BY <1>2 DEF At
<1>8. ASSUME CleanEnd PROVE CleanEnd'
  <2>1. CASE get + 1 < tail
    BY <1>2, <1>7, <1>8, <2>1 DEF CleanEnd, At
  <2>2. CASE get + 1 = tail
    <3>1. IsDelimiter(b)
      <4>1. get = tail - 1
        BY <1>1, <2>2
      <4>2. QED  BY <1>2, <1>8, <4>1 DEF CleanEnd
    <3>2. ~(get' < tail') /\ acc' = <<>>
      BY <1>1, <1>2, <1>5, <2>2, <3>1
    <3>3. QED  BY <3>2 DEF CleanEnd
  <2>3. QED  BY <1>1, <1>2, <2>1, <2>2
<1>9. PutInv'
  <2>1. main'.pc = "copy" => main'.at + main'.part <= get' + TxSize
    BY <1>1, <1>2 DEF PutInv
  <2>2. \A k \in get' .. tail' - 1 : k \in get .. tail - 1
    BY <1>1, <1>2
  <2>3. ASSUME Claiming', main'.p \notin spoiled' PROVE OwnInv'
    <3>1. OwnInv
      BY <1>1, <1>2, <2>3 DEF PutInv
    <3>2. \A k \in get' .. tail' - 1 : At(k)'[1] < main'.p
      BY <1>2, <1>7, <2>2, <3>1 DEF OwnInv
    <3>3. \A j \in 1 .. Ready' : At(tail + j - 1)' = <<main'.p, j, main'.n>>
      BY <1>2, <3>1 DEF OwnInv, At
    <3>4. QED  BY <1>2, <1>8, <3>1, <3>2, <3>3 DEF OwnInv
  <2>4. ~Claiming' /\ packets' \notin spoiled' => CleanEnd'
    BY <1>1, <1>2, <1>8 DEF PutInv
  <2>5. \A x \in 0 .. TxSize - 1 : mem'[x][1] <= packets'
    BY <1>1, <1>2 DEF PutInv
  <2>6. QED  BY <2>1, <2>3, <2>4, <2>5 DEF PutInv
<1>10. ASSUME NEW p \in judged' + 1 .. packets', Kept(p)'
       PROVE  \E s, n \in Nat : Segment(p, s, n)'
  <2>1. p \in judged + 1 .. packets /\ p \in Nat /\ p > judged' /\ Kept(p)
    <3>1. packets' = packets /\ Kept(p)
      BY <1>2, <1>10 DEF Kept
    <3>2. PICK j \in Nat : j = judged'
      BY <1>6
    <3>3. p \in j + 1 .. packets /\ judged <= j
      BY <1>6, <1>10, <3>1, <3>2
    <3>4. p \in judged + 1 .. packets /\ p \in Nat /\ p > j
      BY <1>1, <3>3
    <3>5. QED  BY <3>1, <3>2, <3>4
  <2>2. PICK s \in Nat, n \in Nat : Segment(p, s, n)
    BY <1>1, <2>1 DEF WholeInv
  <2>3. /\ n >= 2 /\ s + n \in (get + 1) .. tail /\ (main.pc = "copy" => s + n <= main.at)
        /\ \A k \in get .. s - 1 : At(k)[1] < p
        /\ \A k \in get .. s + n - 1 : s <= k => At(k) = <<p, k - s + 1, n>>
        /\ (p - 1 \notin spoiled => Clean(p, s, n))
    BY <2>2 DEF Segment
  <2>4. ASSUME s <= get
        PROVE  b = <<p, get - s + 1, n>> /\ get + 1 < s + n /\ ~IsDelimiter(b)
    <3>1. get \in get .. s + n - 1
      BY <1>1, <2>3
    <3>2. b = <<p, get - s + 1, n>>
      BY <2>3, <2>4, <3>1
    <3>3. ~IsDelimiter(b)
      <4>1. b[1] = p
        BY <3>2
      <4>2. QED  BY <1>1, <1>6, <2>1, <4>1
    <3>4. get - s + 1 # n
      BY <3>2, <3>3 DEF IsDelimiter
    <3>5. QED  BY <1>1, <2>3, <3>2, <3>3, <3>4
  <2>5. s + n \in (get' + 1) .. tail'
    BY <1>1, <1>2, <2>3, <2>4
  <2>6. \A k \in get' .. s - 1 : k \in get .. s - 1
    BY <1>1, <1>2
  <2>7. \A k \in get' .. s + n - 1 : k \in get .. s + n - 1
    BY <1>1, <1>2
  <2>8. ASSUME Clean(p, s, n) PROVE Clean(p, s, n)'
    <3>1. CASE get + 1 < s
      BY <1>1, <1>2, <1>7, <2>8, <3>1 DEF Clean
    <3>2. CASE get + 1 = s
      <4>1. get = s - 1 /\ get < s /\ ~(get' < s) /\ get' - s = 0
        BY <1>1, <1>2, <3>2
      <4>2. IsDelimiter(b)
        BY <2>8, <4>1 DEF Clean
      <4>3. acc' = <<>>
        BY <1>5, <4>2
      <4>4. QED  BY <4>1, <4>3 DEF Clean
    <3>3. CASE s <= get
      <4>1. ~(get < s) /\ ~(get' < s) /\ get' - s = get - s + 1 /\ get - s \in Nat
        BY <1>1, <1>2, <3>3
      <4>2. acc' = Append(acc, b) /\ noise' = noise /\ b = <<p, get - s + 1, n>>
        BY <1>5, <2>4, <3>3
      <4>3. noise \/ (Len(acc) = get - s /\ \A i \in 1 .. get - s : acc[i] = <<p, i, n>>)
        BY <2>8, <4>1 DEF Clean
      <4>4. ASSUME Len(acc) = get - s, \A i \in 1 .. get - s : acc[i] = <<p, i, n>>
            PROVE  /\ Len(acc') = get - s + 1
                   /\ \A i \in 1 .. get - s + 1 : acc'[i] = <<p, i, n>>
        <5>1. /\ Len(acc') = Len(acc) + 1 /\ acc'[Len(acc) + 1] = b
              /\ \A i \in 1 .. Len(acc) : acc'[i] = acc[i]
          BY <1>1, <4>2, AppendProperties
        <5>2. ASSUME NEW i \in 1 .. get - s + 1 PROVE acc'[i] = <<p, i, n>>
          <6>1. CASE i = get - s + 1
            BY <4>2, <4>4, <5>1, <6>1
          <6>2. CASE i # get - s + 1
            <7>1. i \in 1 .. get - s
              BY <4>1, <6>2
            <7>2. QED  BY <4>4, <5>1, <7>1
          <6>3. QED  BY <6>1, <6>2
        <5>3. QED  BY <4>4, <5>1, <5>2
      <4>5. QED  BY <4>1, <4>2, <4>3, <4>4 DEF Clean
    <3>4. QED  BY <1>1, <3>1, <3>2, <3>3
  <2>9. Segment(p, s, n)'
    <3>1. main'.pc = "copy" => s + n <= main'.at
      BY <1>2, <2>3
    <3>2. \A k \in get' .. s - 1 : At(k)'[1] < p
      BY <1>7, <2>3, <2>6
    <3>3. \A k \in get' .. s + n - 1 : s <= k => At(k)' = <<p, k - s + 1, n>>
      BY <1>7, <2>3, <2>7
    <3>4. p - 1 \notin spoiled' => Clean(p, s, n)'
      BY <1>2, <2>3, <2>8
    <3>5. QED  BY <2>3, <2>5, <3>1, <3>2, <3>3, <3>4 DEF Segment
  <2>10. QED  BY <2>9
<1>11. QED  BY <1>3, <1>4, <1>9, <1>10 DEF DamageInv, WholeInv
\* Console text is where the host's bytes are, and says so.
LEMMA DamageText ==
  ASSUME Sound, MainInv, DamageInv, Console
  PROVE  DamageInv'
<1>1. /\ noise' = TRUE
      /\ UNCHANGED <<mem, get, tail, head, main, packets, spoiled, judged, wrongly>>
  BY DEF Console, ring
<1>2. /\ \A k : At(k)' = At(k)
      /\ (Claiming' <=> Claiming) /\ (Putting' <=> Putting) /\ Ready' = Ready
  BY <1>1 DEF At, Claiming, Putting, Ready
<1>3. SpoiledInv' /\ wrongly' = {}
  BY <1>1, <1>2 DEF SpoiledInv, DamageInv
<1>4. CleanEnd => CleanEnd'
  <2>1. CASE get < tail
    BY <1>1, <1>2, <2>1 DEF CleanEnd, At
  <2>2. CASE ~(get < tail)
    BY <1>1, <2>2 DEF CleanEnd
  <2>3. QED  BY <2>1, <2>2
<1>5. PutInv'
  BY <1>1, <1>2, <1>4 DEF PutInv, OwnInv, At, DamageInv
<1>6. ASSUME NEW p \in judged + 1 .. packets, Kept(p)
      PROVE  \E s, n \in Nat : Segment(p, s, n)'
  <2>1. PICK s \in Nat, n \in Nat : Segment(p, s, n)
    BY <1>6 DEF DamageInv, WholeInv
  <2>2. Clean(p, s, n) => Clean(p, s, n)'
    BY <1>1, <1>2 DEF Clean
  <2>3. Segment(p, s, n)'
    BY <1>1, <1>2, <2>1, <2>2 DEF Segment
  <2>4. QED  BY <2>3
<1>7. \A p : Kept(p)' <=> Kept(p)
  BY <1>1, <1>2 DEF Kept
<1>8. WholeInv'
  BY <1>1, <1>6, <1>7 DEF WholeInv
<1>9. QED  BY <1>3, <1>5, <1>8 DEF DamageInv

\* Steps that leave what is committed and the host alone.
LEMMA DamageOther ==
  ASSUME Sound, MainInv, DamageInv,
         UNCHANGED <<mem, get, tail, packets, acc, noise, spoiled, judged, wrongly>>,
         \/ UNCHANGED <<main, head>>
         \/ /\ ~Claiming /\ main'.pc \in {"enable", "idle"}
            /\ head' = tail \/ (~Putting /\ head' = head)
  PROVE  DamageInv'
<1>1. \A k : At(k)' = At(k)
  BY DEF At
<1>2. /\ Claiming' <=> Claiming
      /\ Putting' => UNCHANGED <<main, head>> /\ Putting
      /\ Claiming => UNCHANGED <<main, head>> /\ Ready' = Ready
  BY DEF Claiming, Putting, Ready
<1>3. SpoiledInv' /\ wrongly' = {}
  <2>1. ASSUME ~Putting', packets + 1 \notin spoiled PROVE head' = tail
    <3>1. UNCHANGED <<main, head>> => ~Putting
      BY <2>1 DEF Putting
    <3>2. QED  BY <2>1, <3>1 DEF SpoiledInv, DamageInv
  <2>2. QED  BY <1>2, <2>1 DEF SpoiledInv, DamageInv
<1>4. CleanEnd' <=> CleanEnd
  BY DEF CleanEnd, At
<1>5. PutInv'
  <2>1. PutInv /\ (main'.pc = "copy" => UNCHANGED main)
    BY DEF DamageInv
  <2>2. ASSUME Claiming', main'.p \notin spoiled' PROVE OwnInv'
    <3>1. OwnInv /\ UNCHANGED <<main, head>> /\ Ready' = Ready
      BY <1>2, <2>1, <2>2 DEF PutInv
    <3>2. QED  BY <1>4, <3>1 DEF OwnInv, At
  <2>3. QED  BY <1>2, <1>4, <2>1, <2>2 DEF PutInv
<1>6. \A k \in get .. tail - 1 :
        (main.pc = "copy" => k < main.at) => mem'[k % TxSize] = At(k)
  BY DEF At
<1>7. /\ tail' \in Nat /\ tail <= tail' /\ packets' \in Nat /\ packets' = packets
      /\ judged \in Nat /\ spoiled \subseteq spoiled'
  BY Shapes
<1>8. \A p \in judged + 1 .. packets' :
        Kept(p)' => \/ p <= packets /\ Kept(p)
                   \/ \E s, n \in Nat : Segment(p, s, n)'
  <2>1. SUFFICES ASSUME NEW p \in judged + 1 .. packets', Kept(p)' PROVE p <= packets /\ Kept(p)
    OBVIOUS
  <2>2. p <= packets
    BY <1>7
  <2>3. QED  BY <1>2, <2>1, <2>2 DEF Kept
<1>9. WholeInv'
  <2>1. main'.pc = "copy" => main.pc = "copy" /\ main'.at = main.at
    OBVIOUS
  <2>2. UNCHANGED <<get, acc, noise, judged>> /\ WholeInv
    BY DEF DamageInv
  <2>3. QED  BY <1>6, <1>7, <1>8, <2>1, <2>2, WholeStays
<1>10. QED  BY <1>3, <1>5, <1>9 DEF DamageInv

LEMMA InitDamage == Init => DamageInv
<1> SUFFICES ASSUME Init PROVE DamageInv
  OBVIOUS
<1>1. /\ main.pc = "idle" /\ head = 0 /\ get = 0 /\ tail = 0 /\ acc = <<>> /\ packets = 0
      /\ spoiled = {} /\ judged = 0 /\ wrongly = {} /\ mem = [x \in 0 .. TxSize - 1 |-> Zero]
  BY DEF Init, NotSending
<1>2. \A x \in 0 .. TxSize - 1 : mem[x][1] <= packets
  BY <1>1 DEF Zero
<1>3. CleanEnd
  BY <1>1 DEF CleanEnd
<1>4. QED
  BY <1>1, <1>2, <1>3 DEF DamageInv, SpoiledInv, PutInv, WholeInv, Claiming, Putting

LEMMA DamageStep ==
  Sound /\ MainInv /\ DamageInv /\ [Next]_vars => torn' \/ DamageInv'
<1> SUFFICES ASSUME Sound, MainInv, DamageInv, [Next]_vars PROVE torn' \/ DamageInv'
  OBVIOUS
<1>1. SpoiledInv /\ PutInv /\ WholeInv /\ wrongly = {}
  BY DEF DamageInv
<1>2. /\ get \in Nat /\ tail \in Nat /\ head \in Nat /\ tail <= head
      /\ packets \in Nat /\ judged \in Nat
      /\ main \in Thread /\ main.n \in Nat /\ main.got \in Nat /\ main.part \in Nat
      /\ main.got <= main.n
      /\ \A k \in get .. tail - 1 : k \in Nat
  BY Shapes
<1>3. \A n \in Lengths : n \in Nat /\ n >= 2
  BY TxAssumption
<1>4. ASSUME SpoiledInv', PutInv', WholeInv', wrongly' = wrongly PROVE DamageInv'
  BY <1>1, <1>4 DEF DamageInv
<1>5. ASSUME NEW n \in Lengths, MainPut(n) PROVE DamageInv'
  <2>1. /\ main.pc = "idle" /\ packets' = packets + 1
        /\ UNCHANGED <<mem, get, tail, head, acc, noise, spoiled, judged, wrongly>>
        /\ Claim([NotSending EXCEPT !.p = packets', !.n = n])
        /\ ~Claiming /\ ~Putting
    BY <1>5 DEF MainPut, Begin, host, ring, Claiming, Putting
  <2>2. PICK p \in Nat : p = packets' /\ p = packets + 1
    BY <1>2, <2>1
  <2>3. PICK m : m = [NotSending EXCEPT !.p = p, !.n = n]
    OBVIOUS
  <2>4. m \in Thread /\ m.got = 0 /\ m.n = n /\ m.p = p
    BY <1>3, <2>2, <2>3 DEF NotSending, Thread
  <2>5. Claim(m) /\ m.got <= m.n
    BY <1>3, <2>1, <2>2, <2>3, <2>4
  <2>6. spoiled \subseteq 1 .. p + 1 /\ p + 1 \notin spoiled
    <3>1. \A x \in 1 .. packets + 1 : x \in 1 .. p + 1 /\ x # p + 1
      BY <1>2, <2>2
    <3>2. QED  BY <1>1, <3>1 DEF SpoiledInv
  <2>7. ASSUME p \notin spoiled
        PROVE  /\ head = tail + m.got
               /\ \A k \in get .. tail - 1 : At(k)[1] < p
               /\ p - 1 \notin spoiled => CleanEnd
    <3>1. head = tail
      BY <1>1, <2>1, <2>2, <2>7 DEF SpoiledInv
    <3>2. \A k \in get .. tail - 1 : At(k)[1] < p
      <4>1. SUFFICES ASSUME NEW k \in get .. tail - 1 PROVE At(k)[1] < p
        OBVIOUS
      <4>2. At(k)[1] \in 0 .. packets
        BY <1>1, <1>2, Begun
      <4>3. QED  BY <1>2, <2>2, <4>2
    <3>3. p - 1 = packets
      BY <1>2, <2>2
    <3>4. QED  BY <1>1, <1>2, <2>1, <2>4, <3>1, <3>2, <3>3 DEF PutInv
  <2>8. \A q \in judged + 1 .. packets' : q \notin spoiled /\ q # m.p => q <= packets /\ Kept(q)
    <3>1. SUFFICES ASSUME NEW q \in judged + 1 .. packets', q \notin spoiled, q # m.p
                   PROVE  q <= packets /\ Kept(q)
      OBVIOUS
    <3>2. q <= packets
      BY <1>2, <2>2, <2>4, <3>1
    <3>3. QED  BY <2>1, <3>1, <3>2 DEF Kept
  <2>9. \A j \in 1 .. m.got : At(tail + j - 1) = <<m.p, j, m.n>>
    BY <2>4
  <2>10. m.got <= head - tail /\ m.n >= 2 /\ packets <= packets' /\ packets' \in Nat
    BY <1>2, <1>3, <2>2, <2>4
  <2>11. UNCHANGED <<mem, get, tail, head, acc, noise, spoiled, judged>>
    BY <2>1
  <2>12. SpoiledInv' /\ PutInv' /\ WholeInv'
    BY <1>1, <2>2, <2>4, <2>5, <2>6, <2>7, <2>8, <2>9, <2>10, <2>11, DamageClaim
  <2>13. QED  BY <1>4, <2>1, <2>12
<1>6. CASE MainTake
  <2>1. wrongly' = wrongly /\ torn' = late
    BY <1>6 DEF MainTake, host
  <2>2. QED  BY <1>1, <1>4, <1>6, <2>1, DamageTake
<1>7. CASE MainCopy
  BY <1>1, <1>4, <1>7, DamageCopy DEF MainCopy, host
<1>8. CASE MainClaim
  <2>1. /\ main.pc = "copy" /\ main.copied = main.part /\ packets' = packets /\ Claim(main)
        /\ UNCHANGED <<mem, get, tail, head, acc, noise, spoiled, judged, wrongly>>
    BY <1>8 DEF MainClaim, Copied, host, ring
  <2>0. Claiming /\ Putting /\ Ready = main.got
    BY <1>2, <2>1 DEF Claiming, Putting, Ready
  <2>2. /\ spoiled \subseteq 1 .. packets' + 1
        /\ (packets' + 1 \in spoiled => packets' \in spoiled /\ main.p \in spoiled)
        /\ (packets' + 1 \notin spoiled => main.p = packets' /\ main.got <= head - tail)
    BY <1>1, <2>0, <2>1 DEF SpoiledInv
  <2>3. ASSUME main.p \notin spoiled
        PROVE  /\ main.n >= 2 /\ head = tail + main.got
               /\ \A j \in 1 .. main.got : At(tail + j - 1) = <<main.p, j, main.n>>
               /\ \A k \in get .. tail - 1 : At(k)[1] < main.p
               /\ main.p - 1 \notin spoiled => CleanEnd
    BY <1>1, <2>0, <2>3 DEF PutInv, OwnInv
  <2>4. \A q \in judged + 1 .. packets' :
          q \notin spoiled /\ q # main.p => q <= packets /\ Kept(q)
    <3>1. SUFFICES ASSUME NEW q \in judged + 1 .. packets', q \notin spoiled, q # main.p
                   PROVE  q <= packets /\ Kept(q)
      OBVIOUS
    <3>2. q <= packets
      BY <1>2, <2>1
    <3>3. QED  BY <3>1, <3>2 DEF Kept
  <2>5. /\ packets' \in Nat /\ packets <= packets'
        /\ UNCHANGED <<mem, get, tail, head, acc, noise, spoiled, judged>>
    BY <1>2, <2>1
  <2>6. SpoiledInv' /\ PutInv' /\ WholeInv'
    BY <1>1, <1>2, <2>1, <2>2, <2>3, <2>4, <2>5, DamageClaim
  <2>7. QED  BY <1>4, <2>1, <2>6
<1>9. CASE MainFinish
  BY <1>1, <1>4, <1>9, DamageFinish DEF MainFinish, host
<1>10. CASE MainCommit
  <2>1. wrongly' = wrongly /\ torn' = late
    BY <1>10 DEF MainCommit, host
  <2>2. QED  BY <1>1, <1>4, <1>10, <2>1, DamageCommit
<1>11. CASE MainForget
  <2>1. /\ main.pc = "commit" /\ main' = [main EXCEPT !.pc = "enable"] /\ torn' = late
        /\ UNCHANGED <<mem, get, tail, packets, acc, noise, spoiled, judged, wrongly>>
    BY <1>11 DEF MainForget, host
  <2>2. main'.pc = "enable" /\ ~Claiming
    BY <1>2, <2>1 DEF Thread, Claiming
  <2>3. ~late => head' = tail
    BY <1>11, <2>1 DEF MainForget, MainInv, ReadInv
  <2>4. QED  BY <2>1, <2>2, <2>3, DamageOther
<1>12. CASE MainEnable
  <2>1. /\ main'.pc = "idle" /\ ~Claiming /\ ~Putting /\ head' = head
        /\ UNCHANGED <<mem, get, tail, packets, acc, noise, spoiled, judged, wrongly>>
    BY <1>12 DEF MainEnable, NotSending, Claiming, Putting, ring, host
  <2>2. QED  BY <2>1, DamageOther
<1>13. ASSUME NEW n \in Lengths, ReplyPut(n) PROVE DamageInv'
  <2>1. wrongly' = wrongly
    BY <1>13 DEF ReplyPut, host
  <2>2. QED  BY <1>1, <1>4, <1>13, <2>1, DamageReply
<1>14. CASE ReplyEnable \/ IsrEmpty \/ UNCHANGED vars
  <2>1. /\ UNCHANGED <<mem, get, tail, packets, acc, noise, spoiled, judged, wrongly>>
        /\ UNCHANGED <<main, head>>
    BY <1>14 DEF ReplyEnable, IsrEmpty, vars, ring, host
  <2>2. QED  BY <2>1, DamageOther
<1>15. CASE IsrSend
  BY <1>15, DamageRead
<1>16. CASE Console
  BY <1>16, DamageText
<1>17. QED
  BY <1>5, <1>6, <1>7, <1>8, <1>9, <1>10, <1>11, <1>12, <1>13, <1>14, <1>15, <1>16
     DEF Next, Main, MainWorks, Reply, Isr, Outside

\* However replies come while main is in ring_buf_put, as long as main does not write
\* a position that one of them has moved since main read it, however full the ring and
\* wherever console text gets in, the host misses no packet but one cut short and the
\* next, those put by both threads at once and the next two, and those console text got
\* into.
THEOREM DamageCorrect == Spec => []DamageIsLocal
<1>1. IInv /\ (torn \/ DamageInv) /\ [Next]_vars => torn' \/ DamageInv'
  <2>1. ASSUME torn, [Next]_vars PROVE torn'
    BY <2>1, TornStep DEF vars
  <2>2. QED  BY <2>1, DamageStep DEF IInv, Sound
<1>2. torn \/ DamageInv => DamageIsLocal
  BY DEF DamageInv, DamageIsLocal
<1>3. QED
  BY <1>1, <1>2, Inductive, InitDamage, PTL DEF Spec
=============================================================================
