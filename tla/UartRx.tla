-------------------------------- MODULE UartRx --------------------------------
(***************************************************************************)
(* The receive path of the firmware (src/uart_handler.c, cobs_decode and   *)
(* parse_dispatch_packet): the interrupt handler collects bytes in a ring  *)
(* buffer; a zero byte ends a frame, which it decodes and puts in a message *)
(* queue; a work item empties the queue and dispatches each packet.        *)
(*                                                                         *)
(* A byte that is not zero is <<f, i, n>>: the i-th of the n bytes of frame *)
(* f; Delimiter is the zero byte and Junk one the line made up.  The line loses *)
(* and damages bytes (an overrun of the receiver, noise).  Constants stand *)
(* for 512, 302, 300, 264 and 4.                                           *)
(***************************************************************************)
EXTENDS Integers, Sequences

CONSTANTS RingSize,    \* RING_BUF_SIZE
          CobsMax,     \* COBS_BUF_MAX, the bytes taken at a delimiter
          DecodedMax,  \* DECODED_PKT_MAX
          FrameMax,    \* bytes before the delimiter in the longest frame
          QueueDepth,  \* RX_QUEUE_DEPTH
          MaxFrames,   \* bound: frames the host sends
          MaxFaults    \* bound: bytes the line loses or damages

ASSUME RxAssumption ==
  /\ {RingSize, CobsMax, DecodedMax, FrameMax, QueueDepth} \subseteq Nat \ {0}
  /\ FrameMax < CobsMax /\ FrameMax - 1 <= DecodedMax /\ CobsMax <= RingSize
  /\ MaxFrames \in Nat /\ MaxFaults \in Nat

VARIABLES
  sent,        \* frames the host has begun to send
  size, pos,   \* bytes before the delimiter of the latest, bytes of it on the line so far
  faults,      \* bytes lost or damaged
  ring,        \* rx_ring_buf
  msgq,        \* rx_pkt_msgq: frame numbers, Bad for what the parser refuses
  rxWork,      \* rx_dispatch_work is queued
  pc, msg,     \* the work queue thread in rx_dispatch_handler, the message it holds
  last, turn,  \* history: the latest frame dispatched, flipped by each
  clean,       \* history: frames received since the last fault, up to Recovery
  hurt,        \* history: a fault in the frame on the line
  due          \* history: frames that have yet to be dispatched

line  == <<sent, size, pos, faults>>
queue == <<msgq, rxWork>>
thread == <<pc, msg, last, turn>>
vars  == <<sent, size, pos, faults, ring, msgq, rxWork, pc, msg, last, turn,
           clean, hurt, due>>

Delimiter == <<0, 0, 0>>
Junk == <<0, 1, 0>>
Bad  == 0      \* a message parse_dispatch_packet refuses
None == -1     \* cobs_decode fails

Least(a, b) == IF a <= b THEN a ELSE b

\* Frames after a fault that may be lost: the first ends at most with what did
\* not fit in CobsMax, each next one takes at least CobsMax - FrameMax of it.
Recovery == 1 + (RingSize - CobsMax + CobsMax - FrameMax - 1) \div (CobsMax - FrameMax)

Residue(k) ==
  LET r == RingSize - CobsMax - (k - 1) * (CobsMax - FrameMax)
  IN IF r < 0 THEN 0 ELSE r

Init ==
  /\ sent = 0 /\ size = 0 /\ pos = 0 /\ faults = 0
  /\ ring = <<>> /\ msgq = <<>> /\ rxWork = FALSE
  /\ pc = "idle" /\ msg = Bad /\ last = 0 /\ turn = FALSE
  /\ clean = Recovery /\ hurt = FALSE /\ due = {}
-----------------------------------------------------------------------------
(* Decoding *)

\* The bytes from position a on begin with a whole frame.
FrameAt(bytes, a) ==
  LET n == bytes[a][3]
  IN /\ n > 0 /\ a + n - 1 <= Len(bytes)
     /\ \A i \in 1 .. n : bytes[a + i - 1] = <<bytes[a][1], i, n>>

\* Nothing but whole frames.  Their COBS blocks end where they do, so that the
\* decoder gets through to the end.
WholeFrames(bytes) ==
  \A i \in DOMAIN bytes :
    LET a == i - bytes[i][2] + 1 IN a \in 1 .. i /\ FrameAt(bytes, a)

\* Mutant: the packet is taken for whole, its CRC is not looked at.
DecodeUnchecked(bytes) == {bytes[1][1]}

\* cobs_decode with the checks that follow it, then those of the parser, which
\* looks at the first packet and ignores what comes after: a frame whose
\* delimiter was lost is still read when what follows decodes.  The CRC refuses
\* a damaged packet.  CobsMax bytes decode to one more than DecodedMax unless
\* one of their blocks is a long one.
Decode(bytes) ==
  (IF Len(bytes) - 1 > DecodedMax \/ ~WholeFrames(bytes) THEN {None} ELSE {})
  \cup {IF FrameAt(bytes, 1) THEN bytes[1][1] ELSE Bad}
-----------------------------------------------------------------------------
(* uart_isr, for one byte *)

Enqueue(m) ==
  IF Len(msgq) < QueueDepth
  THEN msgq' = Append(msgq, m) /\ rxWork' = TRUE
  ELSE UNCHANGED queue

\* Mutant: a delimiter takes a byte less than the longest frame has.
EndOfFrameShort ==
  LET n == Least(Len(ring), FrameMax - 1)
  IN /\ ring' = SubSeq(ring, n + 1, Len(ring))
     /\ IF n = 0 THEN UNCHANGED queue
        ELSE \E m \in Decode(SubSeq(ring, 1, n)) :
               IF m = None THEN UNCHANGED queue ELSE Enqueue(m)

EndOfFrame ==
  LET n == Least(Len(ring), CobsMax)
  IN /\ ring' = SubSeq(ring, n + 1, Len(ring))
     /\ IF n = 0 THEN UNCHANGED queue
        ELSE \E m \in Decode(SubSeq(ring, 1, n)) :
               IF m = None THEN UNCHANGED queue ELSE Enqueue(m)

Store(b) ==
  /\ ring' = IF Len(ring) < RingSize THEN Append(ring, b) ELSE ring
  /\ UNCHANGED queue

Receive(b) == IF b = Delimiter THEN EndOfFrame ELSE Store(b)
-----------------------------------------------------------------------------
(* The host's frames on the line *)

\* The host begins its next frame.
SendFrame ==
  /\ pos = size + 1 \/ sent = 0
  /\ sent < MaxFrames
  /\ sent' = sent + 1 /\ pos' = 0 /\ hurt' = FALSE
  /\ size' \in 1 .. FrameMax
  /\ UNCHANGED <<faults, ring, queue, thread, clean, due>>

OnLine == sent > 0 /\ pos <= size

NextByte == IF pos = size THEN Delimiter ELSE <<sent, pos + 1, size>>

\* A frame that arrives unhurt, Recovery others or more after the last fault,
\* must be dispatched unless the queue is full.
Account ==
  IF pos = size /\ ~hurt
  THEN /\ clean' = Least(clean + 1, Recovery)
       /\ due' = IF clean = Recovery /\ Len(msgq) < QueueDepth
                 THEN due \cup {sent} ELSE due
  ELSE UNCHANGED <<clean, due>>

ByteArrives ==
  /\ OnLine /\ pos' = pos + 1
  /\ Receive(NextByte)
  /\ Account
  /\ UNCHANGED <<sent, size, faults, thread, hurt>>

Fault ==
  /\ OnLine /\ faults < MaxFaults
  /\ pos' = pos + 1 /\ faults' = faults + 1
  /\ hurt' = TRUE /\ clean' = 0
  /\ UNCHANGED <<sent, size, thread, due>>

ByteLost == Fault /\ UNCHANGED <<ring, queue>>

ByteDamaged == Fault /\ \E b \in {Junk, Delimiter} \ {NextByte} : Receive(b)
-----------------------------------------------------------------------------
(* rx_dispatch_handler, on the work queue thread *)

RunWork ==
  /\ pc = "idle" /\ rxWork
  /\ rxWork' = FALSE /\ pc' = "get"
  /\ UNCHANGED <<line, ring, msgq, msg, last, turn, clean, hurt, due>>

GetMessage ==
  /\ pc = "get" /\ msgq # <<>>
  /\ msg' = Head(msgq) /\ msgq' = Tail(msgq)
  /\ pc' = "dispatch"
  /\ UNCHANGED <<line, ring, rxWork, last, turn, clean, hurt, due>>

QueueEmpty ==
  /\ pc = "get" /\ msgq = <<>>
  /\ pc' = "idle"
  /\ UNCHANGED <<line, ring, queue, msg, last, turn, clean, hurt, due>>

\* Mutant: the handler takes one message and returns.
DispatchOne ==
  /\ pc = "dispatch" /\ pc' = "idle" /\ msg' = Bad
  /\ IF msg = Bad THEN UNCHANGED <<last, turn>> ELSE last' = msg /\ turn' = ~turn
  /\ due' = due \ {msg}
  /\ UNCHANGED <<line, ring, queue, clean, hurt>>

\* parse_dispatch_packet and the handler of the command it finds.
Dispatch ==
  /\ pc = "dispatch" /\ pc' = "get" /\ msg' = Bad
  /\ IF msg = Bad THEN UNCHANGED <<last, turn>> ELSE last' = msg /\ turn' = ~turn
  /\ due' = due \ {msg}
  /\ UNCHANGED <<line, ring, queue, clean, hurt>>

Thread == RunWork \/ GetMessage \/ QueueEmpty \/ Dispatch

Next == SendFrame \/ ByteArrives \/ ByteLost \/ ByteDamaged \/ Thread

Spec == Init /\ [][Next]_vars

\* The work queue runs; the host may stop sending at any point.
FairSpec == Spec /\ WF_vars(Thread)
-----------------------------------------------------------------------------
Bytes == {Junk} \cup ((1 .. MaxFrames) \X (1 .. FrameMax) \X (1 .. FrameMax))

TypeOK ==
  /\ sent \in 0 .. MaxFrames /\ size \in 0 .. FrameMax /\ pos \in 0 .. (FrameMax + 1)
  /\ faults \in 0 .. MaxFaults
  /\ ring \in Seq(Bytes) /\ Len(ring) <= RingSize
  /\ msgq \in Seq(0 .. MaxFrames) /\ Len(msgq) <= QueueDepth
  /\ rxWork \in BOOLEAN /\ pc \in {"idle", "get", "dispatch"}
  /\ msg \in 0 .. MaxFrames /\ last \in 0 .. MaxFrames
  /\ clean \in 0 .. Recovery /\ hurt \in BOOLEAN /\ turn \in BOOLEAN
  /\ due \in SUBSET (1 .. MaxFrames)

\* A queued packet is never stranded: a message waits in rx_pkt_msgq only while
\* the work item is queued or its handler is still going round its loop.
NoLostWakeup == msgq # <<>> => rxWork \/ pc # "idle"

\* What a fault leaves behind in the ring shrinks with every frame: after k
\* unhurt frames at most Residue(k) stale bytes precede the frame on the line.
ResidueShrinks ==
  /\ TypeOK
  /\ clean >= 1 => Len(ring) <= Residue(clean) + (IF OnLine THEN pos ELSE 0)

\* Once Recovery frames have arrived unhurt, every further one that finds room
\* in the queue is dispatched: none is lost to old bytes or to the ring's limit.
InSync ==
  \A f \in due :
    \/ pc = "dispatch" /\ msg = f
    \/ \E i \in DOMAIN msgq : msgq[i] = f

\* The path implements a channel that may lose packets: none is forged, repeated
\* or overtaken, whatever the line does to the bytes.
Path == INSTANCE Channel

IsChannel == Path!Spec

\* A packet that found room in the queue is handled.
Handled == \A f \in 1 .. MaxFrames : (f \in due) ~> (f \notin due)
=============================================================================
