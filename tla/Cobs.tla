---------------------------------- MODULE Cobs ----------------------------------
(***************************************************************************)
(* cobs_encode and cobs_decode (src/protocol/cobs.c), a step per turn of   *)
(* their loops: the firmware and, byte for byte, the host library use this *)
(* code to keep the zero byte for the end of a frame.                      *)
(*                                                                         *)
(* Run stands for 0xFF, the code of a block that no zero follows and the   *)
(* largest byte.                                                           *)
(***************************************************************************)
EXTENDS Integers, Sequences

CONSTANTS Run,      \* 0xFF
          Packets,  \* what cobs_encode is given
          Damaged   \* what cobs_decode may find instead of an encoded packet

Byte == 0 .. Run

ASSUME CobsAssumption ==
  /\ Run \in Nat /\ Run >= 2
  /\ Packets \subseteq Seq(Byte)
  /\ Damaged \subseteq Seq(Byte \ {0})

VARIABLES pc,      \* "encode", "decode", then "decoded" or "refused"
          packet,  \* the input of cobs_encode
          read,    \* read_index
          done,    \* the output before code_index
          block,   \* the output after code_index
          frame,   \* the input of cobs_decode
          out,     \* its output, also where it is refused in the end
          intact   \* history: the frame is the packet, encoded

vars == <<pc, packet, read, done, block, frame, out, intact>>

Init ==
  /\ pc = "encode" /\ packet \in Packets /\ read = 0
  /\ done = <<>> /\ block = <<>>
  /\ frame = <<>> /\ out = <<>> /\ intact = TRUE

\* Mutant: the code does not count itself.
ClosedBare(b) == <<Len(b)>> \o b

\* A block with the code in front: its length and that of the code itself.
Closed(b) == <<Len(b) + 1>> \o b

\* Mutant: a block closes a byte early.
EncodeByteEager ==
  /\ pc = "encode" /\ read < Len(packet)
  /\ read' = read + 1
  /\ LET b == packet[read']
     IN IF b = 0 \/ Len(block) + 3 = Run
        THEN /\ done' = done \o Closed(IF b = 0 THEN block ELSE Append(block, b))
             /\ block' = <<>>
        ELSE block' = Append(block, b) /\ UNCHANGED done
  /\ UNCHANGED <<pc, packet, frame, out, intact>>

\* Mutant: a block closes when it has grown past the largest code.
EncodeByteLate ==
  /\ pc = "encode" /\ read < Len(packet)
  /\ read' = read + 1
  /\ LET b == packet[read']
     IN IF b = 0 \/ Len(block) + 1 = Run
        THEN /\ done' = done \o Closed(IF b = 0 THEN block ELSE Append(block, b))
             /\ block' = <<>>
        ELSE block' = Append(block, b) /\ UNCHANGED done
  /\ UNCHANGED <<pc, packet, frame, out, intact>>

EncodeByte ==
  /\ pc = "encode" /\ read < Len(packet)
  /\ read' = read + 1
  /\ LET b == packet[read']
     IN IF b = 0 \/ Len(block) + 2 = Run
        THEN /\ done' = done \o Closed(IF b = 0 THEN block ELSE Append(block, b))
             /\ block' = <<>>
        ELSE block' = Append(block, b) /\ UNCHANGED done
  /\ UNCHANGED <<pc, packet, frame, out, intact>>

\* The last block is closed and the frame goes to the decoder, or the line
\* makes something else of it: anything but a zero, which ends a frame.
Deliver ==
  /\ pc = "encode" /\ read = Len(packet)
  /\ pc' = "decode" /\ read' = 0
  /\ \/ frame' = done \o Closed(block) /\ intact' = TRUE
     \/ frame' \in Damaged /\ intact' = FALSE
  /\ UNCHANGED <<packet, done, block, out>>

\* Mutant: a zero follows every block.
ZeroAlways(code, next) == <<0>>

\* The zero that a block stands for, unless it is full or the last one.
ZeroAfter(code, next) == IF code < Run /\ next < Len(frame) THEN <<0>> ELSE <<>>

DecodeBlock ==
  /\ pc = "decode" /\ read < Len(frame)
  /\ LET code == frame[read + 1]
         next == read + code
     IN IF next <= Len(frame)
        THEN /\ out' = out \o SubSeq(frame, read + 2, next) \o ZeroAfter(code, next)
             /\ read' = next /\ UNCHANGED pc
        ELSE /\ out' = out \o SubSeq(frame, read + 2, Len(frame))
             /\ pc' = "refused" /\ UNCHANGED read
  /\ UNCHANGED <<packet, done, block, frame, intact>>

Return ==
  /\ pc = "decode" /\ read = Len(frame)
  /\ pc' = "decoded"
  /\ UNCHANGED <<packet, read, done, block, frame, out, intact>>

Next == EncodeByte \/ Deliver \/ DecodeBlock \/ Return

Spec == Init /\ [][Next]_vars
-----------------------------------------------------------------------------
TypeOK ==
  /\ pc \in {"encode", "decode", "decoded", "refused"}
  /\ packet \in Packets /\ read \in Nat
  /\ read <= (IF pc = "encode" THEN Len(packet) ELSE Len(frame))
  /\ done \in Seq(Byte) /\ block \in Seq(Byte) /\ frame \in Seq(Byte)
  /\ out \in Seq(Byte) /\ intact \in BOOLEAN

\* The decoder returns what was encoded, and on the way only a beginning of it.
RoundTrip ==
  /\ intact /\ pc # "encode" => pc # "refused" /\ \E k \in 0 .. Len(packet) : out = SubSeq(packet, 1, k)
  /\ intact /\ pc = "decoded" => out = packet

\* No zero byte in a frame: the delimiter after it is the first.
NoDelimiterInside == \A k \in DOMAIN frame : frame[k] # 0

\* A full block costs one byte more and the frame another: two for the 262 bytes that
\* a packet has at most, for which cobs_buf in send_packet (packet_parser.c:79) has room.
Overhead ==
  intact /\ pc # "encode" => Len(frame) <= Len(packet) + 1 + Len(packet) \div (Run - 1)

\* However damaged, a frame decodes to fewer bytes than it has.
DecodedShorter == out = <<>> \/ Len(out) < Len(frame)
=============================================================================
