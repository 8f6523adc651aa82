-------------------------------- MODULE UartTx --------------------------------
(***************************************************************************)
(* The send path of the firmware (send_packet, send_uart_data and the      *)
(* transmit half of uart_isr): encoded packets go through a ring buffer    *)
(* that the interrupt handler drains.  Two threads put into it without a   *)
(* lock: the work queue (replies), which is cooperative, and main (debug   *)
(* messages), which the work queue preempts at any point, also between its *)
(* reading one of the buffer's positions and its writing it back.  When a  *)
(* reply is put there, main writes an old position: the positions may be   *)
(* out of order from then on, Zephyr's own index does not fit them, and    *)
(* the model ends (torn).  printk and the logger write their text to the   *)
(* same port behind the buffer's back.                                     *)
(*                                                                         *)
(* A byte is <<p, i, n>>, the i-th of the n bytes of packet p, the last of *)
(* which is its zero delimiter.                                            *)
(***************************************************************************)
EXTENDS Integers, Sequences

CONSTANTS TxSize,      \* RING_BUF_SIZE
          Lengths,     \* lengths of encoded packets, the delimiter included
          MaxPackets,  \* bound: packets sent
          MaxText      \* bound: bytes of console text

ASSUME TxAssumption ==
  /\ TxSize \in Nat \ {0} /\ Lengths \subseteq Nat \ {0, 1}
  /\ MaxPackets \in Nat /\ MaxText \in Nat

VARIABLES
  mem, get, tail, head, \* tx_ring_buf: its memory, and the positions of the next byte
                        \* to leave, of the end of what is committed and of what is claimed
  irq,                  \* the transmit interrupt is enabled
  main,                 \* main in send_uart_data: pc, packet p, its length n, the bytes
                        \* got so far; the part that is claimed and copied, and the
                        \* position it is at, or the one that main has read
  replying,             \* the work queue is about to enable the interrupt
  packets,              \* packets begun
  acc, last, turn,      \* the host: bytes since a delimiter, latest packet accepted,
                        \* flipped by each
  text,                 \* bytes of console text
  spoiled,              \* history: packets put short, or put by both threads at once, and
                        \* the one after these
  noise, noisy,         \* history: console text since the last delimiter, packets at
                        \* whose delimiter there was some
  raced,                \* history: a reply was put while main was in a put
  late, torn,           \* history: a reply was put since main read the position that it
                        \* writes next; main has written such a position
  judged, wrongly       \* history: the latest packet that went by, packets the host missed for no reason of their own

ring == <<mem, get, tail, head>>
races == <<raced, late, torn>>
host == <<acc, last, turn, noise, noisy, judged, wrongly>>
vars == <<mem, get, tail, head, irq, main, replying, packets, acc, last, turn,
          text, spoiled, noise, noisy, raced, late, torn, judged, wrongly>>

Zero == <<0, 1, 1>>   \* what the memory holds at first
Text == <<0, 1, 2>>   \* a character

IsDelimiter(b) == b[2] = b[3]

Least(a, b) == IF a <= b THEN a ELSE b

\* Mutant: bytes not yet sent count as free.
FreeAlways == TxSize

Free == TxSize - (head - get)

\* The memory with bytes i .. j of packet p, n long, written from position at on.
Written(p, n, at, i, j) ==
  [x \in DOMAIN mem |->
    IF \E k \in i .. j : (at + k - i) % TxSize = x
    THEN <<p, CHOOSE k \in i .. j : (at + k - i) % TxSize = x, n>>
    ELSE mem[x]]

NotSending == [pc |-> "idle", p |-> 0, n |-> 0, got |-> 0, at |-> 0, part |-> 0, copied |-> 0]

Init ==
  /\ mem = [x \in 0 .. TxSize - 1 |-> Zero]
  /\ get = 0 /\ tail = 0 /\ head = 0
  /\ irq = FALSE /\ main = NotSending /\ replying = FALSE /\ packets = 0
  /\ acc = <<>> /\ last = 0 /\ turn = FALSE /\ text = 0
  /\ spoiled = {} /\ noise = FALSE /\ noisy = {} /\ judged = 0 /\ wrongly = {}
  /\ raced = FALSE /\ late = FALSE /\ torn = FALSE
-----------------------------------------------------------------------------
(* Zephyr's ring_buf_put: it claims a part, up to the end of the memory at   *)
(* most, and copies it, until it has all or a claim gets nothing; then it     *)
(* finishes, which refuses more than is claimed and forgets other claims.  In *)
(* main each position is read in one step and written in a later one; what is *)
(* written may also be reckoned from the position as it is by then, which is  *)
(* no better: torn does not tell the two apart.                               *)

Begin(n) ==
  /\ packets < MaxPackets
  /\ packets' = packets + 1

\* main, in state m, reads where its next part goes and how long that can be.
Claim(m) ==
  LET part == Least(m.n - m.got, Least(Free, TxSize - (head % TxSize)))
  IN main' = [m EXCEPT !.pc = "claim", !.at = head, !.part = part, !.copied = 0]

\* main: debug_printf, from the boot messages and the status line of its loop.
MainPut(n) ==
  /\ main.pc = "idle" /\ ~replying
  /\ Begin(n)
  /\ Claim([NotSending EXCEPT !.p = packets', !.n = n])
  /\ UNCHANGED <<ring, irq, replying, host, text, spoiled, races>>

MainTake ==
  /\ main.pc = "claim" /\ ~replying
  /\ main' = [main EXCEPT !.pc = "copy", !.got = @ + main.part]
  /\ \E position \in {main.at, head} : head' = position + main.part
  /\ torn' = late
  /\ UNCHANGED <<mem, get, tail, irq, replying, packets, host, text, spoiled, raced, late>>

MainCopy ==
  /\ main.pc = "copy" /\ main.copied < main.part /\ ~replying
  /\ main' = [main EXCEPT !.copied = @ + 1]
  /\ LET k == main.got - main.part + main.copied + 1
     IN mem' = Written(main.p, main.n, main.at + main.copied, k, k)
  /\ UNCHANGED <<get, tail, head, irq, replying, packets, host, text, spoiled, races>>

Copied == main.pc = "copy" /\ main.copied = main.part /\ ~replying

MainClaim ==
  /\ Copied /\ main.part > 0 /\ main.got < main.n
  /\ Claim(main)
  /\ UNCHANGED <<ring, irq, replying, packets, host, text, spoiled, races>>

\* Mutant: everything is committed, whatever was claimed.
MainFinishAnyway ==
  /\ Copied /\ (main.part = 0 \/ main.got = main.n)
  /\ main' = [main EXCEPT !.pc = "finish", !.at = tail]
  /\ spoiled' = IF main.got < main.n THEN spoiled \cup {main.p} ELSE spoiled
  /\ UNCHANGED <<ring, irq, replying, packets, host, text, races>>

\* What main has got is compared with what is claimed.
MainFinish ==
  /\ Copied /\ (main.part = 0 \/ main.got = main.n)
  /\ main' = IF main.got <= head - tail
             THEN [main EXCEPT !.pc = "finish", !.at = tail]
             ELSE [main EXCEPT !.pc = "enable"]
  /\ spoiled' = IF main.got < main.n THEN spoiled \cup {main.p} ELSE spoiled
  /\ UNCHANGED <<ring, irq, replying, packets, host, text, races>>

MainCommit ==
  /\ main.pc = "finish" /\ ~replying
  /\ \E position \in {main.at, tail} : tail' = position + main.got
  /\ main' = [main EXCEPT !.pc = "commit", !.at = tail']
  /\ torn' = late
  /\ UNCHANGED <<mem, get, head, irq, replying, packets, host, text, spoiled, raced, late>>

MainForget ==
  /\ main.pc = "commit" /\ ~replying
  /\ head' \in {main.at, tail}
  /\ main' = [main EXCEPT !.pc = "enable"]
  /\ torn' = late
  /\ UNCHANGED <<mem, get, tail, irq, replying, packets, host, text, spoiled, raced, late>>

\* Mutant: main does not enable the interrupt.
MainEnableNot ==
  /\ main.pc = "enable" /\ ~replying
  /\ main' = NotSending
  /\ UNCHANGED <<ring, irq, replying, packets, host, text, spoiled, races>>

MainEnable ==
  /\ main.pc = "enable" /\ ~replying
  /\ irq' = TRUE /\ main' = NotSending
  /\ UNCHANGED <<ring, replying, packets, host, text, spoiled, races>>

\* The work queue: send_packet from a command handler.  Nothing but interrupts
\* comes between the steps of its put, and those only free space.
ReplyPut(n) ==
  /\ ~replying /\ replying' = TRUE
  /\ Begin(n)
  /\ LET got == Least(n, Free)
         during == main.pc \in {"claim", "copy", "finish", "commit"}
     IN /\ mem' = Written(packets', n, head, 1, got)
        /\ tail' = tail + got /\ head' = tail + got
        /\ spoiled' = spoiled \cup (IF during THEN {main.p, packets', packets' + 1} ELSE {})
                              \cup (IF got < n THEN {packets'} ELSE {})
        /\ raced' = (raced \/ during)
        /\ late' = (late \/ (during /\ main.pc # "copy"))
  /\ UNCHANGED <<get, irq, main, host, text, torn>>

\* Mutant: the interrupt is enabled for more than one short packet only.
ReplyEnableLate ==
  /\ replying /\ replying' = FALSE
  /\ irq' = (irq \/ tail - get > 2)
  /\ UNCHANGED <<ring, main, packets, host, text, spoiled, races>>

ReplyEnable ==
  /\ replying /\ replying' = FALSE
  /\ irq' = TRUE
  /\ UNCHANGED <<ring, main, packets, host, text, spoiled, races>>
-----------------------------------------------------------------------------
(* The other end: the host's reader cuts at delimiters and accepts the packet *)
(* at the start of what it cut when it is whole.  When more bytes follow it,   *)
(* the decoder may fail on them.                                               *)

BeginsWith(p, n) ==
  /\ p > 0 /\ Len(acc) >= n - 1
  /\ \A i \in 1 .. n - 1 : acc[i] = <<p, i, n>>

HostReads(b) ==
  IF ~IsDelimiter(b)
  THEN acc' = Append(acc, b) /\ UNCHANGED <<last, turn, noise, noisy, judged, wrongly>>
  ELSE /\ acc' = <<>> /\ noise' = FALSE
       /\ IF acc # <<>> /\ BeginsWith(acc[1][1], acc[1][3])
          THEN \/ last' = acc[1][1] /\ turn' = ~turn
               \/ Len(acc) >= acc[1][3] /\ UNCHANGED <<last, turn>>
          ELSE UNCHANGED <<last, turn>>
       /\ judged' = IF b[1] > judged THEN b[1] ELSE judged
       /\ noisy' = IF noise THEN noisy \cup {b[1]} ELSE noisy
       /\ wrongly' = wrongly \cup {p \in (judged + 1) .. b[1] :
                       p # last' /\ p \notin noisy' /\ {p - 1, p} \cap spoiled = {}}

\* Mutant: two bytes are taken out for one that the driver took.
IsrSendTwo ==
  /\ irq /\ get < tail
  /\ get' = Least(get + 2, tail)
  /\ HostReads(mem[get % TxSize])
  /\ UNCHANGED <<mem, tail, head, irq, main, replying, packets, text, spoiled, races>>

\* uart_isr with something to send; the driver takes a byte at a time.
IsrSend ==
  /\ irq /\ get < tail
  /\ get' = get + 1
  /\ HostReads(mem[get % TxSize])
  /\ UNCHANGED <<mem, tail, head, irq, main, replying, packets, text, spoiled, races>>

\* uart_isr with nothing to send.
IsrEmpty ==
  /\ irq /\ get = tail
  /\ irq' = FALSE
  /\ UNCHANGED <<ring, main, replying, packets, host, text, spoiled, races>>

\* printk and the log thread, by way of uart_poll_out.
Console ==
  /\ text < MaxText /\ text' = text + 1
  /\ acc' = Append(acc, Text) /\ noise' = TRUE
  /\ UNCHANGED <<ring, irq, main, replying, packets, last, turn, noisy, spoiled, races,
                 judged, wrongly>>

MainWorks == MainTake \/ MainCopy \/ MainClaim \/ MainFinish \/ MainCommit \/ MainForget \/ MainEnable

Main    == ~torn /\ ((\E n \in Lengths : MainPut(n)) \/ MainWorks)
Reply   == ~torn /\ ((\E n \in Lengths : ReplyPut(n)) \/ ReplyEnable)
Isr     == ~torn /\ (IsrSend \/ IsrEmpty)
Outside == ~torn /\ Console

Next == Main \/ Reply \/ Isr \/ Outside

Spec == Init /\ [][Next]_vars

\* A put that has begun ends, and an enabled interrupt is served.
FairSpec == /\ Spec /\ WF_vars(Isr) /\ WF_vars(~torn /\ ReplyEnable) /\ WF_vars(~torn /\ MainWorks)
-----------------------------------------------------------------------------
Bytes == (0 .. MaxPackets) \X Nat \X Nat

TypeOK ==
  /\ mem \in [0 .. TxSize - 1 -> Bytes]
  /\ get \in Nat /\ tail \in Nat /\ head \in Nat
  /\ irq \in BOOLEAN /\ replying \in BOOLEAN /\ noise \in BOOLEAN /\ turn \in BOOLEAN
  /\ raced \in BOOLEAN /\ late \in BOOLEAN /\ torn \in BOOLEAN
  /\ main.pc \in {"idle", "claim", "copy", "finish", "commit", "enable"} /\ main.copied <= main.part
  /\ packets \in 0 .. MaxPackets /\ last \in 0 .. MaxPackets /\ text \in 0 .. MaxText
  /\ acc \in Seq(Bytes)
  /\ spoiled \subseteq 1 .. (MaxPackets + 1)
  /\ judged \in 0 .. MaxPackets /\ noisy \subseteq 0 .. MaxPackets /\ wrongly \subseteq 1 .. MaxPackets

\* The ring's positions are in order and within its size, whatever interrupts come
\* and whatever replies are put while main is in a put, as long as none is put between
\* main's reading a position and its writing it.
InOrder == get <= tail /\ tail <= head /\ head - get <= TxSize

RingInOrder == TypeOK /\ (torn \/ InOrder)

\* Bytes never wait for an interrupt nobody will enable: the handler disables it
\* only when it finds the buffer empty, and who fills it enables it afterwards.
Kicked == get < tail => irq \/ replying \/ main.pc \in {"commit", "enable"}

\* A packet cut short by a full buffer costs at most itself and the next packet;
\* puts of the two threads at once, the packets in them and the next two, unless
\* the reply came between main's reading a position and its writing it; console text,
\* the packet whose delimiter comes next.
DamageIsLocal == torn \/ wrongly = {}

\* Unless the two threads put at once, the path is a channel that may lose
\* packets: nothing is forged, repeated or reordered.
Path == INSTANCE Channel WITH sent <- packets

InOrderUnlessRaced == [][raced' \/ Path!Next \/ UNCHANGED Path!vars]_vars

\* What is committed leaves: once a buffer's worth of bytes has been committed,
\* as much gets sent.
Drained == (tail >= TxSize) ~> (torn \/ get >= TxSize)

\* packet_parser.c:81 calls the zero byte the "frame delimiter": between two of
\* them the line carries bytes of one packet only (no console text and a buffer
\* that has room, as the run's constants say).
OneFrameBetweenDelimiters ==
  \A i, j \in DOMAIN acc : acc[i][1] = acc[j][1]
=============================================================================
