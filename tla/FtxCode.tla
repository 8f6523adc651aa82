--------------------------------- MODULE FtxCode ---------------------------------
(***************************************************************************)
(* The fields of an FTX message (src/modes/ftx.c): what each of them is as *)
(* a number, and what encode_ftx_payload writes where.                     *)
(*                                                                         *)
(* The unions of ftx.h are records with a type; sections and states, which *)
(* are looked up whole, are strings in upper case.                         *)
(***************************************************************************)
EXTENDS Integers, Sequences, SequencesExt, Chars

Blank   == <<" ">>
CallSet == Blank \o Digits \o Letters \o <<"/">>
TextSet == Blank \o Digits \o Letters \o <<"+", "-", ".", "/", "?">>

LowerCase == <<"a", "b", "c", "d", "e", "f", "g", "h", "i", "j", "k", "l", "m",
               "n", "o", "p", "q", "r", "s", "t", "u", "v", "w", "x", "y", "z">>

Upper(s) ==
  [k \in DOMAIN s |-> IF s[k] \in ToSet(LowerCase) THEN Letters[Place(LowerCase, s[k]) + 1]
                      ELSE s[k]]

\* strchr: the place of a character, and 0 of one that is not there.
Index(alphabet, c) == IF c \in ToSet(alphabet) THEN Place(alphabet, c) ELSE 0

Blanks(n) == [k \in 1 .. n |-> " "]
-----------------------------------------------------------------------------
(* encode_c28: who calls and who is called *)

Modifier(s) ==
  CASE s = <<>> -> 2
    [] Len(s) = 3 /\ \A k \in DOMAIN s : Digit(s[k]) ->
         3 + Number(10, [k \in DOMAIN s |-> Place(Digits, s[k])])
    [] OTHER -> 1003 + Number(27, [k \in DOMAIN s |-> Index(Blank \o Letters, s[k])])

\* Mutant: the search for the digit stops at the first.
PlacedFirst(s) ==
  LET digits == {k \in DOMAIN s : k <= 3 /\ Digit(s[k])}
  IN IF digits = {} THEN Blanks(6) ELSE SubSeq(Blanks(3 - Min(digits)) \o s \o Blanks(6), 1, 6)

\* A callsign in six places: the last digit among the first three characters in
\* the third place, what does not fit dropped, nothing if there is no digit.
Placed(s) ==
  LET digits == {k \in DOMAIN s : k <= 3 /\ Digit(s[k])}
  IN IF digits = {} THEN Blanks(6) ELSE SubSeq(Blanks(3 - Max(digits)) \o s \o Blanks(6), 1, 6)

Standard(p) ==
  6257896 + Index(Blank \o Digits \o Letters, p[1]) * 7085880
    + Index(Digits \o Letters, p[2]) * 196830 + Index(Digits, p[3]) * 19683
    + Number(27, [k \in 1 .. 3 |-> Index(Blank \o Letters, p[k + 3])])

C28(c) ==
  CASE c.type = "DE"       -> 0
    [] c.type = "QRZ"      -> 1
    [] c.type = "CQ"       -> 2
    [] c.type = "CQ_MOD"   -> Modifier(Upper(c.modifier))
    [] c.type = "HASH_22"  -> 2063592 + c.hash
    [] c.type = "CALLSIGN" -> Standard(Placed(Upper(c.callsign)))
-----------------------------------------------------------------------------
(* Grid squares, reports and the fields of contests *)

MAXGRID4 == 32400

\* encode_g15.  Letters are taken up to Z.
G15(g) ==
  CASE g.type = "GRID" /\ ~ (Letter(g.grid[1]) /\ Letter(g.grid[2])
                               /\ Digit(g.grid[3]) /\ Digit(g.grid[4])) -> 0
    [] g.type = "GRID"   -> 1800 * Place(Letters, g.grid[1]) + 100 * Place(Letters, g.grid[2])
                              + 10 * Place(Digits, g.grid[3]) + Place(Digits, g.grid[4])
    [] g.type = "BLANK"  -> MAXGRID4 + 1
    [] g.type = "RRR"    -> MAXGRID4 + 2
    [] g.type = "RR73"   -> MAXGRID4 + 3
    [] g.type = "73"     -> MAXGRID4 + 4
    [] g.type = "REPORT" -> MAXGRID4 + g.report + 35

\* encode_g25
G25(g) ==
  IF \/ Len(g) # 6
     \/ ~ {g[1], g[2]} \subseteq ToSet(SubSeq(Letters, 1, 18)) \/ ~ Digit(g[3]) \/ ~ Digit(g[4])
     \/ ~ {g[5], g[6]} \subseteq ToSet(SubSeq(Letters, 1, 24))
  THEN 0
  ELSE ((1800 * Place(Letters, g[1]) + 100 * Place(Letters, g[2])
           + 10 * Place(Digits, g[3]) + Place(Digits, g[4])) * 24
           + Place(Letters, g[5])) * 24 + Place(Letters, g[6])

\* encode_S7, and 0 for a section that is not in the table.
Sections ==
  <<"AB",  "AK",  "AL",  "AR",  "AZ",  "BC",  "CO",  "CT",  "DE",  "EB",
    "EMA", "ENY", "EPA", "EWA", "GA",  "GTA", "IA",  "ID",  "IL",  "IN",
    "KS",  "KY",  "LA",  "LAX", "MAR", "MB",  "MDC", "ME",  "MI",  "MN",
    "MO",  "MS",  "MT",  "NC",  "ND",  "NE",  "NFL", "NH",  "NL",  "NLI",
    "NM",  "NNJ", "NNY", "NT",  "NTX", "NV",  "OH",  "OK",  "ONE", "ONN",
    "ONS", "OR",  "ORG", "PAC", "PR",  "QC",  "RI",  "SB",  "SC",  "SCV",
    "SD",  "SDG", "SF",  "SFL", "SJV", "SK",  "SNJ", "STX", "SV",  "TN",
    "UT",  "VA",  "VI",  "VT",  "WCF", "WI",  "WMA", "WNY", "WPA", "WTX",
    "WV",  "WWA", "WY",  "DX">>

S7(section) == Index(Sections, section)

\* encode_s13: a serial number, or a state.
States ==
  <<"AL", "AK", "AZ", "AR", "CA", "CO", "CT", "DE", "FL", "GA", "HI", "ID", "IL", "IN", "IA",
    "KS", "KY", "LA", "ME", "MD", "MA", "MI", "MN", "MS", "MO", "MT", "NE", "NV", "NH", "NJ",
    "NM", "NY", "NC", "ND", "OH", "OK", "OR", "PA", "RI", "SC", "SD", "TN", "TX", "UT", "VT",
    "VA", "WA", "WV", "WI", "WY", "NB", "NS", "QC", "ON", "MB", "SK", "AB", "BC", "NWT", "NF",
    "LB", "NU", "YT", "PEI", "DC">>

S13(s) ==
  CASE s.type = "SERIAL" -> IF s.serial <= 7999 THEN s.serial ELSE 0
    [] s.type = "STATE"  -> IF s.state \in ToSet(States) THEN 8001 + Place(States, s.state) ELSE 0

\* encode_r2, encode_r3, encode_r5, encode_k3
R2(r) == CASE r = "RRR" -> 1 [] r = "RR73" -> 2 [] r = "73" -> 3 [] OTHER -> 0

R3(report) == IF report \in 2 .. 9 THEN report - 2 ELSE 0

R5(report) == (Max({-30, Min({32, report})}) + 30) \div 2

K3(class) == Index(<<"A", "B", "C", "D", "E", "F">>, class)
-----------------------------------------------------------------------------
(* Numbers of more than 32 bits, as bytes, the highest first *)

\* Times a base and plus a digit, from the last byte to the first.
Appended(bytes, base, digit) ==
  FoldRight(LAMBDA byte, acc : [bytes |-> <<(byte * base + acc.carry) % 256>> \o acc.bytes,
                                carry |-> (byte * base + acc.carry) \div 256],
            bytes, [bytes |-> <<>>, carry |-> digit]).bytes

InBytes(size, alphabet, s) ==
  FoldLeft(LAMBDA bytes, c : Appended(bytes, Len(alphabet), Index(alphabet, c)),
           [k \in 1 .. size |-> 0], s)

\* encode_f71: 13 characters, to the right; encode_c58: 11 characters, to the left.
PaddedText(s) == Blanks(13 - Min({13, Len(s)})) \o SubSeq(Upper(s), 1, Min({13, Len(s)}))

F71(s) == InBytes(9, TextSet, PaddedText(s))
C58(s) == InBytes(8, CallSet, SubSeq(Upper(s) \o Blanks(11), 1, 11))

BitsOf(bytes) == FlattenSeq([k \in DOMAIN bytes |-> Bits(bytes[k], 8)])

HexDigits == Digits \o SubSeq(Letters, 1, 6)

\* encode_t71: up to 18 hexadecimal digits, to the right; the first of 18 loses what
\* is above 71 bits.
T71(s) ==
  LET hex   == SubSeq(Upper(s), 1, Min({18, Len(s)}))
      value == [k \in DOMAIN hex |-> Index(HexDigits, hex[k])]
      top   == IF Len(hex) = 18 THEN [value EXCEPT ![1] = Min({7, @})] ELSE value
      all   == [k \in 1 .. 18 - Len(hex) |-> 0] \o top
  IN [k \in 1 .. 9 |-> 16 * all[2 * k - 1] + all[2 * k]]
-----------------------------------------------------------------------------
(* encode_ftx_payload *)

At(pos, bits) == [pos |-> pos, bits |-> bits]
Flag(b) == IF b THEN <<1>> ELSE <<0>>

I3(n) == At(74, Bits(n, 3))  \* payload_set_i3
N3(n) == At(71, Bits(n, 3))  \* payload_set_n3

\* FTX_MODE_STD and FTX_MODE_EU_VHF_2: /R or /P after a callsign.
TwoCalls(m, i3) ==
  <<At(0, Bits(C28(m.c28_0), 28)), At(28, Flag(m.suffix_0)),
    At(29, Bits(C28(m.c28_1), 28)), At(57, Flag(m.suffix_1)),
    At(58, Flag(m.R1)), At(59, Bits(G15(m.g15), 15)), I3(i3)>>

\* What is written for a message, in this order.
Writes(m) ==
  CASE m.type = "FREE_TEXT" ->
         <<At(0, SubSeq(BitsOf(F71(m.text)), 1, 71)), I3(0), N3(0)>>
    [] m.type = "DXPEDITION" ->
         <<At(0, Bits(C28(m.c28_0), 28)), At(28, Bits(C28(m.c28_1), 28)),
           At(56, Bits(m.h10, 10)), At(66, Bits(R5(m.r5), 5)), I3(0), N3(1)>>
    [] m.type = "FIELD_DAY" ->
         <<At(0, Bits(C28(m.c28_0), 28)), At(28, Bits(C28(m.c28_1), 28)), At(56, Flag(m.R1)),
           At(57, Bits(m.n4, 4)), At(61, Bits(K3(m.k3), 3)), At(64, Bits(S7(m.S7), 7)),
           I3(0), N3(IF m.transmitter_count > 16 THEN 4 ELSE 3)>>
    [] m.type = "TELEMETRY" -> <<At(0, SubSeq(BitsOf(m.data), 1, 71)), I3(0), N3(5)>>
    [] m.type = "STD"      -> TwoCalls(m, 1)
    [] m.type = "EU_VHF_2" -> TwoCalls(m, 2)
    [] m.type = "RTTY_RU" ->
         <<At(0, Flag(m.t1)), At(1, Bits(C28(m.c28_0), 28)), At(29, Bits(C28(m.c28_1), 28)),
           At(57, Flag(m.R1)), At(58, Bits(R3(m.r3), 3)), At(61, Bits(S13(m.s13), 13)), I3(3)>>
    [] m.type = "NONSTD" ->
         <<At(0, Bits(m.h12, 12)), At(12, SubSeq(BitsOf(C58(m.c58)), 7, 64)),
           At(70, Flag(m.h1)), At(71, Bits(R2(m.r2), 2)), At(73, Flag(m.c1)), I3(4)>>
    [] m.type = "EU_VHF_5" ->
         <<At(0, Bits(m.h12, 12)), At(12, Bits(m.h22, 22)), At(34, Flag(m.R1)),
           At(35, Bits(R3(m.r3), 3)), At(38, Bits(m.s11, 11)), At(49, Bits(G25(m.g25), 25)),
           I3(5)>>
=============================================================================
