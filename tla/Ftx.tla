----------------------------------- MODULE Ftx -----------------------------------
(***************************************************************************)
(* encode_ftx_payload (src/modes/ftx.c): a message to 77 bits, in a buffer *)
(* of 10 bytes.  pack_bits and pack_bytes, an action per field, set bits   *)
(* and clear them, so that a field that overlaps another destroys it.      *)
(***************************************************************************)
EXTENDS Integers, Sequences, SequencesExt, FtxCode

CONSTANT Messages  \* what is sent: FtxCode says what a message of each type has

VARIABLES text,    \* the payload
          todo,    \* fields still to be written: [pos, bits]
          symbols, \* the bits of the buffer
          result   \* "running" until it returns "ok"

vars == <<text, todo, symbols, result>>

Init ==
  /\ text \in Messages
  /\ todo = Writes(text) /\ symbols = [k \in 1 .. 80 |-> 0] /\ result = "running"

\* pack_bits, pack_bytes
Pack ==
  /\ result = "running" /\ todo # <<>>
  /\ LET field == Head(todo)
     IN symbols' = [k \in 1 .. 80 |-> IF k - field.pos \in DOMAIN field.bits
                                      THEN field.bits[k - field.pos] ELSE symbols[k]]
  /\ todo' = Tail(todo)
  /\ UNCHANGED <<text, result>>

Return == result = "running" /\ todo = <<>> /\ result' = "ok" /\ UNCHANGED <<text, todo, symbols>>

Next == Pack \/ Return

Spec == Init /\ [][Next]_vars
-----------------------------------------------------------------------------
(* A receiver.  It cuts the 77 bits by what the comments say a type consists   *)
(* of ("Type 3: t1 c28 c28 R1 r3 s13 i3", src/src/modes/ftx.c:552), where a    *)
(* field has the number of bits in its name, and reads each on its own.        *)

\* The widths of the fields before n3 and i3.
Widths(type) ==
  CASE type = "FREE_TEXT"              -> <<71>>
    [] type = "TELEMETRY"              -> <<71>>
    [] type = "DXPEDITION"             -> <<28, 28, 10, 5>>
    [] type = "FIELD_DAY"              -> <<28, 28, 1, 4, 3, 7>>
    [] type \in {"STD", "EU_VHF_2"}    -> <<28, 1, 28, 1, 1, 15>>
    [] type = "RTTY_RU"                -> <<1, 28, 28, 1, 3, 13>>
    [] type = "NONSTD"                 -> <<12, 58, 1, 2, 1>>
    [] type = "EU_VHF_5"               -> <<12, 22, 1, 3, 11, 25>>

i3 == Number(2, SubSeq(symbols, 75, 77))
n3 == Number(2, SubSeq(symbols, 72, 74))

TypeReceived ==
  IF i3 = 0
  THEN CASE n3 = 0 -> "FREE_TEXT" [] n3 = 1 -> "DXPEDITION"
         [] n3 \in {3, 4} -> "FIELD_DAY" [] n3 = 5 -> "TELEMETRY" [] OTHER -> "unknown"
  ELSE CASE i3 = 1 -> "STD" [] i3 = 2 -> "EU_VHF_2" [] i3 = 3 -> "RTTY_RU"
         [] i3 = 4 -> "NONSTD" [] i3 = 5 -> "EU_VHF_5" [] OTHER -> "unknown"

\* The k-th field, its bits and its number.
Field(k) ==
  LET widths == Widths(text.type)
      before == FoldLeft(+, 0, SubSeq(widths, 1, k - 1))
  IN SubSeq(symbols, before + 1, before + widths[k])

Value(k) == Number(2, Field(k))
Is(k)    == Field(k) = <<1>>

Written(s) == SelectSeq(s, LAMBDA c : c # " ")

\* The bytes of a number, and the characters it stands for.
BytesOf(bits) ==
  LET whole == [k \in 1 .. (8 - (Len(bits) % 8)) % 8 |-> 0] \o bits
  IN [k \in 1 .. Len(whole) \div 8 |-> Number(2, SubSeq(whole, 8 * k - 7, 8 * k))]

CharsOf(bits, alphabet, count) ==
  FoldLeft(LAMBDA acc, k : LET d == Divided(acc.bytes, Len(alphabet))
                           IN [bytes |-> d.quotient, chars |-> <<alphabet[d.rest + 1]>> \o acc.chars],
           [bytes |-> BytesOf(bits), chars |-> <<>>], [k \in 1 .. count |-> k]).chars

\* The characters at places in base 27, blanks left out.
Base27(n, count) ==
  Written([k \in 1 .. count |-> (Blank \o Letters)[((n \div 27 ^ (count - k)) % 27) + 1]])

CallOf(n) ==
  CASE n = 0 -> [type |-> "DE"]
    [] n = 1 -> [type |-> "QRZ"]
    [] n = 2 -> [type |-> "CQ"]
    [] n \in 3 .. 1002 ->
         [type |-> "CQ_MOD", modifier |-> <<Digits[((n - 3) \div 100) + 1],
                                            Digits[(((n - 3) \div 10) % 10) + 1],
                                            Digits[((n - 3) % 10) + 1]>>]
    [] n \in 1003 .. 2063591    -> [type |-> "CQ_MOD", modifier |-> Base27(n - 1003, 4)]
    [] n \in 2063592 .. 6257895 -> [type |-> "HASH_22", hash |-> n - 2063592]
    [] OTHER ->
         LET head == (n - 6257896) \div 19683
         IN [type |-> "CALLSIGN",
             callsign |-> Written(<<(Blank \o Digits \o Letters)[(head \div 360) + 1],
                                    (Digits \o Letters)[((head \div 10) % 36) + 1],
                                    Digits[(head % 10) + 1]>>)
                            \o Base27((n - 6257896) % 19683, 3)]

SquareOf(n) ==
  <<Letters[(n \div 1800) + 1], Letters[((n \div 100) % 18) + 1],
    Digits[((n \div 10) % 10) + 1], Digits[(n % 10) + 1]>>

AnswerOf(n) ==
  CASE n < 32400 -> [type |-> "GRID", grid |-> SquareOf(n)]
    [] n = 32401 -> [type |-> "BLANK"]
    [] n = 32402 -> [type |-> "RRR"]
    [] n = 32403 -> [type |-> "RR73"]
    [] n = 32404 -> [type |-> "73"]
    [] OTHER     -> [type |-> "REPORT", report |-> n - 32435]

ExchangeOf(n) ==
  IF n <= 7999 THEN [type |-> "SERIAL", serial |-> n] ELSE [type |-> "STATE", state |-> States[n - 8000]]

Locator(n) ==
  SquareOf(n \div 576) \o <<Letters[((n \div 24) % 24) + 1], Letters[(n % 24) + 1]>>
-----------------------------------------------------------------------------
TypeOK ==
  /\ text \in Messages /\ symbols \in [1 .. 80 -> {0, 1}] /\ result \in {"running", "ok"}
  /\ \A k \in DOMAIN todo : todo[k].bits \in Seq({0, 1})

\* A callsign, as the sender means it and as far as 28 bits have a number for it.
Meant(c) ==
  CASE c.type = "CQ_MOD"   -> [c EXCEPT !.modifier = Upper(c.modifier)]
    [] c.type = "CALLSIGN" -> [c EXCEPT !.callsign = Upper(c.callsign)]
    [] OTHER -> c

Calls(a, b) == CallOf(Value(a)) = Meant(text.c28_0) /\ CallOf(Value(b)) = Meant(text.c28_1)

FieldsReceived ==
  CASE text.type \in {"FREE_TEXT", "TELEMETRY"} -> TRUE
    [] text.type = "DXPEDITION" ->
         /\ Calls(1, 2) /\ Value(3) = text.h10 /\ 2 * Value(4) - 30 = text.r5
    [] text.type = "FIELD_DAY"  ->
         /\ Calls(1, 2) /\ Is(3) = text.R1 /\ Value(4) = text.n4
         /\ <<"A", "B", "C", "D", "E", "F">>[Value(5) + 1] = text.k3
         /\ Sections[Value(6) + 1] = text.S7 /\ (n3 = 4) = (text.transmitter_count > 16)
    [] text.type \in {"STD", "EU_VHF_2"} ->
         /\ Calls(1, 3) /\ Is(2) = text.suffix_0 /\ Is(4) = text.suffix_1 /\ Is(5) = text.R1
         /\ AnswerOf(Value(6)) = text.g15
    [] text.type = "RTTY_RU"    ->
         /\ Is(1) = text.t1 /\ Calls(2, 3) /\ Is(4) = text.R1 /\ Value(5) + 2 = text.r3
         /\ ExchangeOf(Value(6)) = text.s13
    [] text.type = "NONSTD"     ->
         /\ Value(1) = text.h12 /\ Written(CharsOf(Field(2), CallSet, 11)) = Upper(text.c58)
         /\ Is(3) = text.h1 /\ <<"BLANK", "RRR", "RR73", "73">>[Value(4) + 1] = text.r2
         /\ Is(5) = text.c1
    [] text.type = "EU_VHF_5"   ->
         /\ Value(1) = text.h12 /\ Value(2) = text.h22 /\ Is(3) = text.R1
         /\ Value(4) + 2 = text.r3 /\ Value(5) = text.s11 /\ Locator(Value(6)) = text.g25

\* A receiver reads every field of a message of every type but free text and telemetry,
\* all of which the 77 bits hold side by side, and of these that they are such.
Readable == result = "ok" => TypeReceived = text.type /\ FieldsReceived

\* "f71: 13 chars + null terminator" (src/include/modes/ftx.h:92): the 71 bits of
\* a free text are those 13 characters.
TextReadable ==
  result = "ok" /\ text.type = "FREE_TEXT" =>
    CharsOf(Field(1), TextSet, 13) = PaddedText(text.text)

\* "t71: 71 bits of telemetry fits in 9 bytes" (src/include/modes/ftx.h:113), of which
\* encode_t71 uses the lowest: they are what a receiver gets.
TelemetryReadable ==
  result = "ok" /\ text.type = "TELEMETRY" => Field(1) = SubSeq(BitsOf(text.data), 2, 72)
=============================================================================
