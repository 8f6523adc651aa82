-------------------------------- MODULE Encoders --------------------------------
(***************************************************************************)
(* The encoders that have code (src/modes), one of which is called with one *)
(* payload: the modules Cw, Rtty, Wspr and Ftx over the same variables.     *)
(***************************************************************************)
EXTENDS Naturals, Sequences

CONSTANTS CwTexts, RttyTexts, WsprMessages, FtxMessages  \* the payloads

\* A text is a string of characters.
ASSUME TextsAssumption == CwTexts \cup RttyTexts \subseteq Seq(STRING)

VARIABLES mode,      \* the encoder that was called: "cw", "rtty", "wspr" or "ftx"
          text,      \* its payload
          todo,      \* what is left of it
          capacity,  \* symbols the array has room for
          shift,     \* current_state of RTTY, shift_reg of WSPR
          symbols,   \* the array so far
          result     \* "running" until it returns

vars == <<mode, text, todo, capacity, shift, symbols, result>>

C == INSTANCE Cw WITH Texts <- CwTexts
R == INSTANCE Rtty WITH Texts <- RttyTexts, total <- capacity
W == INSTANCE Wspr WITH Messages <- WsprMessages
F == INSTANCE Ftx WITH Messages <- FtxMessages

None == "none"

Init ==
  \/ mode = "cw" /\ C!Init /\ shift = None
  \/ mode = "rtty" /\ R!Init
  \/ mode = "wspr" /\ W!Init /\ capacity = W!SymbolCount
  \/ mode = "ftx" /\ F!Init /\ capacity = 80 /\ shift = None

CwStep   == mode = "cw" /\ C!Next /\ UNCHANGED <<mode, shift>>
RttyStep == mode = "rtty" /\ R!Next /\ UNCHANGED mode
WsprStep == mode = "wspr" /\ W!Next /\ UNCHANGED <<mode, capacity>>
FtxStep  == mode = "ftx" /\ F!Next /\ UNCHANGED <<mode, capacity, shift>>

Next == CwStep \/ RttyStep \/ WsprStep \/ FtxStep

Spec == Init /\ [][Next]_vars
-----------------------------------------------------------------------------
\* What the encoder of CW allocates is what it fills, and never less: its two passes go
\* over the text on their own and agree on every character.
CwFills == mode = "cw" => C!TypeOK /\ C!FillsTheArray

\* So do the passes of RTTY, each of which follows the shift on its own.
RttyFills == mode = "rtty" => R!TypeOK /\ R!FillsTheArray

\* Whoever listens understands the text, letter by letter and word by word; and the
\* symbols go on and off in turn and end off, which the engine's count needs.
CwReadable == mode = "cw" => C!Keyed /\ C!Readable

\* A receiver that follows the shifts reads the characters that can be encoded.
RttyReadable == mode = "rtty" => R!Readable

\* The loops of WSPR's code, which go over more bits than are sent, end when the array is
\* full, the interleaver sets every place of it, and a receiver reads the callsign that was
\* given, the grid square and the power, as far as WSPR has a number for the callsign.
WsprReadable == mode = "wspr" => W!TypeOK /\ W!FillsTheArray /\ W!Readable

\* A receiver of an FTX message reads every field of it, of every type but free text and
\* telemetry, and of these that they are such.
FtxReadable == mode = "ftx" => F!TypeOK /\ F!Readable

\* "f71: 13 chars + null terminator" (src/include/modes/ftx.h:92): the 71 bits of a free
\* text are its 13 characters; and "t71: 71 bits of telemetry fits in 9 bytes" (ftx.h:113):
\* those of telemetry are what encode_t71 makes of hexadecimal digits.
FtxBytesReadable == mode = "ftx" => F!TextReadable /\ F!TelemetryReadable
=============================================================================
