--------------------------------- MODULE Morse ---------------------------------
(* The Morse code (src/modes/encoders/cw.c).  Durations are counted in dots. *)
EXTENDS Chars

Alphabet == Digits \o Letters
SP       == " "

\* The codes of the digits and letters, as the durations of their dots and dashes.
MORSE_TABLE ==
  <<<<3, 3, 3, 3, 3>>, <<1, 3, 3, 3, 3>>, <<1, 1, 3, 3, 3>>, <<1, 1, 1, 3, 3>>, <<1, 1, 1, 1, 3>>,
    <<1, 1, 1, 1, 1>>, <<3, 1, 1, 1, 1>>, <<3, 3, 1, 1, 1>>, <<3, 3, 3, 1, 1>>, <<3, 3, 3, 3, 1>>,
    <<1, 3>>, <<3, 1, 1, 1>>, <<3, 1, 3, 1>>, <<3, 1, 1>>, <<1>>, <<1, 1, 3, 1>>, <<3, 3, 1>>,
    <<1, 1, 1, 1>>, <<1, 1>>, <<1, 3, 3, 3>>, <<3, 1, 3>>, <<1, 3, 1, 1>>, <<3, 3>>, <<3, 1>>,
    <<3, 3, 3>>, <<1, 3, 3, 1>>, <<3, 3, 1, 3>>, <<1, 3, 1>>, <<1, 1, 1>>, <<3>>, <<1, 1, 3>>,
    <<1, 1, 1, 3>>, <<1, 3, 3>>, <<3, 1, 1, 3>>, <<3, 1, 3, 3>>, <<3, 3, 1, 1>>>>

Coded == ToSet(Alphabet)

MORSE == [c \in Coded |-> MORSE_TABLE[Place(Alphabet, c) + 1]]
=============================================================================
