-------------------------------- MODULE WsprCode --------------------------------
(* What generate_wspr_sequence computes with (src/modes/encoders/wspr.c): the   *)
(* validation and packing of a message, the parities and the interleaving.      *)
(* Strings are in upper case.                                                   *)
EXTENDS Integers, Sequences, SequencesExt, Chars

SymbolCount == 162

SyncVector ==
  <<1,1,0,0,0,0,0,0,1,0,0,0,1,1,1,0,0,0,1,0, 0,1,0,1,1,1,1,0,0,0,0,0,0,0,1,0,0,1,0,1,
    0,0,0,0,0,0,1,0,1,1,0,0,1,1,0,1,0,0,0,1, 1,0,1,0,0,0,0,1,1,0,1,0,1,0,1,0,1,0,0,1,
    0,0,1,0,1,1,0,0,0,1,1,0,1,0,1,0,0,0,1,0, 0,0,0,0,1,0,0,1,0,0,1,1,1,0,1,1,0,0,1,1,
    0,1,0,0,0,1,1,1,0,0,0,0,0,1,0,1,0,0,1,1, 0,0,0,0,0,0,0,1,1,0,1,0,1,1,0,0,0,1,1,0,
    0,0>>

ValidPowers == {0, 3, 7, 10, 13, 17, 20, 23, 27, 30, 33, 37, 40, 43, 47, 50, 53, 57, 60}
-----------------------------------------------------------------------------
(* Validation *)

ValidCallsign(s) ==
  /\ Len(s) \in 2 .. 6
  /\ \A k \in DOMAIN s : Digit(s[k]) \/ Letter(s[k]) \/ s[k] = "/"

ValidGrid(g) ==
  /\ Len(g) = 4
  /\ {g[1], g[2]} \subseteq ToSet(SubSeq(Letters, 1, 18))
  /\ Digit(g[3]) /\ Digit(g[4])

Accepted(m) ==
  ValidCallsign(m.callsign) /\ ValidGrid(m.grid) /\ m.power \in ValidPowers
-----------------------------------------------------------------------------
(* Packing *)

\* pad_callsign: six places, the digit of a callsign in the third.
Padded(s) ==
  SubSeq((IF Letter(s[1]) /\ Digit(s[2]) THEN <<" ">> ELSE <<>>)
           \o s \o <<" ", " ", " ", " ", " ", " ">>, 1, 6)

\* callsign_char_value
Value(c) ==
  IF Digit(c) THEN Place(Digits, c) ELSE IF Letter(c) THEN Place(Letters, c) + 10 ELSE 36

\* encode_callsign.  In unsigned arithmetic what a digit in the places of letters
\* takes away wraps; of the result only the lowest 28 bits are used.
Callsign(p) ==
  LET head == (Value(p[1]) * 36 + Value(p[2])) * 10 + Value(p[3])
  IN ((head * 27 + Value(p[4]) - 10) * 27 + Value(p[5]) - 10) * 27 + Value(p[6]) - 10

\* encode_grid_power
GridPower(g, power) ==
  LET longitude == 179 - 10 * Place(Letters, g[1]) - Place(Digits, g[3])
      latitude  == 10 * Place(Letters, g[2]) + Place(Digits, g[4])
  IN (longitude * 180 + latitude) * 128 + power + 64

\* pack_message: 28 and 22 bits, and zeros to the end of the 11 bytes.
Packed(m) ==
  Bits(Callsign(Padded(m.callsign)), 28) \o Bits(GridPower(m.grid, m.power), 22)
    \o [k \in 1 .. 38 |-> 0]
-----------------------------------------------------------------------------
(* The convolutional code *)

\* The bits of 0xF2D05351 and 0xE4613C47, counted from 0.
Taps == <<{0, 4, 6, 8, 9, 12, 14, 20, 22, 23, 25, 28, 29, 30, 31},
          {0, 1, 2, 6, 10, 11, 12, 13, 16, 21, 22, 26, 29, 30, 31}>>

\* parity: whether an odd number of them is set.
Parity(register, taps) ==
  FoldLeftDomain(LAMBDA p, k : IF k - 1 \in taps THEN (p + register[k]) % 2 ELSE p, 0, register)
-----------------------------------------------------------------------------
(* The interleaving *)

\* bit_reverse8
Reversed(j) == FoldLeft(LAMBDA r, k : 2 * r + ((j \div 2 ^ k) % 2), 0, <<0, 1, 2, 3, 4, 5, 6, 7>>)

\* Where interleave puts the bits, one after the other.
Targets == SelectSeq([j \in 1 .. 256 |-> Reversed(j - 1)], LAMBDA r : r < SymbolCount)

Interleaved(bits) ==
  [p \in 1 .. SymbolCount |-> bits[CHOOSE k \in DOMAIN bits : Targets[k] = p - 1]]
=============================================================================
