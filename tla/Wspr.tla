---------------------------------- MODULE Wspr ----------------------------------
(***************************************************************************)
(* generate_wspr_sequence (src/modes/encoders/wspr.c): a callsign, a grid  *)
(* square and a power to 162 symbols of 4 tones.  The message is packed    *)
(* into 50 bits, run through a convolutional code of two parities per bit  *)
(* (an action per bit here), interleaved and merged with a sync vector.    *)
(*                                                                         *)
(* A bit is 0 or 1.  Strings are sequences of characters, in upper case.   *)
(***************************************************************************)
EXTENDS Integers, Sequences, SequencesExt, WsprCode

CONSTANT Messages  \* what is sent: [callsign, grid : sequences, power : a number]

VARIABLES text,    \* the payload
          todo,    \* bits of the packed message still to go through the code
          shift,   \* shift_reg, the latest bit first
          symbols, \* the bits of the code, then the tones
          result   \* "running" until it returns: "ok", "refused" (-1) or "no_memory" (-2)

vars == <<text, todo, shift, symbols, result>>

Init ==
  /\ text \in Messages
  /\ shift = [k \in 1 .. 32 |-> 0] /\ symbols = <<>>
  /\ IF Accepted(text) THEN todo = Packed(text) /\ result = "running"
     ELSE todo = <<>> /\ result = "refused"
-----------------------------------------------------------------------------
(* convolve *)

\* The loops end with the packed message or when the array is full.
Through == todo = <<>> \/ Len(symbols) >= SymbolCount

\* Mutant: the parities are taken before the bit is in the register.
ConvolveLate ==
  /\ result = "running" /\ ~Through
  /\ shift' = <<Head(todo)>> \o SubSeq(shift, 1, 31)
  /\ symbols' = symbols \o <<Parity(shift, Taps[1]), Parity(shift, Taps[2])>>
  /\ todo' = Tail(todo)
  /\ UNCHANGED <<text, result>>

Convolve ==
  /\ result = "running" /\ ~Through
  /\ shift' = <<Head(todo)>> \o SubSeq(shift, 1, 31)
  /\ symbols' = symbols \o <<Parity(shift', Taps[1]), Parity(shift', Taps[2])>>
  /\ todo' = Tail(todo)
  /\ UNCHANGED <<text, result>>
-----------------------------------------------------------------------------
(* interleave, merge_sync and the symbols *)

Modulate ==
  /\ result = "running" /\ Through
  /\ \/ /\ result' = "ok"
        /\ symbols' = [p \in 1 .. SymbolCount |-> 2 * Interleaved(symbols)[p] + SyncVector[p]]
     \/ result' = "no_memory" /\ symbols' = <<>>
  /\ UNCHANGED <<text, todo, shift>>

Next == Convolve \/ Modulate

Spec == Init /\ [][Next]_vars
-----------------------------------------------------------------------------
(* A receiver: the places of the symbols sorted by their reversed number give  *)
(* the bits of the code; each bit of the message is what explains the first    *)
(* of its two parities, and must explain the second.                           *)

Received ==
  LET order == SortSeq([p \in 1 .. SymbolCount |-> p - 1],
                       LAMBDA a, b : Reversed(a) < Reversed(b))
  IN [k \in 1 .. SymbolCount |-> symbols[order[k] + 1] \div 2]

Explain(state, k) ==
  LET guess(b) == <<b>> \o SubSeq(state.register, 1, 31)
      explains(b, t) == Parity(guess(b), Taps[t]) = state.bits[2 * k - 2 + t]
      bit == IF explains(0, 1) THEN 0 ELSE 1
  IN [state EXCEPT !.register = guess(bit), !.message = Append(@, bit),
                   !.sound = @ /\ explains(bit, 2)]

Explained ==
  FoldLeft(Explain, [bits |-> Received, register |-> [k \in 1 .. 32 |-> 0],
                     message |-> <<>>, sound |-> TRUE], [k \in 1 .. 81 |-> k])

\* The characters of a callsign, from its number.
Alphabet == Digits \o Letters \o <<" ">>
Suffix   == Letters \o <<" ">>

CallsignOf(n) ==
  LET head == n \div 19683
  IN <<Alphabet[head \div 360 + 1], Alphabet[((head \div 10) % 36) + 1], Digits[(head % 10) + 1],
       Suffix[((n \div 729) % 27) + 1], Suffix[((n \div 27) % 27) + 1], Suffix[(n % 27) + 1]>>

GridOf(n) ==
  LET longitude == 179 - n \div 180
      latitude  == n % 180
  IN <<Letters[longitude \div 10 + 1], Letters[latitude \div 10 + 1],
       Digits[(longitude % 10) + 1], Digits[(latitude % 10) + 1]>>

\* The callsigns that WSPR has numbers for: one letter and a digit, or two characters,
\* not these, and a digit; and three letters at most.
Area(s) == IF Letter(s[1]) /\ Digit(s[2]) THEN 2 ELSE 3

HasNumber(s) ==
  /\ Len(s) \in Area(s) .. Area(s) + 3 /\ Digit(s[Area(s)])
  /\ \A k \in 1 .. Len(s) : IF k < Area(s) THEN s[k] # "/" ELSE k = Area(s) \/ Letter(s[k])
-----------------------------------------------------------------------------
TypeOK ==
  /\ text \in Messages /\ todo \in Seq({0, 1}) /\ symbols \in Seq(0 .. 3)
  /\ shift \in [1 .. 32 -> {0, 1}]
  /\ result \in {"running", "ok", "refused", "no_memory"}

\* The code never goes past the array's end, has filled it when it is through, and
\* every place of the interleaved array is set once.
FillsTheArray ==
  /\ Len(symbols) <= SymbolCount
  /\ result = "running" /\ Through => Len(symbols) = SymbolCount
  /\ result = "ok" => \A p \in 1 .. SymbolCount : symbols[p] % 2 = SyncVector[p]

\* A receiver reads the callsign that was given, the grid square and the power, as
\* far as WSPR has a number for the callsign.
Readable ==
  result = "ok" /\ HasNumber(text.callsign) =>
    LET message == Explained.message
        rest    == Number(2, SubSeq(message, 29, 50))
    IN /\ Explained.sound
       /\ SelectSeq(CallsignOf(Number(2, SubSeq(message, 1, 28))), LAMBDA c : c # " ") = text.callsign
       /\ GridOf(rest \div 128) = text.grid /\ (rest % 128) - 64 = text.power
=============================================================================
