---------------------------------- MODULE Rtty ----------------------------------
(***************************************************************************)
(* generate_rtty_sequence (src/modes/encoders/rtty.c): text to the tones   *)
(* of ITA2, a code of 5 bits with two shifts.  A first pass over the text  *)
(* counts the codes and so the symbols to allocate; a second one, an action *)
(* per character here, follows the shift again and pushes the tones.       *)
(*                                                                         *)
(* A tone is 1 for mark and 0 for space; their frequencies are left        *)
(* out.  Characters are in upper case and named when they do not print.    *)
(***************************************************************************)
EXTENDS Naturals, Sequences, SequencesExt, Ita2

CONSTANT Texts  \* the texts to send

VARIABLES text,    \* the argument
          todo,    \* what is left of it
          total,   \* total_symbols
          shift,   \* current_state
          symbols, \* the tones up to sym_idx
          result   \* "running" until the function returns: "ok", or "no_memory" for -2

vars == <<text, todo, total, shift, symbols, result>>

\* Mutant: a space goes back to letters.
CodesUnshifted(state, c) ==
  IF c \notin Encodable THEN <<state, <<>>>>
  ELSE IF c = SP THEN <<"ltrs", <<Code(c)>>>>
  ELSE IF Needs(c) \in {"any", state} THEN <<state, <<Code(c)>>>>
  ELSE <<Needs(c), <<IF Needs(c) = "ltrs" THEN LtrsShift ELSE FigsShift, Code(c)>>>>

\* The second pass: the shift after a character and the codes it takes.
Codes(state, c) ==
  IF c \notin Encodable THEN <<state, <<>>>>
  ELSE IF Needs(c) \in {"any", state} THEN <<state, <<Code(c)>>>>
  ELSE <<Needs(c), <<IF Needs(c) = "ltrs" THEN LtrsShift ELSE FigsShift, Code(c)>>>>

\* Mutant: the shifts are not counted.
CountCharacters(acc, c) == <<acc[1], acc[2] + (IF c \in Encodable THEN 1 ELSE 0)>>

\* The first pass, which follows the shift on its own and counts the codes.
Count(acc, c) ==
  IF c \notin Encodable THEN acc
  ELSE IF Needs(c) \in {"any", acc[1]} THEN <<acc[1], acc[2] + 1>>
  ELSE <<Needs(c), acc[2] + 2>>

Counted(t) ==
  LET acc[k \in 0 .. Len(t)] == IF k = 0 THEN <<"ltrs", 0>> ELSE Count(acc[k - 1], t[k]) IN acc

Required(t) == 7 * Counted(t)[Len(t)][2]

\* -2 when k_malloc fails.
Init ==
  /\ text \in Texts /\ todo = text
  /\ shift = "ltrs" /\ symbols = <<>>
  /\ \/ total = Required(text) /\ result = "running"
     \/ total = 0 /\ result = "no_memory"

\* push_baudot: a start bit, five bits from the lowest, a stop bit.
Baudot(code) ==
  <<0, code % 2, (code \div 2) % 2, (code \div 4) % 2, (code \div 8) % 2, (code \div 16) % 2, 1>>

Tones(codes) ==
  [k \in 1 .. 7 * Len(codes) |-> Baudot(codes[((k - 1) \div 7) + 1])[((k - 1) % 7) + 1]]

Encode ==
  /\ result = "running" /\ todo # <<>>
  /\ LET step == Codes(shift, Head(todo))
     IN /\ shift' = step[1]
        /\ symbols' = symbols \o Tones(step[2])
  /\ todo' = Tail(todo)
  /\ UNCHANGED <<text, total, result>>

Return ==
  /\ result = "running" /\ todo = <<>>
  /\ result' = "ok"
  /\ UNCHANGED <<text, todo, total, shift, symbols>>

Next == Encode \/ Return

Spec == Init /\ [][Next]_vars
-----------------------------------------------------------------------------
(* A receiver of ITA2, in letters shift at first. *)

\* The k-th code: the five bits after a start bit.
Sampled(tones, k) ==
  LET bit(b) == tones[7 * k - 6 + b]
  IN bit(1) + 2 * bit(2) + 4 * bit(3) + 8 * bit(4) + 16 * bit(5)

Receive(state, code) ==
  CASE code = LtrsShift -> [shift |-> "ltrs", heard |-> state.heard]
    [] code = FigsShift -> [shift |-> "figs", heard |-> state.heard]
    [] OTHER ->
         LET table == IF state.shift = "ltrs" THEN ITA2_LTRS ELSE ITA2_FIGS
         IN [shift |-> state.shift, heard |-> Append(state.heard, table[code + 1])]

Received(tones) ==
  LET state[k \in 0 .. Len(tones) \div 7] ==
        IF k = 0 THEN [shift |-> "ltrs", heard |-> <<>>]
        ELSE Receive(state[k - 1], Sampled(tones, k))
  IN state

\* What the text says to it.
Strike(printed, c) == IF c \in Encodable THEN Append(printed, c) ELSE printed

Printed(t) ==
  LET printed[k \in 0 .. Len(t)] == IF k = 0 THEN <<>> ELSE Strike(printed[k - 1], t[k]) IN printed
-----------------------------------------------------------------------------
TypeOK ==
  /\ text \in Texts /\ \E k \in 0 .. Len(text) : todo = SubSeq(text, k + 1, Len(text))
  /\ total \in Nat /\ result \in {"running", "ok", "no_memory"} /\ shift \in {"ltrs", "figs"}
  /\ symbols \in Seq({0, 1}) /\ Len(symbols) % 7 = 0 /\ total % 7 = 0

\* The two passes agree: the second one stays within the array and, when it is
\* through, every one of the total_symbols symbols has been set.
FillsTheArray ==
  /\ Len(symbols) <= total
  /\ result = "ok" => Len(symbols) = total

\* A receiver that follows the shifts reads the characters that can be encoded,
\* in order, and nothing else, and its shift is the encoder's.
Readable ==
  result # "no_memory" =>
    LET state == Received(symbols)[Len(symbols) \div 7]
    IN state.heard = Printed(text)[Len(text) - Len(todo)] /\ state.shift = shift
=============================================================================
