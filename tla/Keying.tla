-------------------------------- MODULE Keying --------------------------------
(***************************************************************************)
(* What the transmit engine promises its callers: it plays one sequence at *)
(* a time, symbol after symbol, each symbol for the whole of its time, and *)
(* falls silent at the end of a sequence that does not repeat.             *)
(***************************************************************************)
EXTENDS Naturals, Sequences

CONSTANTS Sequences, \* the sequences: records [on : Seq(BOOLEAN), repeat : BOOLEAN]
          NoSeq      \* the NULL sequence

VARIABLES playing,   \* the sequence on the air, NoSeq when silent
          symbol,    \* index from 0 of its current symbol
          elapsed    \* the time of the current symbol is over

vars == <<playing, symbol, elapsed>>

\* Whether playing s is over once symbol i is.
Last(s, i) == i + 1 = Len(s.on) /\ ~s.repeat

Init == playing = NoSeq /\ symbol = 0 /\ elapsed = FALSE

Play(s) ==
  /\ playing = NoSeq
  /\ playing' = s /\ symbol' = 0 /\ elapsed' = FALSE

Elapse ==
  /\ playing # NoSeq /\ ~elapsed
  /\ elapsed' = TRUE
  /\ UNCHANGED <<playing, symbol>>

Advance ==
  /\ playing # NoSeq /\ elapsed
  /\ ~Last(playing, symbol)
  /\ symbol' = (symbol + 1) % Len(playing.on)
  /\ elapsed' = FALSE
  /\ UNCHANGED playing

Silence == playing' = NoSeq /\ symbol' = 0 /\ elapsed' = FALSE

Complete == playing # NoSeq /\ elapsed /\ Last(playing, symbol) /\ Silence

\* The caller stops the engine, or starts another sequence.
Cut == playing # NoSeq /\ Silence

Next == (\E s \in Sequences : Play(s)) \/ Elapse \/ Advance \/ Complete \/ Cut

Spec == Init /\ [][Next]_vars
=============================================================================
