----------------------------------- MODULE Cw -----------------------------------
(***************************************************************************)
(* generate_cw_sequence (src/modes/encoders/cw.c): text to keyed symbols.  *)
(* A first pass over the text sizes the array of symbols; a second one, an *)
(* action per character here, fills it, and stretches the last gap when    *)
(* another letter or a space follows.                                      *)
(*                                                                         *)
(* Durations are counted in dots.  Characters are in upper case; one that  *)
(* is neither a space nor in MORSE stands for all those without a code.    *)
(***************************************************************************)
EXTENDS Naturals, Sequences, SequencesExt, Morse

CONSTANT Texts  \* the texts to send

VARIABLES text,      \* the argument
          todo,      \* what is left of it
          capacity,  \* symbols the array has room for
          symbols,   \* the array up to sym_idx: [on, time]
          result     \* "running" until it returns: "ok", or "no_memory"

vars == <<text, todo, capacity, symbols, result>>

\* Mutant: the gaps are not counted.
NeededForMarks(n, c) == IF c \in Coded THEN n + Len(MORSE[c]) ELSE n

\* The first pass, a character at a time.
Needed(n, c) == IF c \in Coded THEN n + 2 * Len(MORSE[c]) ELSE n

Counted(t) == LET n[k \in 0 .. Len(t)] == IF k = 0 THEN 0 ELSE Needed(n[k - 1], t[k]) IN n

Capacity(t) == Counted(t)[Len(t)]

\* When k_malloc fails the sequence is empty.
Init ==
  /\ text \in Texts /\ todo = text
  /\ symbols = <<>>
  /\ \/ capacity = Capacity(text) /\ result = "running"
     \/ capacity = 0 /\ result = "no_memory"

\* The last symbol is off, if there is one: its gap grows.
Stretched(dots) ==
  IF symbols # <<>> /\ ~symbols[Len(symbols)].on
  THEN [symbols EXCEPT ![Len(symbols)].time = @ + dots]
  ELSE symbols

Keyings(code) ==
  [k \in 1 .. 2 * Len(code) |->
    IF k % 2 = 1 THEN [on |-> TRUE, time |-> code[(k + 1) \div 2]]
    ELSE [on |-> FALSE, time |-> 1]]

Key ==
  /\ Head(todo) \in Coded
  /\ symbols' = Stretched(2) \o Keyings(MORSE[Head(todo)])

\* Mutant: a space is a gap between letters.
SpaceShort == Head(todo) = SP /\ symbols' = Stretched(3)

Space == Head(todo) = SP /\ symbols' = Stretched(6)

Skip == Head(todo) \notin Coded \cup {SP} /\ UNCHANGED symbols

Encode ==
  /\ result = "running" /\ todo # <<>>
  /\ Key \/ Space \/ Skip
  /\ todo' = Tail(todo)
  /\ UNCHANGED <<text, capacity, result>>

Return ==
  /\ result = "running" /\ todo = <<>>
  /\ result' = "ok"
  /\ UNCHANGED <<text, todo, capacity, symbols>>

Next == Encode \/ Return

Spec == Init /\ [][Next]_vars
-----------------------------------------------------------------------------
(* A listener: a gap of 3 dots ends a letter, one of 7 or more a word. *)

Gap == <<>>

\* The letters heard so far, Gap between words, and the one being heard.
Silent == [heard |-> <<>>, letter |-> <<>>]

Listen(state, s) ==
  LET spelt == Append(state.heard, state.letter)
  IN IF s.on THEN [heard |-> state.heard, letter |-> Append(state.letter, s.time)]
     ELSE IF s.time < 3 THEN state
     ELSE [heard  |-> IF s.time < 7 THEN spelt ELSE Append(spelt, Gap),
           letter |-> <<>>]

Listened(s) ==
  LET state[k \in 0 .. Len(s)] == IF k = 0 THEN Silent ELSE Listen(state[k - 1], s[k]) IN state

Heard ==
  LET state == Listened(symbols)[Len(symbols)]
  IN IF state.letter = <<>> THEN state.heard ELSE Append(state.heard, state.letter)

\* What the text says: its codes, and a gap where spaces follow one of them.
Say(said, c) ==
  IF c \in Coded THEN Append(said, MORSE[c])
  ELSE IF c = SP /\ said # <<>> /\ Last(said) # Gap THEN Append(said, Gap)
  ELSE said

Said(t) == LET said[k \in 0 .. Len(t)] == IF k = 0 THEN <<>> ELSE Say(said[k - 1], t[k]) IN said
-----------------------------------------------------------------------------
TypeOK ==
  /\ text \in Texts /\ \E k \in 0 .. Len(text) : todo = SubSeq(text, k + 1, Len(text))
  /\ capacity \in Nat /\ result \in {"running", "ok", "no_memory"}
  /\ symbols \in Seq([on : BOOLEAN, time : Nat \ {0}])

\* The two passes agree: the second one never writes past the array and, when it
\* is through, has filled it.
FillsTheArray ==
  /\ Len(symbols) <= capacity
  /\ result = "ok" => Len(symbols) = capacity

\* Every on symbol is followed by an off one and the last symbol is off, also
\* when the sequence repeats: what the engine's count of the regulator needs.
Keyed ==
  \A k \in DOMAIN symbols : symbols[k].on = (k % 2 = 1)

\* Whoever listens understands the text, letter by letter and word by word,
\* wherever there are spaces or characters that have no code.
Readable == result # "no_memory" => Heard = Said(text)[Len(text) - Len(todo)]
=============================================================================
