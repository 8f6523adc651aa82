----------------------------- MODULE EncodersProofs -----------------------------
(***************************************************************************)
(* The encoders of CW and RTTY, for every text.  What they allocate is      *)
(* what they fill, and whoever listens understands the text.               *)
(*                                                                         *)
(* Both encoders go over the text twice, and what a text needs, what it     *)
(* says and what a listener hears of an array are recursions.  So there is  *)
(* an induction over numbers first, for sets of them, and from it: there is *)
(* a function that obeys a recursion (Recursion), there is one only         *)
(* (Agreement), and one that never falls is highest at the end (Growing).   *)
(* The invariants say that the encoder is in step with the text: after j    *)
(* characters the array is as long as the first pass has counted up to      *)
(* them, and what is heard of it is what they say.                          *)
(***************************************************************************)
EXTENDS Encoders, SequenceTheorems, NaturalsInduction, WellFoundedInduction, TLAPS

-----------------------------------------------------------------------------
(* Recursion over the places of a sequence *)

Less == {p \in Nat \X Nat : p[1] < p[2]}

\* The numbers are well-founded.
LEMMA LessWellFounded == IsWellFoundedOn(Less, Nat)
  BY NatLessThanWellFounded DEF OpToRel, Less

\* Induction over numbers, for a set of them.
LEMMA SetInduction ==
  ASSUME NEW N, 0 \in N, \A n \in Nat : n \in N => n + 1 \in N
  PROVE  \A n \in Nat : n \in N
<1> SUFFICES ASSUME NEW m \in Nat, m \notin N PROVE FALSE
  OBVIOUS
<1> DEFINE Missing == {n \in Nat : n \notin N}
<1>0. Missing \subseteq Nat /\ Missing # {}
  OBVIOUS
<1> HIDE DEF Missing
<1>1. \E x \in Missing : \A y \in Missing : ~ (<<y, x>> \in Less)
  BY LessWellFounded, <1>0, WFMin
<1>2. PICK x \in Missing : \A y \in Missing : ~ (<<y, x>> \in Less)
  BY <1>1
<1>3. x # 0 /\ x \in Nat /\ x \notin N
  BY <1>2 DEF Missing
<1>4. x - 1 \in Nat /\ x - 1 < x /\ x = (x - 1) + 1
  BY <1>3
<1>5. x - 1 \in Missing
  BY <1>3, <1>4 DEF Missing
<1>6. <<x - 1, x>> \in Less
  BY <1>3, <1>4 DEF Less
<1> QED
  BY <1>2, <1>5, <1>6

\* A recursion over the places of a sequence, and that there is a function that obeys it.
Obeys(f, base, n, next) == f[0] = base /\ \A k \in 1 .. n : f[k] = next[<<f[k - 1], k>>]

\* A recursion over the places of a sequence is obeyed by a function.
LEMMA Recursion ==
  ASSUME NEW X, NEW base \in X, NEW n \in Nat, NEW next \in [X \X (1 .. n) -> X]
  PROVE  \E f \in [0 .. n -> X] : Obeys(f, base, n, next)
<1> DEFINE Upto(m, f) == f[0] = base /\ \A k \in 1 .. m : f[k] = next[<<f[k - 1], k>>]
           N == {m \in Nat : m <= n => \E f \in [0 .. m -> X] : Upto(m, f)}
<1>1. 0 \in N
  <2>1. [k \in 0 .. 0 |-> base] \in [0 .. 0 -> X] /\ Upto(0, [k \in 0 .. 0 |-> base])
    OBVIOUS
  <2> QED
    BY <2>1
<1>2. ASSUME NEW m \in Nat, m \in N PROVE m + 1 \in N
  <2> SUFFICES ASSUME m + 1 <= n PROVE \E f \in [0 .. m + 1 -> X] : Upto(m + 1, f)
    OBVIOUS
  <2>1. PICK f \in [0 .. m -> X] : Upto(m, f)
    BY <1>2
  <2> DEFINE g == [k \in 0 .. m + 1 |-> IF k = m + 1 THEN next[<<f[m], m + 1>>] ELSE f[k]]
  <2>2. next[<<f[m], m + 1>>] \in X
    <3>1. f[m] \in X /\ m + 1 \in 1 .. n
      BY <2>1
    <3> QED
      BY <3>1
  <2>3. g \in [0 .. m + 1 -> X]
    BY <2>1, <2>2
  <2>4. g[0] = base
    BY <2>1
  <2>5. ASSUME NEW k \in 1 .. m + 1 PROVE g[k] = next[<<g[k - 1], k>>]
    <3>1. CASE k = m + 1
      <4>1. g[k - 1] = f[m]
        BY <3>1
      <4>2. g[k] = next[<<f[m], k>>]
        BY <3>1
      <4> HIDE DEF g
      <4> QED
        BY <4>1, <4>2
    <3>2. CASE k # m + 1
      <4>1. k \in 1 .. m /\ k - 1 \in 0 .. m /\ k - 1 # m + 1
        BY <3>2
      <4> QED
        BY <2>1, <4>1
    <3> QED
      BY <3>1, <3>2
  <2> HIDE DEF g
  <2> QED
    BY <2>3, <2>4, <2>5
<1> HIDE DEF N
<1>3. n \in N
  BY <1>1, <1>2, SetInduction
<1> QED
  BY <1>3 DEF N, Obeys

\* Two functions that begin and go on alike are alike.
Begin(f, g) == f[0] = g[0]
GoOn(f, g, n) == \A k \in 1 .. n : f[k - 1] = g[k - 1] => f[k] = g[k]
Alike(f, g, n) == \A k \in 0 .. n : f[k] = g[k]

\* Two functions that go on alike from the same beginning are alike.
LEMMA Agreement ==
  ASSUME NEW n \in Nat, NEW f, NEW g, Begin(f, g), GoOn(f, g, n)
  PROVE  Alike(f, g, n)
<1> DEFINE N == {m \in Nat : m <= n => f[m] = g[m]}
<1>1. 0 \in N
  BY DEF Begin
<1>2. ASSUME NEW m \in Nat, m \in N PROVE m + 1 \in N
  <2> SUFFICES ASSUME m + 1 <= n PROVE f[m + 1] = g[m + 1]
    OBVIOUS
  <2>1. f[m] = g[m]
    BY <1>2
  <2>2. m + 1 \in 1 .. n /\ (m + 1) - 1 = m
    OBVIOUS
  <2> QED
    BY <2>1, <2>2 DEF GoOn
<1> HIDE DEF N
<1>3. \A m \in Nat : m \in N
  BY <1>1, <1>2, SetInduction
<1> QED
  BY <1>3 DEF N, Alike

\* What grows at each step grows.
LEMMA Growing ==
  ASSUME NEW n \in Nat, NEW f \in [0 .. n -> Nat], \A k \in 1 .. n : f[k - 1] <= f[k]
  PROVE  \A k \in 0 .. n : f[k] <= f[n]
<1> DEFINE N == {m \in Nat : m <= n => f[n - m] <= f[n]}
<1>1. 0 \in N
  <2>1. n \in 0 .. n /\ n - 0 = n
    OBVIOUS
  <2>2. f[n] \in Nat
    BY <2>1
  <2> QED
    BY <2>1, <2>2
<1>2. ASSUME NEW m \in Nat, m \in N PROVE m + 1 \in N
  <2> SUFFICES ASSUME m + 1 <= n PROVE f[n - (m + 1)] <= f[n]
    OBVIOUS
  <2>1. f[n - m] <= f[n]
    BY <1>2
  <2>2. n - m \in 1 .. n /\ (n - m) - 1 = n - (m + 1) /\ n \in 0 .. n /\ n - (m + 1) \in 0 .. n /\ n - m \in 0 .. n
    OBVIOUS
  <2>3. f[n - (m + 1)] <= f[n - m]
    BY <2>2
  <2>4. f[n - (m + 1)] \in Nat /\ f[n - m] \in Nat /\ f[n] \in Nat
    BY <2>2
  <2> QED
    BY <2>1, <2>3, <2>4
<1> HIDE DEF N
<1>3. \A m \in Nat : m \in N
  BY <1>1, <1>2, SetInduction
<1>4. ASSUME NEW k \in 0 .. n PROVE f[k] <= f[n]
  <2>1. n - k \in Nat /\ n - k <= n /\ n - (n - k) = k
    OBVIOUS
  <2>2. n - k \in N
    BY <2>1, <1>3
  <2> QED
    BY <2>1, <2>2 DEF N
<1> QED
  BY <1>4

-----------------------------------------------------------------------------
(* Texts *)

\* The characters of texts.
Char == STRING

\* A text is a sequence of characters.
LEMMA TextIsString == CwTexts \subseteq Seq(Char) /\ RttyTexts \subseteq Seq(Char)
  BY TextsAssumption, Zenon DEF Char

\* How far an encoder is in a text.
LEMMA TextStep ==
  ASSUME NEW t \in Seq(Char), NEW j \in 0 .. Len(t)
  PROVE  LET u == SubSeq(t, j + 1, Len(t))
         IN /\ u \in Seq(Char) /\ Len(u) = Len(t) - j
            /\ u # <<>> => /\ j + 1 \in 1 .. Len(t) /\ Head(u) = t[j + 1]
                           /\ Tail(u) = SubSeq(t, (j + 1) + 1, Len(t))
<1>0. PICK n \in Nat : n = Len(t)
  BY LenProperties
<1>1. PICK u : u = SubSeq(t, j + 1, n)
  OBVIOUS
<1>2. u \in Seq(Char) /\ Len(u) = n - j /\ \A i \in 1 .. n - j : u[i] = t[j + i]
  BY <1>0, <1>1, SubSeqProperties
<1>3. ASSUME u # <<>>
      PROVE  /\ j + 1 \in 1 .. n /\ Head(u) = t[j + 1]
             /\ Tail(u) = SubSeq(t, (j + 1) + 1, n)
  <2>1. n - j > 0
    BY <1>0, <1>2, <1>3, EmptySeq
  <2>2. j + 1 \in 1 .. n /\ 1 \in 1 .. n - j
    BY <1>0, <2>1
  <2>3. Head(u) = t[j + 1]
    BY <1>2, <1>3, <2>2
  <2>4. PICK v : v = SubSeq(t, (j + 1) + 1, n)
    OBVIOUS
  <2>5. v \in Seq(Char) /\ Len(v) = n - (j + 1) /\ \A i \in 1 .. n - (j + 1) : v[i] = t[(j + 1) + i]
    BY <1>0, <2>2, <2>4, SubSeqProperties
  <2>6. Tail(u) \in Seq(Char) /\ Len(Tail(u)) = n - (j + 1) /\ \A i \in 1 .. n - (j + 1) : Tail(u)[i] = u[i + 1]
    <3>1. Tail(u) \in Seq(Char) /\ Len(Tail(u)) = Len(u) - 1 /\ \A i \in 1 .. Len(Tail(u)) : Tail(u)[i] = u[i + 1]
      BY <1>2, <1>3, HeadTailProperties
    <3>2. Len(Tail(u)) = n - (j + 1)
      BY <1>0, <1>2, <3>1
    <3> QED
      BY <3>1, <3>2
  <2>7. \A i \in 1 .. n - (j + 1) : Tail(u)[i] = v[i]
    <3> SUFFICES ASSUME NEW i \in 1 .. n - (j + 1) PROVE Tail(u)[i] = v[i]
      OBVIOUS
    <3>1. i + 1 \in 1 .. n - j /\ j + (i + 1) = (j + 1) + i
      BY <1>0
    <3> QED
      BY <1>2, <2>5, <2>6, <3>1
  <2>8. Tail(u) = v
    BY <2>5, <2>6, <2>7, SeqEqual
  <2> QED
    BY <2>2, <2>3, <2>4, <2>8
<1> QED
  BY <1>0, <1>1, <1>2, <1>3

-----------------------------------------------------------------------------
(* The Morse code *)

\* A code is a sequence of dots and dashes, and not empty.
Codes == {code \in Seq({1, 3}) : code # <<>>}

\* The table has 36 codes.
LEMMA MorseTable == C!MORSE_TABLE \in Seq(Codes) /\ Len(C!MORSE_TABLE) = 36
<1>1. C!MORSE_TABLE \in Seq(Codes)
  BY SMTT(60) DEF C!MORSE_TABLE, Codes
<1>2. Len(C!MORSE_TABLE) = 36
  BY SMTT(60) DEF C!MORSE_TABLE
<1> QED
  BY <1>1, <1>2

DigitSet  == {"0", "1", "2", "3", "4", "5", "6", "7", "8", "9"}
LetterSet == {"A", "B", "C", "D", "E", "F", "G", "H", "I", "J", "K", "L", "M",
              "N", "O", "P", "Q", "R", "S", "T", "U", "V", "W", "X", "Y", "Z"}

MorseSet  == DigitSet \cup LetterSet

\* The alphabet of the Morse code, which has no space.
LEMMA MorseAlphabet ==
  C!Alphabet \in Seq(MorseSet) /\ Len(C!Alphabet) = 36 /\ C!SP \notin MorseSet
<1>1. C!Digits \in Seq(DigitSet) /\ Len(C!Digits) = 10
  BY DEF C!Digits, DigitSet
<1>2. C!Letters \in Seq(LetterSet) /\ Len(C!Letters) = 26
  BY DEF C!Letters, LetterSet
<1>3. C!SP \notin DigitSet /\ C!SP \notin LetterSet
  BY Zenon DEF C!SP, DigitSet, LetterSet
<1>4. DigitSet \subseteq MorseSet /\ LetterSet \subseteq MorseSet /\ C!SP \notin MorseSet
  BY <1>3 DEF MorseSet
<1>5. C!Digits \in Seq(MorseSet) /\ C!Letters \in Seq(MorseSet)
  BY <1>1, <1>2, <1>4, SeqMonotonic
<1>6. C!Alphabet \in Seq(MorseSet) /\ Len(C!Alphabet) = Len(C!Digits) + Len(C!Letters)
  BY <1>5, ConcatProperties DEF C!Alphabet
<1> QED
  BY <1>1, <1>2, <1>4, <1>6

\* Whatever can be keyed has a code, and a space has none.
LEMMA MorseCode ==
  /\ \A c \in C!Coded : C!MORSE[c] \in Codes
  /\ C!SP \notin C!Coded
<1>1. C!Coded = {C!Alphabet[k] : k \in 1 .. 36}
  BY MorseAlphabet, LenProperties DEF C!Coded, C!ToSet
<1>2. ASSUME NEW c \in C!Coded PROVE C!MORSE[c] \in Codes
  <2>1. \E k \in 1 .. 36 : C!Alphabet[k] = c
    BY <1>1, <1>2
  <2>2. (CHOOSE k \in DOMAIN C!Alphabet : C!Alphabet[k] = c) \in 1 .. 36
    BY <2>1, MorseAlphabet, LenProperties
  <2>3. C!Place(C!Alphabet, c) + 1 \in 1 .. 36
    <3>1. PICK k : k = CHOOSE i \in DOMAIN C!Alphabet : C!Alphabet[i] = c
      OBVIOUS
    <3>2. k \in 1 .. 36 /\ C!Place(C!Alphabet, c) = k - 1
      BY <2>2, <3>1 DEF C!Place
    <3> QED
      BY <3>2
  <2>4. C!MORSE[c] = C!MORSE_TABLE[C!Place(C!Alphabet, c) + 1]
    BY DEF C!MORSE
  <2> QED
    BY <2>3, <2>4, MorseTable, ElementOfSeq
<1>3. C!SP \notin C!Coded
  <2>1. \A k \in 1 .. 36 : C!Alphabet[k] \in MorseSet
    BY MorseAlphabet, ElementOfSeq
  <2> QED
    BY <1>1, <2>1, MorseAlphabet
<1> QED
  BY <1>2, <1>3

-----------------------------------------------------------------------------
(* The recursions over a text and over the symbols *)

\* The first pass.
LEMMA CwCounted ==
  ASSUME NEW t \in Seq(Char)
  PROVE  LET n == C!Counted(t)
         IN /\ n \in [0 .. Len(t) -> Nat] /\ n[0] = 0
            /\ \A k \in 1 .. Len(t) : n[k] = C!Needed(n[k - 1], t[k])
<1> DEFINE Step(f) == [k \in 0 .. Len(t) |-> IF k = 0 THEN 0 ELSE C!Needed(f[k - 1], t[k])]
           next    == [p \in Nat \X (1 .. Len(t)) |-> C!Needed(p[1], t[p[2]])]
           g       == CHOOSE f : f = Step(f)
<1>0. Len(t) \in Nat /\ 0 \in Nat
  BY LenProperties
<1>1. C!Counted(t) = g
  BY DEF C!Counted
<1>2. next \in [Nat \X (1 .. Len(t)) -> Nat]
  <2>1. ASSUME NEW p \in Nat \X (1 .. Len(t)) PROVE C!Needed(p[1], t[p[2]]) \in Nat
    <3>1. PICK n \in Nat : n = p[1]
      OBVIOUS
    <3>2. PICK c : c = t[p[2]]
      OBVIOUS
    <3>3. CASE c \in C!Coded
      <4>1. PICK m \in Nat : m = Len(C!MORSE[c])
        BY <3>3, MorseCode, LenProperties DEF Codes
      <4>2. C!Needed(n, c) = n + 2 * m
        BY <3>3, <4>1 DEF C!Needed
      <4> QED
        BY <3>1, <3>2, <4>2
    <3>4. CASE c \notin C!Coded
      BY <3>1, <3>2, <3>4 DEF C!Needed
    <3> QED
      BY <3>3, <3>4
  <2> QED
    BY <2>1
<1>3. \E f \in [0 .. Len(t) -> Nat] : Obeys(f, 0, Len(t), next)
  <2> HIDE DEF next
  <2> QED
    BY <1>0, <1>2, Recursion
<1>4. PICK f \in [0 .. Len(t) -> Nat] : f[0] = 0 /\ \A k \in 1 .. Len(t) : f[k] = next[<<f[k - 1], k>>]
  BY <1>3 DEF Obeys
<1>5. \A k \in 1 .. Len(t) : f[k] = C!Needed(f[k - 1], t[k])
  <2> SUFFICES ASSUME NEW k \in 1 .. Len(t) PROVE f[k] = C!Needed(f[k - 1], t[k])
    OBVIOUS
  <2>1. <<f[k - 1], k>> \in Nat \X (1 .. Len(t))
    BY <1>0, <1>4
  <2> QED
    BY <1>4, <2>1
<1>6. f = Step(f)
  BY <1>4, <1>5
<1>7. g = Step(g)
  <2> HIDE DEF Step
  <2> QED
    BY <1>6
<1> HIDE DEF g
<1>8. g[0] = 0 /\ \A k \in 1 .. Len(t) : g[k] = C!Needed(g[k - 1], t[k])
  BY <1>0, <1>7
<1>9. \A k \in 0 .. Len(t) : g[k] = f[k]
  <2>1. GoOn(f, g, Len(t)) /\ Begin(f, g)
    BY <1>4, <1>5, <1>8 DEF GoOn, Begin
  <2> QED
    BY <1>0, <2>1, Agreement DEF Alike
<1>10. g = f
  BY <1>4, <1>7, <1>9
<1> QED
  BY <1>1, <1>4, <1>5, <1>10

\* What a text says: codes, and gaps.
Letters == Seq(Nat)
Saying  == Seq(Letters)

\* Codes and gaps are what a text says.
LEMMA CodesAreLetters == Codes \subseteq Letters /\ C!Gap \in Letters
<1>1. ASSUME NEW code \in Codes PROVE code \in Seq(Nat)
  <2>1. {1, 3} \subseteq Nat /\ code \in Seq({1, 3})
    BY DEF Codes
  <2> QED
    BY <2>1, SeqMonotonic
<1> QED
  BY <1>1 DEF Letters, C!Gap

\* The codes of a text.
LEMMA CwSaid ==
  ASSUME NEW t \in Seq(Char)
  PROVE  LET n == C!Said(t)
         IN /\ n \in [0 .. Len(t) -> Saying] /\ n[0] = <<>>
            /\ \A k \in 1 .. Len(t) : n[k] = C!Say(n[k - 1], t[k])
<1> DEFINE Step(f) == [k \in 0 .. Len(t) |-> IF k = 0 THEN <<>> ELSE C!Say(f[k - 1], t[k])]
           next    == [p \in Saying \X (1 .. Len(t)) |-> C!Say(p[1], t[p[2]])]
           g       == CHOOSE f : f = Step(f)
<1>0. Len(t) \in Nat /\ <<>> \in Saying
  BY LenProperties DEF Saying
<1>1. C!Said(t) = g
  BY DEF C!Said
<1>2. next \in [Saying \X (1 .. Len(t)) -> Saying]
  <2>1. ASSUME NEW p \in Saying \X (1 .. Len(t)) PROVE C!Say(p[1], t[p[2]]) \in Saying
    BY MorseCode, CodesAreLetters DEF C!Say, Saying
  <2> QED
    BY <2>1
<1>3. \E f \in [0 .. Len(t) -> Saying] : Obeys(f, <<>>, Len(t), next)
  <2> HIDE DEF next
  <2> QED
    BY <1>0, <1>2, Recursion
<1>4. PICK f \in [0 .. Len(t) -> Saying] : f[0] = <<>> /\ \A k \in 1 .. Len(t) : f[k] = next[<<f[k - 1], k>>]
  BY <1>3 DEF Obeys
<1>5. \A k \in 1 .. Len(t) : f[k] = C!Say(f[k - 1], t[k])
  <2> SUFFICES ASSUME NEW k \in 1 .. Len(t) PROVE f[k] = C!Say(f[k - 1], t[k])
    OBVIOUS
  <2>1. <<f[k - 1], k>> \in Saying \X (1 .. Len(t))
    BY <1>0, <1>4
  <2> QED
    BY <1>4, <2>1
<1>6. f = Step(f)
  BY <1>4, <1>5
<1>7. g = Step(g)
  <2> HIDE DEF Step
  <2> QED
    BY <1>6
<1> HIDE DEF g
<1>8. g[0] = <<>> /\ \A k \in 1 .. Len(t) : g[k] = C!Say(g[k - 1], t[k])
  BY <1>0, <1>7
<1>9. \A k \in 0 .. Len(t) : g[k] = f[k]
  <2>1. GoOn(f, g, Len(t)) /\ Begin(f, g)
    BY <1>4, <1>5, <1>8 DEF GoOn, Begin
  <2> QED
    BY <1>0, <2>1, Agreement DEF Alike
<1>10. g = f
  BY <1>4, <1>7, <1>9
<1> QED
  BY <1>1, <1>4, <1>5, <1>10

\* A symbol, and what a listener has heard.
Symbol == [on : BOOLEAN, time : Nat \ {0}]
Ear    == [heard : Saying, letter : Letters]

\* What a symbol does to a listener: a mark, the gaps within a letter, between letters
\* and between words.
LEMMA EarHears ==
  ASSUME NEW x \in Ear, NEW y \in Symbol
  PROVE  /\ y.on => C!Listen(x, y) = [heard |-> x.heard, letter |-> Append(x.letter, y.time)]
         /\ ~ y.on /\ y.time < 3 => C!Listen(x, y) = x
         /\ ~ y.on /\ y.time \in 3 .. 6
              => C!Listen(x, y) = [heard |-> Append(x.heard, x.letter), letter |-> <<>>]
         /\ ~ y.on /\ y.time >= 7
              => C!Listen(x, y) = [heard |-> Append(Append(x.heard, x.letter), C!Gap), letter |-> <<>>]
<1>1. y.time \in Nat
  BY DEF Symbol
<1>2. PICK spelt : spelt = Append(x.heard, x.letter)
  OBVIOUS
<1>3. PICK word : word = Append(spelt, C!Gap)
  OBVIOUS
<1>4. C!Listen(x, y) = IF y.on THEN [heard |-> x.heard, letter |-> Append(x.letter, y.time)]
                       ELSE IF y.time < 3 THEN x
                       ELSE [heard |-> IF y.time < 7 THEN spelt ELSE word, letter |-> <<>>]
  BY <1>2, <1>3, Zenon DEF C!Listen
<1>5. ASSUME y.on PROVE C!Listen(x, y) = [heard |-> x.heard, letter |-> Append(x.letter, y.time)]
  BY <1>4, <1>5, Zenon
<1>6. ASSUME ~ y.on, y.time < 3 PROVE C!Listen(x, y) = x
  BY <1>4, <1>6, Zenon
<1>7. ASSUME ~ y.on, y.time \in 3 .. 6 PROVE C!Listen(x, y) = [heard |-> spelt, letter |-> <<>>]
  <2>1. ~ (y.time < 3) /\ y.time < 7
    BY <1>7
  <2> QED
    BY <1>4, <1>7, <2>1, Zenon
<1>8. ASSUME ~ y.on, y.time >= 7 PROVE C!Listen(x, y) = [heard |-> word, letter |-> <<>>]
  <2>1. ~ (y.time < 3) /\ ~ (y.time < 7)
    BY <1>1, <1>8
  <2> QED
    BY <1>4, <1>8, <2>1, Zenon
<1> QED
  BY <1>2, <1>3, <1>5, <1>6, <1>7, <1>8

\* A listener has heard letters and gaps, whatever the symbols.
LEMMA EarStays == \A x \in Ear, y \in Symbol : C!Listen(x, y) \in Ear
<1> SUFFICES ASSUME NEW x \in Ear, NEW y \in Symbol PROVE C!Listen(x, y) \in Ear
  OBVIOUS
<1>1. x.heard \in Saying /\ x.letter \in Letters
  BY DEF Ear
<1>2. y.time \in Nat /\ y.on \in BOOLEAN
  BY DEF Symbol
<1>3. Append(x.heard, x.letter) \in Saying
  BY <1>1 DEF Saying
<1>4. Append(Append(x.heard, x.letter), C!Gap) \in Saying
  BY <1>3, CodesAreLetters DEF Saying
<1>5. Append(x.letter, y.time) \in Letters /\ <<>> \in Letters
  BY <1>1, <1>2 DEF Letters
<1>6. CASE y.on
  <2>1. C!Listen(x, y) = [heard |-> x.heard, letter |-> Append(x.letter, y.time)]
    BY <1>6, EarHears
  <2> QED
    BY <2>1, <1>1, <1>5 DEF Ear
<1>7. CASE ~ y.on /\ y.time < 3
  BY <1>7, EarHears
<1>8. CASE ~ y.on /\ y.time \in 3 .. 6
  <2>1. C!Listen(x, y) = [heard |-> Append(x.heard, x.letter), letter |-> <<>>]
    BY <1>8, EarHears
  <2> QED
    BY <2>1, <1>3, <1>5 DEF Ear
<1>9. CASE ~ y.on /\ y.time >= 7
  <2>1. C!Listen(x, y) = [heard |-> Append(Append(x.heard, x.letter), C!Gap), letter |-> <<>>]
    BY <1>9, EarHears
  <2> QED
    BY <2>1, <1>4, <1>5 DEF Ear
<1> QED
  BY <1>2, <1>6, <1>7, <1>8, <1>9

\* The listener.
LEMMA CwListened ==
  ASSUME NEW s \in Seq(Symbol)
  PROVE  LET n == C!Listened(s)
         IN /\ n \in [0 .. Len(s) -> Ear] /\ n[0] = C!Silent
            /\ \A k \in 1 .. Len(s) : n[k] = C!Listen(n[k - 1], s[k])
<1> DEFINE Step(f) == [k \in 0 .. Len(s) |-> IF k = 0 THEN C!Silent ELSE C!Listen(f[k - 1], s[k])]
           next    == [p \in Ear \X (1 .. Len(s)) |-> C!Listen(p[1], s[p[2]])]
           g       == CHOOSE f : f = Step(f)
<1>0. Len(s) \in Nat /\ C!Silent \in Ear
  BY LenProperties DEF C!Silent, Ear, Letters, Saying
<1>1. C!Listened(s) = g
  BY DEF C!Listened
<1>2. next \in [Ear \X (1 .. Len(s)) -> Ear]
  <2>1. ASSUME NEW p \in Ear \X (1 .. Len(s)) PROVE C!Listen(p[1], s[p[2]]) \in Ear
    <3>1. p[1] \in Ear /\ s[p[2]] \in Symbol
      BY ElementOfSeq
    <3> QED
      BY <3>1, EarStays
  <2> QED
    BY <2>1
<1>3. \E f \in [0 .. Len(s) -> Ear] : Obeys(f, C!Silent, Len(s), next)
  <2> HIDE DEF next
  <2> QED
    BY <1>0, <1>2, Recursion
<1>4. PICK f \in [0 .. Len(s) -> Ear] : f[0] = C!Silent /\ \A k \in 1 .. Len(s) : f[k] = next[<<f[k - 1], k>>]
  BY <1>3 DEF Obeys
<1>5. \A k \in 1 .. Len(s) : f[k] = C!Listen(f[k - 1], s[k])
  <2> SUFFICES ASSUME NEW k \in 1 .. Len(s) PROVE f[k] = C!Listen(f[k - 1], s[k])
    OBVIOUS
  <2>1. <<f[k - 1], k>> \in Ear \X (1 .. Len(s))
    BY <1>0, <1>4
  <2> QED
    BY <1>4, <2>1
<1>6. f = Step(f)
  BY <1>4, <1>5
<1>7. g = Step(g)
  <2> HIDE DEF Step
  <2> QED
    BY <1>6
<1> HIDE DEF g
<1>8. g[0] = C!Silent /\ \A k \in 1 .. Len(s) : g[k] = C!Listen(g[k - 1], s[k])
  BY <1>0, <1>7
<1>9. \A k \in 0 .. Len(s) : g[k] = f[k]
  <2>1. GoOn(f, g, Len(s)) /\ Begin(f, g)
    BY <1>4, <1>5, <1>8 DEF GoOn, Begin
  <2> QED
    BY <1>0, <2>1, Agreement DEF Alike
<1>10. g = f
  BY <1>4, <1>7, <1>9
<1> QED
  BY <1>1, <1>4, <1>5, <1>10

-----------------------------------------------------------------------------
(* Symbols that are stretched and symbols that are keyed *)

Stretch(s, dots) ==
  IF s # <<>> /\ ~s[Len(s)].on THEN [s EXCEPT ![Len(s)].time = @ + dots] ELSE s

\* Stretching leaves all but the time of the last symbol.
LEMMA CwStretch ==
  ASSUME NEW s \in Seq(Symbol), NEW dots \in Nat
  PROVE  LET t == Stretch(s, dots)
         IN /\ t \in Seq(Symbol) /\ Len(t) = Len(s)
            /\ \A k \in 1 .. Len(s) - 1 : t[k] = s[k]
            /\ \A k \in 1 .. Len(s) : t[k].on = s[k].on
            /\ Len(s) > 0 /\ ~s[Len(s)].on => t[Len(s)].time = s[Len(s)].time + dots
<1>1. CASE s # <<>> /\ ~s[Len(s)].on
  <2>1. Len(s) \in 1 .. Len(s) /\ Len(s) \in Nat
    BY <1>1, EmptySeq, LenProperties
  <2>2. s[Len(s)] \in Symbol
    BY <2>1, ElementOfSeq
  <2>3. PICK on : on = s[Len(s)].on
    OBVIOUS
  <2>4. PICK time : time = s[Len(s)].time
    OBVIOUS
  <2>5. s[Len(s)] = [on |-> on, time |-> time] /\ on \in BOOLEAN /\ time \in Nat \ {0}
    BY <2>2, <2>3, <2>4 DEF Symbol
  <2>6. PICK last : last = [on |-> on, time |-> time + dots]
    OBVIOUS
  <2>7. last \in Symbol /\ last.on = on /\ last.time = time + dots
    BY <2>5, <2>6 DEF Symbol
  <2>8. Stretch(s, dots) = [s EXCEPT ![Len(s)] = last]
    <3>1. [s[Len(s)] EXCEPT !.time = s[Len(s)].time + dots] = last
      BY <2>5, <2>6
    <3> QED
      BY <1>1, <3>1 DEF Stretch
  <2>9. [s EXCEPT ![Len(s)] = last] \in Seq(Symbol) /\ Len([s EXCEPT ![Len(s)] = last]) = Len(s)
    BY <2>1, <2>7, ExceptSeq
  <2>10. PICK t : t = Stretch(s, dots)
    OBVIOUS
  <2>11. DOMAIN s = 1 .. Len(s)
    OBVIOUS
  <2>12. t[Len(s)] = last /\ \A k \in 1 .. Len(s) - 1 : t[k] = s[k]
    BY <2>1, <2>8, <2>10, <2>11
  <2>13. \A k \in 1 .. Len(s) : t[k].on = s[k].on
    <3> SUFFICES ASSUME NEW k \in 1 .. Len(s) PROVE t[k].on = s[k].on
      OBVIOUS
    <3>1. CASE k = Len(s)
      BY <2>3, <2>7, <2>12, <3>1
    <3>2. CASE k \in 1 .. Len(s) - 1
      BY <2>12, <3>2
    <3> QED
      BY <2>1, <3>1, <3>2
  <2> QED
    BY <2>4, <2>7, <2>8, <2>9, <2>10, <2>12, <2>13
<1>2. CASE ~ (s # <<>> /\ ~s[Len(s)].on)
  <2>1. Stretch(s, dots) = s
    BY <1>2 DEF Stretch
  <2>2. ~ (Len(s) > 0 /\ ~s[Len(s)].on)
    BY <1>2, EmptySeq, LenProperties
  <2> QED
    BY <2>1, <2>2
<1> QED
  BY <1>1, <1>2

\* The symbols of a code.
LEMMA CwKeyings ==
  ASSUME NEW code \in Codes
  PROVE  /\ C!Keyings(code) \in Seq(Symbol) /\ Len(C!Keyings(code)) = 2 * Len(code)
         /\ \A i \in 1 .. Len(code) :
              /\ C!Keyings(code)[2 * i - 1] = [on |-> TRUE, time |-> code[i]]
              /\ C!Keyings(code)[2 * i] = [on |-> FALSE, time |-> 1]
<1> DEFINE n == 2 * Len(code)
<1>0. code \in Seq({1, 3}) /\ Len(code) \in Nat /\ n \in Nat
  BY LenProperties DEF Codes
<1>1. ASSUME NEW k \in 1 .. n
      PROVE  (IF k % 2 = 1 THEN [on |-> TRUE, time |-> code[(k + 1) \div 2]]
              ELSE [on |-> FALSE, time |-> 1]) \in Symbol
  <2>1. CASE k % 2 = 1
    <3>1. (k + 1) \div 2 \in 1 .. Len(code)
      BY <1>0, <2>1
    <3>2. code[(k + 1) \div 2] \in {1, 3}
      BY <1>0, <3>1, ElementOfSeq
    <3>3. code[(k + 1) \div 2] \in Nat \ {0}
      BY <3>2
    <3> QED
      BY <2>1, <3>3 DEF Symbol
  <2>2. CASE k % 2 # 1
    BY <2>2 DEF Symbol
  <2> QED
    BY <2>1, <2>2
<1>2. C!Keyings(code) = [k \in 1 .. n |->
         IF k % 2 = 1 THEN [on |-> TRUE, time |-> code[(k + 1) \div 2]]
         ELSE [on |-> FALSE, time |-> 1]]
  BY DEF C!Keyings
<1>3. C!Keyings(code) \in [1 .. n -> Symbol]
  BY <1>1, <1>2
<1>4. C!Keyings(code) \in Seq(Symbol) /\ Len(C!Keyings(code)) = n
  <2> HIDE DEF n
  <2>1. C!Keyings(code) \in Seq(Symbol)
    BY <1>0, <1>3, SeqDef
  <2>2. DOMAIN C!Keyings(code) = 1 .. n
    BY <1>3
  <2> QED
    BY <1>0, <2>1, <2>2, LenProperties
<1>5. ASSUME NEW i \in 1 .. Len(code)
      PROVE  /\ C!Keyings(code)[2 * i - 1] = [on |-> TRUE, time |-> code[i]]
             /\ C!Keyings(code)[2 * i] = [on |-> FALSE, time |-> 1]
  <2>1. 2 * i - 1 \in 1 .. n /\ (2 * i - 1) % 2 = 1 /\ ((2 * i - 1) + 1) \div 2 = i
    BY <1>0
  <2>2. 2 * i \in 1 .. n /\ (2 * i) % 2 # 1
    BY <1>0
  <2> HIDE DEF n
  <2> QED
    BY <1>2, <2>1, <2>2
<1> QED
  BY <1>4, <1>5

\* Symbols that begin alike are heard alike.
LEMMA CwPrefix ==
  ASSUME NEW s \in Seq(Symbol), NEW t \in Seq(Symbol), NEW n \in Nat,
         n <= Len(s), n <= Len(t), \A k \in 1 .. n : s[k] = t[k]
  PROVE  \A k \in 0 .. n : C!Listened(s)[k] = C!Listened(t)[k]
<1>0. Len(s) \in Nat /\ Len(t) \in Nat
  BY LenProperties
<1>1. PICK f : f = C!Listened(s)
  OBVIOUS
<1>2. PICK g : g = C!Listened(t)
  OBVIOUS
<1>3. f[0] = C!Silent /\ \A k \in 1 .. Len(s) : f[k] = C!Listen(f[k - 1], s[k])
  BY <1>1, CwListened
<1>4. g[0] = C!Silent /\ \A k \in 1 .. Len(t) : g[k] = C!Listen(g[k - 1], t[k])
  BY <1>2, CwListened
<1>5. Begin(f, g)
  BY <1>3, <1>4 DEF Begin
<1>6. GoOn(f, g, n)
  <2> SUFFICES ASSUME NEW k \in 1 .. n, f[k - 1] = g[k - 1] PROVE f[k] = g[k]
    BY DEF GoOn
  <2>1. k \in 1 .. Len(s) /\ k \in 1 .. Len(t) /\ s[k] = t[k]
    BY <1>0
  <2> QED
    BY <1>3, <1>4, <2>1, Zenon
<1>7. Alike(f, g, n)
  BY <1>5, <1>6, Agreement
<1> QED
  BY <1>1, <1>2, <1>7 DEF Alike

\* What the symbols say is said, and the last gap may still grow.
Telling(s, said) ==
  \/ s = <<>> /\ said = <<>>
  \/ LET n      == Len(s)
         before == C!Listened(s)[n - 1]
     IN /\ n > 0 /\ ~ s[n].on /\ before.letter # <<>>
        /\ \/ s[n].time = 1 /\ said = Append(before.heard, before.letter)
           \/ s[n].time >= 7 /\ said = Append(Append(before.heard, before.letter), C!Gap)

\* Whoever listens hears what is said.
LEMMA CwTells ==
  ASSUME NEW s \in Seq(Symbol), NEW said, Telling(s, said)
  PROVE  LET state == C!Listened(s)[Len(s)]
         IN (IF state.letter = <<>> THEN state.heard ELSE Append(state.heard, state.letter)) = said
<1>0. PICK n \in Nat : n = Len(s)
  BY LenProperties
<1>1. PICK f : f = C!Listened(s)
  OBVIOUS
<1>2. f \in [0 .. n -> Ear] /\ f[0] = C!Silent /\ \A k \in 1 .. n : f[k] = C!Listen(f[k - 1], s[k])
  BY <1>0, <1>1, CwListened
<1>3. CASE s = <<>> /\ said = <<>>
  <2>1. n = 0
    BY <1>0, <1>3
  <2> QED
    BY <1>0, <1>1, <1>2, <1>3, <2>1 DEF C!Silent
<1>4. CASE s # <<>>
  <2>1. PICK before : before = f[n - 1]
    OBVIOUS
  <2>2. /\ n > 0 /\ ~ s[n].on /\ before.letter # <<>>
        /\ \/ s[n].time = 1 /\ said = Append(before.heard, before.letter)
           \/ s[n].time >= 7 /\ said = Append(Append(before.heard, before.letter), C!Gap)
    BY <1>0, <1>1, <1>4, <2>1 DEF Telling
  <2>3. n \in 1 .. n /\ before \in Ear /\ s[n] \in Symbol
    <3>1. n \in 1 .. n /\ n - 1 \in 0 .. n
      BY <2>2
    <3>2. before \in Ear
      BY <1>2, <2>1, <3>1
    <3> QED
      BY <1>0, <3>1, <3>2, ElementOfSeq
  <2>4. f[n] = C!Listen(before, s[n])
    BY <1>2, <2>1, <2>3
  <2>5. CASE s[n].time = 1
    <3>1. C!Listen(before, s[n]) = before
      BY <2>2, <2>3, <2>5, EarHears
    <3> QED
      BY <1>0, <1>1, <2>2, <2>4, <2>5, <3>1
  <2>6. CASE s[n].time >= 7
    <3>1. C!Listen(before, s[n])
            = [heard |-> Append(Append(before.heard, before.letter), C!Gap), letter |-> <<>>]
      BY <2>2, <2>3, <2>6, EarHears
    <3>2. ~ (s[n].time = 1)
      BY <2>6
    <3> QED
      BY <1>0, <1>1, <2>2, <2>4, <3>1, <3>2
  <2> QED
    BY <2>2, <2>5, <2>6
<1> QED
  BY <1>3, <1>4 DEF Telling

\* Between letters the last gap is stretched, and the letters so far are heard.
LEMMA CwBetween ==
  ASSUME NEW s \in Seq(Symbol), NEW said \in Saying, Telling(s, said)
  PROVE  C!Listened(Stretch(s, 2))[Len(s)] = [heard |-> said, letter |-> <<>>]
<1>0. PICK n \in Nat : n = Len(s)
  BY LenProperties
<1>1. PICK t : t = Stretch(s, 2)
  OBVIOUS
<1>2. /\ t \in Seq(Symbol) /\ Len(t) = n
      /\ \A k \in 1 .. n - 1 : t[k] = s[k]
      /\ \A k \in 1 .. n : t[k].on = s[k].on
      /\ n > 0 /\ ~ s[n].on => t[n].time = s[n].time + 2
  BY <1>0, <1>1, CwStretch
<1>3. PICK f : f = C!Listened(s)
  OBVIOUS
<1>4. PICK g : g = C!Listened(t)
  OBVIOUS
<1>5. g \in [0 .. n -> Ear] /\ g[0] = C!Silent /\ \A k \in 1 .. n : g[k] = C!Listen(g[k - 1], t[k])
  BY <1>2, <1>4, CwListened
<1>6. CASE s = <<>> /\ said = <<>>
  <2>1. n = 0
    BY <1>0, <1>6
  <2> QED
    BY <1>0, <1>1, <1>4, <1>5, <1>6, <2>1 DEF C!Silent
<1>7. CASE s # <<>>
  <2>1. PICK before : before = f[n - 1]
    OBVIOUS
  <2>2. /\ n > 0 /\ ~ s[n].on /\ before.letter # <<>>
        /\ \/ s[n].time = 1 /\ said = Append(before.heard, before.letter)
           \/ s[n].time >= 7 /\ said = Append(Append(before.heard, before.letter), C!Gap)
    BY <1>0, <1>3, <1>7, <2>1 DEF Telling
  <2>3. n - 1 \in Nat /\ n - 1 <= n /\ n - 1 \in 0 .. n - 1
    BY <1>0, <2>2
  <2>4. \A k \in 0 .. n - 1 : f[k] = g[k]
    BY <1>0, <1>2, <1>3, <1>4, <2>3, CwPrefix
  <2>5. g[n - 1] = before /\ before \in Ear /\ t[n] \in Symbol /\ n \in 1 .. n
    BY <1>2, <1>5, <2>1, <2>2, <2>3, <2>4, ElementOfSeq
  <2>6. g[n] = C!Listen(before, t[n]) /\ ~ t[n].on /\ t[n].time = s[n].time + 2
    BY <1>2, <1>5, <2>2, <2>5
  <2>7. s[n].time \in Nat
    <3>1. s[n] \in Symbol
      BY <1>0, <2>5, ElementOfSeq
    <3> QED
      BY <3>1 DEF Symbol
  <2>8. CASE s[n].time = 1
    <3>1. t[n].time \in 3 .. 6 /\ ~ (s[n].time >= 7)
      BY <2>6, <2>8
    <3>2. g[n] = [heard |-> Append(before.heard, before.letter), letter |-> <<>>]
      BY <2>5, <2>6, <3>1, EarHears
    <3> QED
      BY <1>0, <1>1, <1>4, <2>2, <3>1, <3>2
  <2>9. CASE s[n].time >= 7
    <3>1. t[n].time >= 7 /\ ~ (s[n].time = 1)
      BY <2>6, <2>7, <2>9
    <3>2. g[n] = [heard |-> Append(Append(before.heard, before.letter), C!Gap), letter |-> <<>>]
      BY <2>5, <2>6, <3>1, EarHears
    <3> QED
      BY <1>0, <1>1, <1>4, <2>2, <3>1, <3>2
  <2> QED
    BY <2>2, <2>8, <2>9
<1> QED
  BY <1>6, <1>7 DEF Telling

\* A space that follows a letter is a gap between words, and another one is not.
LEMMA CwSpaced ==
  ASSUME NEW s \in Seq(Symbol), NEW said \in Saying, Telling(s, said)
  PROVE  Telling(Stretch(s, 6),
                 IF said # <<>> /\ C!Last(said) # C!Gap THEN Append(said, C!Gap) ELSE said)
<1> DEFINE then == IF said # <<>> /\ C!Last(said) # C!Gap THEN Append(said, C!Gap) ELSE said
<1>0. PICK n \in Nat : n = Len(s)
  BY LenProperties
<1>1. PICK t : t = Stretch(s, 6)
  OBVIOUS
<1>2. /\ t \in Seq(Symbol) /\ Len(t) = n
      /\ \A k \in 1 .. n - 1 : t[k] = s[k]
      /\ \A k \in 1 .. n : t[k].on = s[k].on
      /\ n > 0 /\ ~ s[n].on => t[n].time = s[n].time + 6
  BY <1>0, <1>1, CwStretch
<1>3. PICK f : f = C!Listened(s)
  OBVIOUS
<1>4. PICK g : g = C!Listened(t)
  OBVIOUS
<1>5. CASE s = <<>> /\ said = <<>>
  <2>1. t = <<>> /\ then = <<>>
    BY <1>1, <1>5 DEF Stretch
  <2> QED
    BY <1>1, <2>1 DEF Telling
<1>6. CASE s # <<>>
  <2>1. PICK before : before = f[n - 1]
    OBVIOUS
  <2>2. /\ n > 0 /\ ~ s[n].on /\ before.letter # <<>>
        /\ \/ s[n].time = 1 /\ said = Append(before.heard, before.letter)
           \/ s[n].time >= 7 /\ said = Append(Append(before.heard, before.letter), C!Gap)
    BY <1>0, <1>3, <1>6, <2>1 DEF Telling
  <2>3. n - 1 \in Nat /\ n - 1 <= n /\ n - 1 \in 0 .. n - 1 /\ n - 1 \in 0 .. n /\ n \in 1 .. n
    BY <1>0, <2>2
  <2>4. \A k \in 0 .. n - 1 : f[k] = g[k]
    BY <1>0, <1>2, <1>3, <1>4, <2>3, CwPrefix
  <2>5. g[n - 1] = before
    BY <2>1, <2>3, <2>4
  <2>6. before \in Ear
    <3>1. f \in [0 .. n -> Ear]
      BY <1>0, <1>3, CwListened
    <3> QED
      BY <2>1, <2>3, <3>1
  <2>7. before.heard \in Saying /\ before.letter \in Letters
    BY <2>6 DEF Ear
  <2>8. Append(before.heard, before.letter) \in Saying
    BY <2>7 DEF Saying
  <2>9. s[n].time \in Nat
    <3>1. s[n] \in Symbol
      BY <1>0, <2>3, ElementOfSeq
    <3> QED
      BY <3>1 DEF Symbol
  <2>10. ~ t[n].on /\ t[n].time >= 7
    BY <1>2, <2>2, <2>3, <2>9
  <2>11. then = Append(Append(before.heard, before.letter), C!Gap)
    <3>1. CASE said = Append(before.heard, before.letter)
      <4>1. said # <<>> /\ C!Last(said) = before.letter
        BY <2>7, <3>1 DEF C!Last, Saying
      <4>2. C!Last(said) # C!Gap
        BY <2>2, <4>1 DEF C!Gap
      <4> QED
        BY <3>1, <4>1, <4>2
    <3>2. CASE said = Append(Append(before.heard, before.letter), C!Gap)
      <4>1. C!Last(said) = C!Gap
        <5>1. PICK u \in Saying : u = Append(before.heard, before.letter)
          BY <2>8
        <5> QED
          BY <3>2, <5>1, CodesAreLetters DEF C!Last, Saying
      <4> QED
        BY <3>2, <4>1
    <3> QED
      BY <2>2, <3>1, <3>2
  <2> HIDE DEF then
  <2>12. t # <<>>
    BY <1>2, <2>2
  <2>13. Telling(t, then)
    <3>1. /\ Len(t) > 0 /\ ~ t[Len(t)].on /\ C!Listened(t)[Len(t) - 1].letter # <<>>
          /\ t[Len(t)].time >= 7
          /\ then = Append(Append(C!Listened(t)[Len(t) - 1].heard, C!Listened(t)[Len(t) - 1].letter), C!Gap)
      BY <1>2, <1>4, <2>2, <2>5, <2>10, <2>11
    <3> QED
      BY <3>1 DEF Telling
  <2> QED
    BY <1>1, <2>13 DEF then
<1>7. s # <<>> \/ (s = <<>> /\ said = <<>>)
  BY DEF Telling
<1> QED
  BY <1>5, <1>6, <1>7

\* A letter is heard dot by dash.
LEMMA CwLetter ==
  ASSUME NEW s \in Seq(Symbol), NEW said \in Saying, NEW code \in Codes,
         C!Listened(s)[Len(s)] = [heard |-> said, letter |-> <<>>]
  PROVE  Telling(s \o C!Keyings(code), Append(said, code))
<1>0. PICK n \in Nat : n = Len(s)
  BY LenProperties
<1>1. PICK keys \in Seq(Symbol) : keys = C!Keyings(code)
  BY CwKeyings
<1>2. PICK m \in Nat : m = Len(code)
  BY LenProperties DEF Codes
<1>3. Len(keys) = 2 * m
  BY <1>1, <1>2, CwKeyings
<1>4. PICK t : t = s \o keys
  OBVIOUS
<1>5. t \in Seq(Symbol) /\ Len(t) = n + 2 * m
  BY <1>0, <1>1, <1>3, <1>4, ConcatProperties
<1>6. /\ \A k \in 1 .. n : t[k] = s[k]
      /\ \A i \in 1 .. m : /\ t[n + 2 * i - 1] = [on |-> TRUE, time |-> code[i]]
                        /\ t[n + 2 * i] = [on |-> FALSE, time |-> 1]
  <2>1. \A k \in 1 .. n + 2 * m : t[k] = IF k <= n THEN s[k] ELSE keys[k - n]
    BY <1>0, <1>1, <1>3, <1>4, ConcatProperties
  <2>2. ASSUME NEW i \in 1 .. m
        PROVE  /\ t[n + 2 * i - 1] = [on |-> TRUE, time |-> code[i]]
               /\ t[n + 2 * i] = [on |-> FALSE, time |-> 1]
    <3>1. /\ n + 2 * i - 1 \in 1 .. n + 2 * m /\ ~ (n + 2 * i - 1 <= n) /\ (n + 2 * i - 1) - n = 2 * i - 1
          /\ n + 2 * i \in 1 .. n + 2 * m /\ ~ (n + 2 * i <= n) /\ (n + 2 * i) - n = 2 * i
      <4>1. i \in Nat /\ 1 <= i /\ i <= m
        OBVIOUS
      <4>2. PICK d \in Nat : d = 2 * i
        BY <4>1
      <4>3. PICK e \in Nat : e = 2 * m
        OBVIOUS
      <4>4. 2 <= d /\ d <= e
        BY <4>1, <4>2, <4>3
      <4> QED
        BY <4>2, <4>3, <4>4
    <3>2. t[n + 2 * i - 1] = keys[2 * i - 1] /\ t[n + 2 * i] = keys[2 * i]
      BY <2>1, <3>1
    <3> QED
      BY <1>1, <1>2, <3>2, CwKeyings
  <2>3. \A k \in 1 .. n : k \in 1 .. n + 2 * m /\ k <= n
    OBVIOUS
  <2> QED
    BY <2>1, <2>2, <2>3
<1>7. PICK f : f = C!Listened(t)
  OBVIOUS
<1>8. f \in [0 .. n + 2 * m -> Ear] /\ \A k \in 1 .. n + 2 * m : f[k] = C!Listen(f[k - 1], t[k])
  BY <1>5, <1>7, CwListened
<1>9. f[n] = [heard |-> said, letter |-> <<>>]
  <2>1. \A k \in 0 .. n : C!Listened(t)[k] = C!Listened(s)[k]
    <3>1. n <= Len(s) /\ n <= Len(t)
      BY <1>0, <1>5
    <3>2. \A k \in 1 .. n : t[k] = s[k]
      BY <1>6
    <3> QED
      BY <1>5, <3>1, <3>2, CwPrefix
  <2> QED
    BY <1>0, <1>7, <2>1
<1>10. code \in Letters /\ code # <<>> /\ code \in Seq({1, 3}) /\ m > 0
  <2>1. code \in Seq({1, 3}) /\ code # <<>>
    BY DEF Codes
  <2> QED
    BY <1>2, <2>1, CodesAreLetters, EmptySeq
<1> DEFINE Spelt(i) == f[n + 2 * i] = [heard |-> said, letter |-> SubSeq(code, 1, i)]
           Held(i)  == i > 0 => f[n + 2 * i - 1] = f[n + 2 * i]
           N        == {i \in Nat : i <= m => Spelt(i) /\ Held(i)}
<1>11. 0 \in N
  <2>1. SubSeq(code, 1, 0) = <<>> /\ n + 2 * 0 = n
    BY <1>10 DEF Letters
  <2> QED
    BY <1>9, <2>1
<1>12. ASSUME NEW i \in Nat, i \in N PROVE i + 1 \in N
  <2> SUFFICES ASSUME i + 1 <= m
               PROVE  /\ f[n + 2 * (i + 1)] = [heard |-> said, letter |-> SubSeq(code, 1, i + 1)]
                      /\ f[n + 2 * (i + 1) - 1] = f[n + 2 * (i + 1)]
    OBVIOUS
  <2>1. f[n + 2 * i] = [heard |-> said, letter |-> SubSeq(code, 1, i)]
    <3>1. i <= m
      BY <1>2
    <3> QED
      BY <1>12, <3>1
  <2> HIDE DEF N
  <2>2. PICK a : a = n + 2 * (i + 1) - 1
    OBVIOUS
  <2>3. /\ a \in 1 .. n + 2 * m /\ a - 1 = n + 2 * i /\ a = n + 2 * (i + 1) - 1
        /\ a + 1 \in 1 .. n + 2 * m /\ (a + 1) - 1 = a /\ a + 1 = n + 2 * (i + 1)
        /\ i + 1 \in 1 .. m /\ a \in 0 .. n + 2 * m /\ a - 1 \in 0 .. n + 2 * m
    BY <2>2
  <2>4. t[a] = [on |-> TRUE, time |-> code[i + 1]] /\ t[a + 1] = [on |-> FALSE, time |-> 1]
    BY <1>6, <2>3
  <2>5. f[a] = C!Listen(f[a - 1], t[a]) /\ f[a + 1] = C!Listen(f[a], t[a + 1])
    BY <1>8, <2>3
  <2>6. t[a] \in Symbol /\ t[a + 1] \in Symbol /\ f[a - 1] \in Ear /\ f[a] \in Ear
    <3>1. f[a - 1] \in Ear /\ f[a] \in Ear
      BY <1>8, <2>3
    <3> QED
      BY <1>5, <2>3, <3>1, ElementOfSeq
  <2>7. PICK x : x = f[a - 1]
    OBVIOUS
  <2>8. x.heard = said /\ x.letter = SubSeq(code, 1, i) /\ x \in Ear
    BY <2>1, <2>3, <2>6, <2>7
  <2>9. PICK y : y = t[a]
    OBVIOUS
  <2>10. y.on /\ y.time = code[i + 1] /\ y \in Symbol
    BY <2>4, <2>6, <2>9
  <2>11. C!Listen(x, y) = [heard |-> said, letter |-> Append(SubSeq(code, 1, i), code[i + 1])]
    BY <2>8, <2>10, EarHears
  <2>12. Append(SubSeq(code, 1, i), code[i + 1]) = SubSeq(code, 1, i + 1)
    BY <1>2, <1>10 DEF Letters
  <2>13. f[a] = [heard |-> said, letter |-> SubSeq(code, 1, i + 1)]
    BY <2>5, <2>7, <2>9, <2>11, <2>12
  <2>14. PICK z : z = t[a + 1]
    OBVIOUS
  <2>15. ~ z.on /\ z.time < 3 /\ z \in Symbol
    BY <2>4, <2>6, <2>14
  <2>16. f[a + 1] = f[a]
    BY <2>5, <2>6, <2>14, <2>15, EarHears
  <2> QED
    BY <2>3, <2>13, <2>16
<1> HIDE DEF N
<1>13. m \in N
  BY <1>11, <1>12, SetInduction
<1>14. SubSeq(code, 1, m) = code
  BY <1>2, <1>10 DEF Letters
<1>15. f[n + 2 * m - 1] = [heard |-> said, letter |-> code]
  <2>1. m <= m
    OBVIOUS
  <2> QED
    BY <1>10, <1>13, <1>14, <2>1 DEF N
<1>16. ~ t[Len(t)].on /\ t[Len(t)].time = 1 /\ Len(t) > 0
  <2>1. m \in 1 .. m
    BY <1>10
  <2>2. t[n + 2 * m] = [on |-> FALSE, time |-> 1]
    BY <1>6, <2>1
  <2> QED
    BY <1>5, <1>10, <2>2
<1>17. C!Listened(t)[Len(t) - 1] = [heard |-> said, letter |-> code]
  BY <1>5, <1>7, <1>15
<1>18. Telling(t, Append(said, code))
  BY <1>10, <1>16, <1>17 DEF Telling
<1> QED
  BY <1>1, <1>4, <1>18

-----------------------------------------------------------------------------
(* The invariant of the CW encoder *)

\* Symbols that go on and off in turn and end off.
OnOff(s) == Len(s) % 2 = 0 /\ \A k \in 1 .. Len(s) : s[k].on = (k % 2 = 1)

\* A longer gap leaves the symbols on and off in turn,
LEMMA CwStretchedOnOff ==
  ASSUME NEW s \in Seq(Symbol), NEW dots \in Nat, OnOff(s)
  PROVE  OnOff(Stretch(s, dots))
  BY CwStretch DEF OnOff

\* and so does a letter that follows them.
LEMMA CwKeyedOnOff ==
  ASSUME NEW s \in Seq(Symbol), OnOff(s), NEW code \in Codes
  PROVE  OnOff(s \o C!Keyings(code))
<1>0. PICK n \in Nat : n = Len(s)
  BY LenProperties
<1>1. PICK keys \in Seq(Symbol) : keys = C!Keyings(code)
  BY CwKeyings
<1>2. PICK m \in Nat : m = Len(code)
  BY LenProperties DEF Codes
<1>3. Len(keys) = 2 * m
  BY <1>1, <1>2, CwKeyings
<1>4. PICK t : t = s \o keys
  OBVIOUS
<1>5. Len(t) = n + 2 * m /\ \A k \in 1 .. n + 2 * m : t[k] = IF k <= n THEN s[k] ELSE keys[k - n]
  <2>1. Len(t) = n + 2 * m
    BY <1>0, <1>1, <1>3, <1>4, ConcatProperties
  <2>2. \A k \in 1 .. Len(s) + Len(keys) : t[k] = IF k <= Len(s) THEN s[k] ELSE keys[k - Len(s)]
    BY <1>0, <1>1, <1>4, ConcatProperties
  <2> QED
    BY <1>0, <1>3, <2>1, <2>2
<1>6. n % 2 = 0 /\ \A k \in 1 .. n : s[k].on = (k % 2 = 1)
  BY <1>0 DEF OnOff
<1>7. \A k \in 1 .. 2 * m : keys[k].on = (k % 2 = 1)
  <2> SUFFICES ASSUME NEW k \in 1 .. 2 * m PROVE keys[k].on = (k % 2 = 1)
    OBVIOUS
  <2>1. CASE k % 2 = 1
    <3>1. PICK i \in 1 .. m : k = 2 * i - 1
      <4>1. PICK i \in Nat : k = 2 * i + 1
        <5>1. k \div 2 \in Nat /\ k = 2 * (k \div 2) + 1
          BY <2>1
        <5> QED
          BY <5>1
      <4>2. i + 1 \in 1 .. m /\ k = 2 * (i + 1) - 1
        BY <4>1
      <4> QED
        BY <4>2
    <3>2. keys[k] = [on |-> TRUE, time |-> code[i]]
      BY <1>1, <1>2, <3>1, CwKeyings
    <3>3. keys[k].on = TRUE
      BY <3>2
    <3>4. (k % 2 = 1) = TRUE
      BY <2>1, Zenon
    <3> QED
      BY <3>3, <3>4, Zenon
  <2>2. CASE k % 2 = 0
    <3>1. PICK i \in 1 .. m : k = 2 * i
      <4>1. k \div 2 \in 1 .. m /\ k = 2 * (k \div 2)
        BY <2>2
      <4> QED
        BY <4>1
    <3>2. keys[k] = [on |-> FALSE, time |-> 1]
      BY <1>1, <1>2, <3>1, CwKeyings
    <3>3. ~ (k % 2 = 1)
      BY <2>2
    <3>4. keys[k].on = FALSE
      BY <3>2
    <3>5. (k % 2 = 1) = FALSE
      BY <3>3, Zenon
    <3> QED
      BY <3>4, <3>5, Zenon
  <2> QED
    BY <2>1, <2>2
<1>8. ASSUME NEW k \in 1 .. n + 2 * m PROVE t[k].on = (k % 2 = 1)
  <2>1. CASE k <= n
    BY <1>5, <1>6, <2>1
  <2>2. CASE ~ (k <= n)
    <3>1. k - n \in 1 .. 2 * m /\ ((k - n) % 2 = 1) = (k % 2 = 1)
      BY <1>6, <2>2
    <3>2. keys[k - n].on = ((k - n) % 2 = 1) /\ t[k] = keys[k - n]
      BY <1>5, <1>7, <2>2, <3>1
    <3> QED
      BY <3>1, <3>2
  <2> QED
    BY <2>1, <2>2
<1>9. (n + 2 * m) % 2 = 0
  BY <1>6
<1> QED
  BY <1>1, <1>4, <1>5, <1>8, <1>9 DEF OnOff

CwTyped ==
  /\ text \in CwTexts
  /\ capacity \in Nat /\ result \in {"running", "ok", "no_memory"}
  /\ symbols \in Seq(Symbol)

\* The encoder is in step with the text: what it has filled of the array is what the
\* first pass has counted up to here, and what it has keyed is what the text says.
CwAt(j) ==
  /\ j \in 0 .. Len(text) /\ todo = SubSeq(text, j + 1, Len(text))
  /\ result # "no_memory" =>
       /\ capacity = C!Counted(text)[Len(text)] /\ Len(symbols) = C!Counted(text)[j]
       /\ Telling(symbols, C!Said(text)[j])

CwInv ==
  mode = "cw" =>
    /\ CwTyped /\ OnOff(symbols)
    /\ \E j \in 0 .. Len(text) : CwAt(j)
    /\ result = "no_memory" => symbols = <<>>
    /\ result = "ok" => todo = <<>>

\* The invariant of CW holds at first, before the first character,
LEMMA CwBegins == Init => CwInv
<1> SUFFICES ASSUME Init, mode = "cw"
             PROVE  /\ CwTyped /\ OnOff(symbols) /\ CwAt(0) /\ 0 \in 0 .. Len(text)
                    /\ result = "no_memory" => symbols = <<>>
                    /\ result = "ok" => todo = <<>>
  BY DEF CwInv
<1>1. C!Init
  BY DEF Init
<1>2. text \in Seq(Char) /\ text \in CwTexts
  BY <1>1, TextIsString DEF C!Init
<1>3. 0 \in 0 .. Len(text) /\ SubSeq(text, 0 + 1, Len(text)) = text
  BY <1>2, LenProperties
<1>4. C!Counted(text)[Len(text)] \in Nat /\ C!Counted(text)[0] = 0 /\ C!Said(text)[0] = <<>>
  <2>1. Len(text) \in 0 .. Len(text)
    BY <1>2, LenProperties
  <2> QED
    BY <1>2, <2>1, CwCounted, CwSaid
<1>5. symbols = <<>> /\ todo = text /\ capacity \in {C!Counted(text)[Len(text)], 0}
  BY <1>1 DEF C!Init, C!Capacity
<1>6. result \in {"running", "no_memory"} /\ (result # "no_memory" => capacity = C!Counted(text)[Len(text)])
  BY <1>1 DEF C!Init, C!Capacity
<1>7. CwTyped
  BY <1>2, <1>4, <1>5, <1>6 DEF CwTyped
<1>8. OnOff(symbols) /\ Len(symbols) = 0
  BY <1>5 DEF OnOff
<1>9. CwAt(0)
  <2>1. Telling(symbols, C!Said(text)[0])
    BY <1>4, <1>5 DEF Telling
  <2> QED
    BY <1>3, <1>4, <1>5, <1>6, <1>8, <2>1 DEF CwAt
<1> QED
  BY <1>3, <1>5, <1>6, <1>7, <1>8, <1>9

\* What is stretched is the array.
LEMMA CwStretched == \A dots : C!Stretched(dots) = Stretch(symbols, dots)
  BY DEF C!Stretched, Stretch

\* A character keeps the array and the text in step.
LEMMA CwCharacter ==
  ASSUME text \in Seq(Char), symbols \in Seq(Symbol), OnOff(symbols),
         NEW j \in Nat, j + 1 \in 1 .. Len(text), NEW c, c = text[j + 1],
         Len(symbols) = C!Counted(text)[j], Telling(symbols, C!Said(text)[j]),
         \/ c \in C!Coded /\ symbols' = C!Stretched(2) \o C!Keyings(C!MORSE[c])
         \/ c = C!SP /\ symbols' = C!Stretched(6)
         \/ c \notin C!Coded \cup {C!SP} /\ UNCHANGED symbols
  PROVE  /\ symbols' \in Seq(Symbol) /\ OnOff(symbols')
         /\ Len(symbols') = C!Counted(text)[j + 1] /\ Telling(symbols', C!Said(text)[j + 1])
<1>1. PICK n \in Nat : n = Len(symbols)
  BY LenProperties
<1>2. PICK said \in Saying : said = C!Said(text)[j]
  <2>1. j \in 0 .. Len(text)
    OBVIOUS
  <2> QED
    BY <2>1, CwSaid
<1>3. C!Counted(text)[j + 1] = C!Needed(n, c)
  <2>1. C!Counted(text)[j + 1] = C!Needed(C!Counted(text)[(j + 1) - 1], text[j + 1])
    BY CwCounted
  <2> QED
    BY <1>1, <2>1
<1>4. C!Said(text)[j + 1] = C!Say(said, c)
  <2>1. C!Said(text)[j + 1] = C!Say(C!Said(text)[(j + 1) - 1], text[j + 1])
    BY CwSaid
  <2> QED
    BY <1>2, <2>1
<1>5. CASE c \in C!Coded /\ symbols' = C!Stretched(2) \o C!Keyings(C!MORSE[c])
  <2>1. PICK code \in Codes : code = C!MORSE[c]
    BY <1>5, MorseCode
  <2>2. PICK s \in Seq(Symbol) : s = Stretch(symbols, 2)
    BY CwStretch
  <2>3. symbols' = s \o C!Keyings(code)
    BY <1>5, <2>1, <2>2, CwStretched
  <2>4. Len(s) = n /\ OnOff(s)
    BY <1>1, <2>2, CwStretch, CwStretchedOnOff
  <2>5. C!Listened(s)[Len(s)] = [heard |-> said, letter |-> <<>>]
    BY <1>1, <1>2, <2>2, <2>4, CwBetween
  <2>6. Telling(symbols', Append(said, code))
    BY <2>3, <2>5, CwLetter
  <2>7. OnOff(symbols')
    BY <2>3, <2>4, CwKeyedOnOff
  <2>8. symbols' \in Seq(Symbol) /\ Len(symbols') = n + 2 * Len(code)
    <3>1. PICK keys \in Seq(Symbol) : keys = C!Keyings(code) /\ Len(keys) = 2 * Len(code)
      BY CwKeyings
    <3> QED
      <4>1. s \o keys \in Seq(Symbol) /\ Len(s \o keys) = Len(s) + Len(keys)
        BY ConcatProperties
      <4>2. symbols' = s \o keys
        BY <2>3, <3>1
      <4>3. Len(s) + Len(keys) = n + 2 * Len(code)
        BY <2>4, <3>1
      <4> HIDE DEF Symbol
      <4> QED
        BY <4>1, <4>2, <4>3
  <2>9. C!Needed(n, c) = n + 2 * Len(code) /\ C!Say(said, c) = Append(said, code)
    BY <1>5, <2>1 DEF C!Needed, C!Say
  <2> QED
    BY <1>3, <1>4, <2>6, <2>7, <2>8, <2>9
<1>6. CASE c = C!SP /\ symbols' = C!Stretched(6)
  <2>1. symbols' = Stretch(symbols, 6)
    BY <1>6, CwStretched
  <2>2. symbols' \in Seq(Symbol) /\ Len(symbols') = n /\ OnOff(symbols')
    BY <1>1, <2>1, CwStretch, CwStretchedOnOff
  <2>3. c \notin C!Coded
    BY <1>6, MorseCode
  <2>4. C!Needed(n, c) = n
        /\ C!Say(said, c) = IF said # <<>> /\ C!Last(said) # C!Gap THEN Append(said, C!Gap) ELSE said
    BY <1>6, <2>3, Zenon DEF C!Needed, C!Say
  <2>5. Telling(symbols', C!Say(said, c))
    BY <1>2, <2>1, <2>4, CwSpaced
  <2> QED
    BY <1>3, <1>4, <2>2, <2>4, <2>5
<1>7. CASE c \notin C!Coded \cup {C!SP} /\ UNCHANGED symbols
  <2>1. C!Needed(n, c) = n /\ C!Say(said, c) = said
    BY <1>7 DEF C!Needed, C!Say
  <2>2. symbols' = symbols
    BY <1>7
  <2> QED
    BY <1>1, <1>2, <1>3, <1>4, <2>1, <2>2
<1> QED
  BY <1>5, <1>6, <1>7

\* and after every character, as CwCharacter has it.
LEMMA CwGoesOn == CwInv /\ [Next]_vars => CwInv'
<1> SUFFICES ASSUME CwInv, [Next]_vars, mode' = "cw"
             PROVE  /\ CwTyped' /\ OnOff(symbols')
                    /\ \E j \in 0 .. Len(text') : CwAt(j)'
                    /\ result' = "no_memory" => symbols' = <<>>
                    /\ result' = "ok" => todo' = <<>>
  BY DEF CwInv
<1>0. mode = "cw" /\ ((C!Next /\ UNCHANGED <<mode, shift>>) \/ UNCHANGED vars)
  BY DEF Next, CwStep, RttyStep, WsprStep, FtxStep, vars
<1>1. /\ CwTyped /\ OnOff(symbols)
      /\ \E j \in 0 .. Len(text) : CwAt(j)
      /\ result = "no_memory" => symbols = <<>>
      /\ result = "ok" => todo = <<>>
  BY <1>0 DEF CwInv
<1>2. PICK j \in 0 .. Len(text) : CwAt(j)
  BY <1>1
<1>3. text \in Seq(Char) /\ j \in Nat
  BY <1>1, <1>2, TextIsString, LenProperties DEF CwTyped
<1>4. CASE C!Encode
  <2>1. /\ result = "running" /\ todo # <<>> /\ todo' = Tail(todo)
        /\ text' = text /\ capacity' = capacity /\ result' = result
    BY <1>4 DEF C!Encode
  <2>2. todo = SubSeq(text, j + 1, Len(text))
    BY <1>2 DEF CwAt
  <2>3. PICK c : c = Head(todo)
    OBVIOUS
  <2>4. j + 1 \in 1 .. Len(text) /\ c = text[j + 1] /\ todo' = SubSeq(text, (j + 1) + 1, Len(text))
    BY <1>3, <2>1, <2>2, <2>3, TextStep
  <2>5. /\ capacity = C!Counted(text)[Len(text)] /\ Len(symbols) = C!Counted(text)[j]
        /\ Telling(symbols, C!Said(text)[j])
    BY <1>2, <2>1 DEF CwAt
  <2>6. \/ c \in C!Coded /\ symbols' = C!Stretched(2) \o C!Keyings(C!MORSE[c])
        \/ c = C!SP /\ symbols' = C!Stretched(6)
        \/ c \notin C!Coded \cup {C!SP} /\ UNCHANGED symbols
    BY <1>4, <2>3, Zenon DEF C!Encode, C!Key, C!Space, C!Skip
  <2>7. /\ symbols' \in Seq(Symbol) /\ OnOff(symbols')
        /\ Len(symbols') = C!Counted(text)[j + 1] /\ Telling(symbols', C!Said(text)[j + 1])
    <3>1. symbols \in Seq(Symbol)
      BY <1>1 DEF CwTyped
    <3> QED
      BY <1>1, <1>3, <2>4, <2>5, <2>6, <3>1, CwCharacter
  <2>8. CwAt(j + 1)'
    <3>1. j + 1 \in 0 .. Len(text') /\ todo' = SubSeq(text', (j + 1) + 1, Len(text'))
      <4>1. j + 1 \in 0 .. Len(text)
        BY <1>3, <2>4
      <4> QED
        BY <2>1, <2>4, <4>1
    <3>2. capacity' = C!Counted(text')[Len(text')] /\ Len(symbols') = C!Counted(text')[j + 1]
      BY <2>1, <2>5, <2>7
    <3>3. Telling(symbols', C!Said(text')[j + 1])
      BY <2>1, <2>7
    <3> QED
      BY <3>1, <3>2, <3>3 DEF CwAt
  <2>9. CwTyped'
    BY <1>1, <2>1, <2>7 DEF CwTyped
  <2>10. j + 1 \in 0 .. Len(text')
    BY <2>1, <2>4
  <2> QED
    BY <2>1, <2>7, <2>8, <2>9, <2>10
<1>5. CASE C!Return
  <2>1. /\ result = "running" /\ todo = <<>> /\ result' = "ok"
        /\ UNCHANGED <<text, todo, capacity, symbols>>
    BY <1>5 DEF C!Return
  <2>2. CwAt(j)'
    BY <1>2, <2>1 DEF CwAt
  <2> QED
    BY <1>1, <2>1, <2>2 DEF CwTyped
<1>6. CASE UNCHANGED vars
  BY <1>1, <1>2, <1>6 DEF vars, CwTyped, CwAt
<1> QED
  BY <1>0, <1>4, <1>5, <1>6 DEF C!Next

\* The invariant implies what the runs check.
LEMMA CwShows == CwInv => CwFills /\ CwReadable
<1> SUFFICES ASSUME CwInv, mode = "cw"
             PROVE  C!TypeOK /\ C!FillsTheArray /\ C!Keyed /\ C!Readable
  BY DEF CwFills, CwReadable
<1>1. /\ CwTyped /\ OnOff(symbols)
      /\ result = "no_memory" => symbols = <<>>
      /\ result = "ok" => todo = <<>>
  BY DEF CwInv
<1>2. PICK j \in 0 .. Len(text) : CwAt(j)
  BY DEF CwInv
<1>3. /\ text \in Seq(Char) /\ text \in CwTexts /\ capacity \in Nat /\ symbols \in Seq(Symbol)
      /\ result \in {"running", "ok", "no_memory"} /\ Len(text) \in Nat /\ j \in Nat
  BY <1>1, <1>2, TextIsString, LenProperties DEF CwTyped
<1>4. todo = SubSeq(text, j + 1, Len(text)) /\ Len(todo) = Len(text) - j
  BY <1>2, <1>3, TextStep DEF CwAt
<1>5. C!TypeOK
  BY <1>3, <1>4 DEF C!TypeOK, Symbol
<1>6. C!FillsTheArray
  <2>1. CASE result = "no_memory"
    BY <1>1, <1>3, <2>1 DEF C!FillsTheArray
  <2>2. CASE result # "no_memory"
    <3>1. capacity = C!Counted(text)[Len(text)] /\ Len(symbols) = C!Counted(text)[j]
      BY <1>2, <2>2 DEF CwAt
    <3>2. PICK f : f = C!Counted(text)
      OBVIOUS
    <3>3. f \in [0 .. Len(text) -> Nat] /\ \A k \in 1 .. Len(text) : f[k] = C!Needed(f[k - 1], text[k])
      BY <1>3, <3>2, CwCounted
    <3>4. \A k \in 1 .. Len(text) : f[k - 1] <= f[k]
      <4> SUFFICES ASSUME NEW k \in 1 .. Len(text) PROVE f[k - 1] <= f[k]
        OBVIOUS
      <4>1. PICK n \in Nat : n = f[k - 1]
        BY <3>3
      <4>2. n <= C!Needed(n, text[k])
        BY MorseCode DEF C!Needed, Codes
      <4> QED
        BY <3>3, <4>1, <4>2
    <3>5. f[j] <= f[Len(text)]
      BY <1>3, <3>3, <3>4, Growing
    <3>6. result = "ok" => j = Len(text)
      <4>1. ASSUME todo = <<>> PROVE Len(todo) = 0
        BY <4>1
      <4> QED
        BY <1>1, <1>3, <1>4, <4>1
    <3> QED
      BY <3>1, <3>2, <3>5, <3>6 DEF C!FillsTheArray
  <2> QED
    BY <2>1, <2>2
<1>7. C!Keyed
  BY <1>1, <1>3 DEF C!Keyed, OnOff
<1>8. C!Readable
  <2> SUFFICES ASSUME result # "no_memory" PROVE C!Heard = C!Said(text)[Len(text) - Len(todo)]
    BY DEF C!Readable
  <2>1. Telling(symbols, C!Said(text)[j])
    BY <1>2 DEF CwAt
  <2>2. C!Heard = C!Said(text)[j]
    BY <1>3, <2>1, CwTells DEF C!Heard
  <2>3. Len(text) - Len(todo) = j
    BY <1>3, <1>4
  <2> QED
    BY <2>2, <2>3
<1> QED
  BY <1>5, <1>6, <1>7, <1>8

\* However the encoder is called, it is in step with the text.
LEMMA CwInvariant == Spec => []CwInv
  BY CwBegins, CwGoesOn, PTL DEF Spec

\* CW, for every text: the second pass of generate_cw_sequence (src/modes/encoders/cw.c)
\* stays within the array that the first one has sized, and fills it.
THEOREM CwFillsCorrect == Spec => []CwFills
  BY CwInvariant, CwShows, PTL

\* CW, for every text: a listener who goes by the gaps hears its letters and the gaps
\* between its words, wherever there are spaces and characters without a code, and the
\* key goes on and off in turn.
THEOREM CwReadableCorrect == Spec => []CwReadable
  BY CwInvariant, CwShows, PTL

-----------------------------------------------------------------------------
(* The tables of ITA2 *)

\* The characters of the tables.
Glyphs == R!Encodable \cup {"NUL"}

LtrsPrinted == {"NUL", "E", "LF", "A", "S", "I", "U", "CR", "D", "R", "J", "N", "F", "C", "K",
            "T", "Z", "L", "W", "H", "Y", "P", "Q", "O", "B", "G", "M", "X", "V"}
LtrsSet == LtrsPrinted \cup {R!SP}
FigsSet == {"NUL", "3", "LF", "-", R!SP, "'", "8", "7", "CR", "ENQ", "4", "BEL", R!COMMA, "!", ":", "(",
            "5", "+", ")", "2", "#", "6", "0", "1", "9", "?", "&", ".", "/", "="}

\* Each table has 32 entries.
LEMMA TablesTyped ==
  /\ R!ITA2_LTRS \in Seq(LtrsSet) /\ Len(R!ITA2_LTRS) = 32
  /\ R!ITA2_FIGS \in Seq(FigsSet) /\ Len(R!ITA2_FIGS) = 32
<1>1. R!ITA2_LTRS \in Seq(LtrsSet)
  BY SMTT(60) DEF R!ITA2_LTRS, LtrsSet, LtrsPrinted
<1>2. Len(R!ITA2_LTRS) = 32
  BY SMTT(60) DEF R!ITA2_LTRS
<1>3. R!ITA2_FIGS \in Seq(FigsSet)
  BY SMTT(60) DEF R!ITA2_FIGS, FigsSet
<1>4. Len(R!ITA2_FIGS) = 32
  BY SMTT(60) DEF R!ITA2_FIGS
<1> QED
  BY <1>1, <1>2, <1>3, <1>4

\* The codes of the shifts are characters in no table.
LEMMA TablesShift ==
  /\ R!ITA2_LTRS[28] = "NUL" /\ R!ITA2_LTRS[32] = "NUL"
  /\ R!ITA2_FIGS[28] = "NUL" /\ R!ITA2_FIGS[32] = "NUL"
  BY Zenon DEF R!ITA2_LTRS, R!ITA2_FIGS

\* Line feed, space and carriage return have one code in both tables.
LEMMA TablesAny ==
  /\ R!ITA2_LTRS[3] = "LF" /\ R!ITA2_FIGS[3] = "LF"
  /\ R!ITA2_LTRS[5] = R!SP /\ R!ITA2_FIGS[5] = R!SP
  /\ R!ITA2_LTRS[9] = "CR" /\ R!ITA2_FIGS[9] = "CR"
  BY Zenon DEF R!ITA2_LTRS, R!ITA2_FIGS

\* The letters, code by code.
LEMMA LettersRow ==
  /\ R!ITA2_LTRS[1] = "NUL" /\ R!ITA2_LTRS[2] = "E" /\ R!ITA2_LTRS[3] = "LF" /\ R!ITA2_LTRS[4] = "A"
  /\ R!ITA2_LTRS[5] = R!SP /\ R!ITA2_LTRS[6] = "S" /\ R!ITA2_LTRS[7] = "I" /\ R!ITA2_LTRS[8] = "U"
  /\ R!ITA2_LTRS[9] = "CR" /\ R!ITA2_LTRS[10] = "D" /\ R!ITA2_LTRS[11] = "R" /\ R!ITA2_LTRS[12] = "J"
  /\ R!ITA2_LTRS[13] = "N" /\ R!ITA2_LTRS[14] = "F" /\ R!ITA2_LTRS[15] = "C" /\ R!ITA2_LTRS[16] = "K"
  /\ R!ITA2_LTRS[17] = "T" /\ R!ITA2_LTRS[18] = "Z" /\ R!ITA2_LTRS[19] = "L" /\ R!ITA2_LTRS[20] = "W"
  /\ R!ITA2_LTRS[21] = "H" /\ R!ITA2_LTRS[22] = "Y" /\ R!ITA2_LTRS[23] = "P" /\ R!ITA2_LTRS[24] = "Q"
  /\ R!ITA2_LTRS[25] = "O" /\ R!ITA2_LTRS[26] = "B" /\ R!ITA2_LTRS[27] = "G" /\ R!ITA2_LTRS[28] = "NUL"
  /\ R!ITA2_LTRS[29] = "M" /\ R!ITA2_LTRS[30] = "X" /\ R!ITA2_LTRS[31] = "V" /\ R!ITA2_LTRS[32] = "NUL"
  BY Zenon DEF R!ITA2_LTRS

\* A space is no other character.
LEMMA SpaceAlone == R!SP \notin LtrsPrinted
  BY Zenon DEF LtrsPrinted, R!SP

\* Line feed, space and carriage return have one place among the letters.
LEMMA LettersOnce ==
  ASSUME NEW k \in 1 .. 32
  PROVE  /\ R!ITA2_LTRS[k] = "LF" => k = 3
         /\ R!ITA2_LTRS[k] = R!SP => k = 5
         /\ R!ITA2_LTRS[k] = "CR" => k = 9
<1> QED
  BY SMTT(60), SpaceAlone, LettersRow DEF LtrsPrinted

\* What the shifts can print are the entries of their tables.
LEMMA TableSets ==
  /\ R!Letters = {R!ITA2_LTRS[k] : k \in 1 .. 32} \ {"NUL"}
  /\ R!Figures = {R!ITA2_FIGS[k] : k \in 1 .. 32} \ {"NUL"}
<1>1. DOMAIN R!ITA2_LTRS = 1 .. 32 /\ DOMAIN R!ITA2_FIGS = 1 .. 32
  BY TablesTyped, LenProperties
<1> QED
  BY <1>1 DEF R!Letters, R!Figures, R!ToSet

\* The entries of the tables are what a receiver prints.
LEMMA TableGlyphs == \A k \in 1 .. 32 : R!ITA2_LTRS[k] \in Glyphs /\ R!ITA2_FIGS[k] \in Glyphs
  BY TableSets DEF Glyphs, R!Encodable

\* The code of a character is where the table has it.
LEMMA CodeFound ==
  ASSUME NEW table, NEW c, \E k \in 1 .. 32 : table[k] = c
  PROVE  R!CodeIn(table, c) \in 0 .. 31 /\ table[R!CodeIn(table, c) + 1] = c
<1>1. PICK i \in 1 .. 32 : table[i] = c
  OBVIOUS
<1>2. i - 1 \in 0 .. 31 /\ table[(i - 1) + 1] = c
  BY <1>1
<1>3. PICK k : k = CHOOSE place \in 0 .. 31 : table[place + 1] = c
  OBVIOUS
<1>4. k \in 0 .. 31 /\ table[k + 1] = c
  BY <1>2, <1>3
<1> QED
  BY <1>3, <1>4 DEF R!CodeIn

\* A character has a code in the table of its shift, one that needs no shift the
\* same in both, and none has the code of a shift.
LEMMA RttyCode ==
  ASSUME NEW c \in R!Encodable
  PROVE  /\ R!Code(c) \in 0 .. 31 /\ R!Code(c) # R!LtrsShift /\ R!Code(c) # R!FigsShift
         /\ c \in R!Letters => R!ITA2_LTRS[R!Code(c) + 1] = c
         /\ c \notin R!Letters => R!ITA2_FIGS[R!Code(c) + 1] = c
         /\ c \in R!AnyShift => R!ITA2_LTRS[R!Code(c) + 1] = c /\ R!ITA2_FIGS[R!Code(c) + 1] = c
<1>1. CASE c \in R!Letters
  <2>1. c # "NUL" /\ \E k \in 1 .. 32 : R!ITA2_LTRS[k] = c
    BY <1>1, TableSets
  <2>2. PICK code : code = R!CodeIn(R!ITA2_LTRS, c)
    OBVIOUS
  <2>3. code \in 0 .. 31 /\ R!ITA2_LTRS[code + 1] = c /\ R!Code(c) = code
    BY <1>1, <2>1, <2>2, CodeFound DEF R!Code
  <2>4. code # 27 /\ code # 31
    BY <2>1, <2>3, TablesShift
  <2>5. ASSUME c \in R!AnyShift PROVE R!ITA2_FIGS[code + 1] = c
    <3>1. code + 1 \in 1 .. 32
      BY <2>3
    <3>2. \/ c = "LF" /\ code + 1 = 3
          \/ c = R!SP /\ code + 1 = 5
          \/ c = "CR" /\ code + 1 = 9
      BY <2>3, <2>5, <3>1, LettersOnce DEF R!AnyShift
    <3> QED
      BY <3>2, TablesAny
  <2> QED
    BY <1>1, <2>3, <2>4, <2>5 DEF R!LtrsShift, R!FigsShift
<1>2. CASE c \notin R!Letters
  <2>1. c # "NUL" /\ \E k \in 1 .. 32 : R!ITA2_FIGS[k] = c
    BY <1>2, TableSets DEF R!Encodable
  <2>2. PICK code : code = R!CodeIn(R!ITA2_FIGS, c)
    OBVIOUS
  <2>3. code \in 0 .. 31 /\ R!ITA2_FIGS[code + 1] = c /\ R!Code(c) = code
    BY <1>2, <2>1, <2>2, CodeFound DEF R!Code
  <2>4. code # 27 /\ code # 31
    BY <2>1, <2>3, TablesShift
  <2>5. c \notin R!AnyShift
    <3>1. \A k \in 1 .. 32 : R!ITA2_LTRS[k] # c
      BY <1>2, <2>1, TableSets
    <3>2. 3 \in 1 .. 32 /\ 5 \in 1 .. 32 /\ 9 \in 1 .. 32
      OBVIOUS
    <3> QED
      BY <3>1, <3>2, TablesAny DEF R!AnyShift
  <2> QED
    BY <1>2, <2>3, <2>4, <2>5 DEF R!LtrsShift, R!FigsShift
<1> QED
  BY <1>1, <1>2

-----------------------------------------------------------------------------
(* Tones and codes *)

Tone == {0, 1}
Coding == 0 .. 31

\* A code comes out of its tones.
LEMMA BaudotSampled ==
  ASSUME NEW code \in Coding
  PROVE  LET tones == R!Baudot(code)
         IN /\ \A k \in 1 .. 7 : tones[k] \in Tone
            /\ tones[2] + 2 * tones[3] + 4 * tones[4] + 8 * tones[5] + 16 * tones[6] = code
<1>1. PICK tones : tones = R!Baudot(code)
  OBVIOUS
<1>2. /\ tones[1] = 0 /\ tones[7] = 1
      /\ tones[2] = code % 2 /\ tones[3] = (code \div 2) % 2 /\ tones[4] = (code \div 4) % 2
      /\ tones[5] = (code \div 8) % 2 /\ tones[6] = (code \div 16) % 2
  BY <1>1, Zenon DEF R!Baudot
<1>3. /\ code % 2 \in Tone /\ (code \div 2) % 2 \in Tone /\ (code \div 4) % 2 \in Tone
      /\ (code \div 8) % 2 \in Tone /\ (code \div 16) % 2 \in Tone
  BY DEF Tone, Coding
<1>4. (code % 2) + 2 * ((code \div 2) % 2) + 4 * ((code \div 4) % 2) + 8 * ((code \div 8) % 2)
        + 16 * ((code \div 16) % 2) = code
  BY DEF Coding
<1>5. \A k \in 1 .. 7 : tones[k] \in Tone
  BY <1>2, <1>3 DEF Tone
<1> QED
  BY <1>1, <1>2, <1>4, <1>5

\* The tones of a few codes, one after another.
LEMMA TonesOf ==
  ASSUME NEW codes \in Seq(Coding)
  PROVE  /\ R!Tones(codes) \in Seq(Tone) /\ Len(R!Tones(codes)) = 7 * Len(codes)
         /\ \A i \in 1 .. Len(codes), b \in 1 .. 7 :
              R!Tones(codes)[7 * i - 7 + b] = R!Baudot(codes[i])[b]
<1>0. PICK n \in Nat : n = Len(codes)
  BY LenProperties
<1>1. PICK m \in Nat : m = 7 * n
  OBVIOUS
<1>2. PICK t : t = R!Tones(codes)
  OBVIOUS
<1>3. t = [k \in 1 .. m |-> R!Baudot(codes[((k - 1) \div 7) + 1])[((k - 1) % 7) + 1]]
  BY <1>0, <1>1, <1>2 DEF R!Tones
<1>4. ASSUME NEW k \in 1 .. m PROVE t[k] \in Tone
  <2>1. ((k - 1) \div 7) + 1 \in 1 .. n /\ ((k - 1) % 7) + 1 \in 1 .. 7
    BY <1>1
  <2>2. codes[((k - 1) \div 7) + 1] \in Coding
    BY <1>0, <2>1, ElementOfSeq
  <2> QED
    BY <1>3, <2>1, <2>2, BaudotSampled
<1>5. t \in [1 .. m -> Tone]
  BY <1>3, <1>4
<1>6. t \in Seq(Tone)
  BY <1>5, SeqDef
<1>7. Len(t) = m
  <2>1. DOMAIN t = 1 .. m
    BY <1>5
  <2> QED
    BY <1>6, <2>1, LenProperties
<1>8. ASSUME NEW i \in 1 .. n, NEW b \in 1 .. 7 PROVE t[7 * i - 7 + b] = R!Baudot(codes[i])[b]
  <2>1. PICK k : k = 7 * i - 7 + b
    OBVIOUS
  <2>2. k \in 1 .. m /\ (k - 1) \div 7 = i - 1 /\ (k - 1) % 7 = b - 1
    BY <1>1, <2>1
  <2>3. ((k - 1) \div 7) + 1 = i /\ ((k - 1) % 7) + 1 = b
    BY <2>2
  <2> QED
    BY <1>3, <2>1, <2>2, <2>3
<1> QED
  BY <1>0, <1>1, <1>2, <1>6, <1>7, <1>8

\* What a receiver has heard.
Reading == Seq(Glyphs)
Shift   == {"ltrs", "figs"}
Paper   == [shift : Shift, heard : Reading]

\* What a receiver does with a code: one of the shifts, or one that prints.
LEMMA ReceiveCode ==
  ASSUME NEW x \in Paper, NEW code \in Coding
  PROVE  /\ code = R!LtrsShift => R!Receive(x, code) = [shift |-> "ltrs", heard |-> x.heard]
         /\ code = R!FigsShift => R!Receive(x, code) = [shift |-> "figs", heard |-> x.heard]
         /\ code # R!LtrsShift /\ code # R!FigsShift =>
              R!Receive(x, code) =
                [shift |-> x.shift,
                 heard |-> Append(x.heard, IF x.shift = "ltrs" THEN R!ITA2_LTRS[code + 1]
                                           ELSE R!ITA2_FIGS[code + 1])]
<1>1. R!LtrsShift # R!FigsShift
  BY DEF R!LtrsShift, R!FigsShift
<1>2. PICK h : h = x.heard
  OBVIOUS
<1>3. PICK v : v = x.shift
  OBVIOUS
<1>4. PICK g : g = (IF v = "ltrs" THEN R!ITA2_LTRS ELSE R!ITA2_FIGS)[code + 1]
  OBVIOUS
<1>5. g = IF v = "ltrs" THEN R!ITA2_LTRS[code + 1] ELSE R!ITA2_FIGS[code + 1]
  BY <1>4
<1>6. R!Receive(x, code) = CASE code = R!LtrsShift -> [shift |-> "ltrs", heard |-> h]
                             [] code = R!FigsShift -> [shift |-> "figs", heard |-> h]
                             [] OTHER -> [shift |-> v, heard |-> Append(h, g)]
  BY <1>2, <1>3, <1>4 DEF R!Receive
<1> QED
  BY <1>1, <1>2, <1>3, <1>5, <1>6

\* A receiver has printed entries of the tables, whatever the codes.
LEMMA ReceiveStays == \A x \in Paper, code \in Coding : R!Receive(x, code) \in Paper
<1> SUFFICES ASSUME NEW x \in Paper, NEW code \in Coding PROVE R!Receive(x, code) \in Paper
  OBVIOUS
<1>1. x.heard \in Reading /\ x.shift \in Shift
  BY DEF Paper
<1>2. PICK g \in Glyphs : g = IF x.shift = "ltrs" THEN R!ITA2_LTRS[code + 1] ELSE R!ITA2_FIGS[code + 1]
  <2>1. code + 1 \in 1 .. 32
    BY DEF Coding
  <2> QED
    BY <2>1, TableGlyphs
<1>3. Append(x.heard, g) \in Reading
  BY <1>1, <1>2 DEF Reading
<1>4. "ltrs" \in Shift /\ "figs" \in Shift
  BY DEF Shift
<1>5. \/ R!Receive(x, code) = [shift |-> "ltrs", heard |-> x.heard]
      \/ R!Receive(x, code) = [shift |-> "figs", heard |-> x.heard]
      \/ R!Receive(x, code) = [shift |-> x.shift, heard |-> Append(x.heard, g)]
  BY <1>2, ReceiveCode
<1>6. /\ [shift |-> "ltrs", heard |-> x.heard] \in Paper
      /\ [shift |-> "figs", heard |-> x.heard] \in Paper
      /\ [shift |-> x.shift, heard |-> Append(x.heard, g)] \in Paper
  BY <1>1, <1>3, <1>4 DEF Paper
<1> QED
  BY <1>5, <1>6

\* Five bits are a code.
LEMMA FiveBits ==
  \A a, b, c, d, e \in Tone : a + 2 * b + 4 * c + 8 * d + 16 * e \in Coding
  BY DEF Tone, Coding

\* What is sampled of tones is a code.
LEMMA SampledStays ==
  ASSUME NEW s \in Seq(Tone), NEW n \in Nat, Len(s) = 7 * n, NEW k \in 1 .. n
  PROVE  R!Sampled(s, k) \in Coding
<1>1. PICK p \in Nat : p = 7 * k - 6
  OBVIOUS
<1>2. \A b \in 1 .. 5 : p + b \in 1 .. Len(s)
  BY <1>1
<1>3. s[p + 1] \in Tone /\ s[p + 2] \in Tone /\ s[p + 3] \in Tone /\ s[p + 4] \in Tone /\ s[p + 5] \in Tone
  BY <1>2, ElementOfSeq
<1>4. R!Sampled(s, k) = s[p + 1] + 2 * s[p + 2] + 4 * s[p + 3] + 8 * s[p + 4] + 16 * s[p + 5]
  BY <1>1 DEF R!Sampled
<1>5. s[p + 1] + 2 * s[p + 2] + 4 * s[p + 3] + 8 * s[p + 4] + 16 * s[p + 5] \in Coding
  BY <1>3, FiveBits, Zenon
<1> QED
  BY <1>4, <1>5

\* The receiver.
LEMMA RttyReceived ==
  ASSUME NEW s \in Seq(Tone), NEW w \in Nat, Len(s) = 7 * w
  PROVE  LET n == R!Received(s)
         IN /\ n \in [0 .. w -> Paper] /\ n[0] = [shift |-> "ltrs", heard |-> <<>>]
            /\ \A k \in 1 .. w : n[k] = R!Receive(n[k - 1], R!Sampled(s, k))
<1> DEFINE Step(f) == [k \in 0 .. w |-> IF k = 0 THEN [shift |-> "ltrs", heard |-> <<>>] ELSE R!Receive(f[k - 1], R!Sampled(s, k))]
           next    == [p \in Paper \X (1 .. w) |-> R!Receive(p[1], R!Sampled(s, p[2]))]
           g       == CHOOSE f : f = Step(f)
<1>0. w \in Nat /\ [shift |-> "ltrs", heard |-> <<>>] \in Paper
  BY LenProperties DEF Paper, Shift, Reading
<1>1. R!Received(s) = g
  <2>1. Len(s) \div 7 = w
    OBVIOUS
  <2> QED
    BY <2>1 DEF R!Received
<1>2. next \in [Paper \X (1 .. w) -> Paper]
  <2>1. ASSUME NEW p \in Paper \X (1 .. w) PROVE R!Receive(p[1], R!Sampled(s, p[2])) \in Paper
    <3>1. p[1] \in Paper /\ R!Sampled(s, p[2]) \in Coding
      BY SampledStays
    <3> QED
      BY <3>1, ReceiveStays
  <2> QED
    BY <2>1
<1>3. \E f \in [0 .. w -> Paper] : Obeys(f, [shift |-> "ltrs", heard |-> <<>>], w, next)
  <2> HIDE DEF next
  <2> QED
    BY <1>0, <1>2, Recursion
<1>4. PICK f \in [0 .. w -> Paper] : f[0] = [shift |-> "ltrs", heard |-> <<>>] /\ \A k \in 1 .. w : f[k] = next[<<f[k - 1], k>>]
  BY <1>3 DEF Obeys
<1>5. \A k \in 1 .. w : f[k] = R!Receive(f[k - 1], R!Sampled(s, k))
  <2> SUFFICES ASSUME NEW k \in 1 .. w PROVE f[k] = R!Receive(f[k - 1], R!Sampled(s, k))
    OBVIOUS
  <2>1. <<f[k - 1], k>> \in Paper \X (1 .. w)
    BY <1>0, <1>4
  <2> QED
    BY <1>4, <2>1
<1>6. f = Step(f)
  BY <1>4, <1>5
<1>7. g = Step(g)
  <2> HIDE DEF Step
  <2> QED
    BY <1>6
<1> HIDE DEF g
<1>8. g[0] = [shift |-> "ltrs", heard |-> <<>>] /\ \A k \in 1 .. w : g[k] = R!Receive(g[k - 1], R!Sampled(s, k))
  BY <1>0, <1>7
<1>9. \A k \in 0 .. w : g[k] = f[k]
  <2>1. GoOn(f, g, w) /\ Begin(f, g)
    BY <1>4, <1>5, <1>8 DEF GoOn, Begin
  <2> QED
    BY <1>0, <2>1, Agreement DEF Alike
<1>10. g = f
  BY <1>4, <1>7, <1>9
<1> QED
  BY <1>1, <1>4, <1>5, <1>10

\* Tones that are added are received after the others.
LEMMA RttyHears ==
  ASSUME NEW s \in Seq(Tone), NEW n \in Nat, Len(s) = 7 * n, NEW codes \in Seq(Coding)
  PROVE  LET t == s \o R!Tones(codes)
         IN /\ t \in Seq(Tone) /\ Len(t) = 7 * (n + Len(codes))
            /\ R!Received(t)[n] = R!Received(s)[n]
            /\ \A i \in 1 .. Len(codes) :
                 R!Received(t)[n + i] = R!Receive(R!Received(t)[n + i - 1], codes[i])
<1>0. PICK m \in Nat : m = Len(codes)
  BY LenProperties
<1>1. PICK more \in Seq(Tone) : more = R!Tones(codes)
  BY TonesOf
<1>2. Len(more) = 7 * m
  BY <1>0, <1>1, TonesOf
<1>3. PICK t : t = s \o more
  OBVIOUS
<1>4. t \in Seq(Tone) /\ Len(t) = 7 * (n + m)
  <2>1. t \in Seq(Tone) /\ Len(t) = Len(s) + Len(more)
    BY <1>3, ConcatProperties
  <2>2. Len(s) + Len(more) = 7 * (n + m)
    BY <1>2
  <2> QED
    BY <2>1, <2>2
<1>5. \A k \in 1 .. Len(s) + Len(more) : t[k] = IF k <= Len(s) THEN s[k] ELSE more[k - Len(s)]
  BY <1>3, ConcatProperties
<1>6. PICK f : f = R!Received(s)
  OBVIOUS
<1>7. PICK g : g = R!Received(t)
  OBVIOUS
<1>8. f[0] = [shift |-> "ltrs", heard |-> <<>>] /\ \A k \in 1 .. n : f[k] = R!Receive(f[k - 1], R!Sampled(s, k))
  BY <1>6, RttyReceived
<1>9. /\ g[0] = [shift |-> "ltrs", heard |-> <<>>]
      /\ \A k \in 1 .. n + m : g[k] = R!Receive(g[k - 1], R!Sampled(t, k))
  <2>1. PICK w \in Nat : w = n + m
    OBVIOUS
  <2>2. Len(t) = 7 * w
    BY <1>4, <2>1
  <2> QED
    BY <1>4, <1>7, <2>1, <2>2, RttyReceived
<1>10. ASSUME NEW k \in 1 .. n PROVE R!Sampled(t, k) = R!Sampled(s, k)
  <2>1. PICK p \in Nat : p = 7 * k - 6
    OBVIOUS
  <2>2. \A b \in 1 .. 5 : p + b \in 1 .. Len(s) + Len(more) /\ p + b <= Len(s)
    BY <1>2, <2>1
  <2>3. \A b \in 1 .. 5 : t[p + b] = s[p + b]
    BY <1>5, <2>2
  <2>4. /\ R!Sampled(t, k) = t[p + 1] + 2 * t[p + 2] + 4 * t[p + 3] + 8 * t[p + 4] + 16 * t[p + 5]
        /\ R!Sampled(s, k) = s[p + 1] + 2 * s[p + 2] + 4 * s[p + 3] + 8 * s[p + 4] + 16 * s[p + 5]
    BY <2>1 DEF R!Sampled
  <2> QED
    BY <2>3, <2>4
<1>11. ASSUME NEW i \in 1 .. m PROVE R!Sampled(t, n + i) = codes[i]
  <2>1. PICK p \in Nat : p = 7 * (n + i) - 6
    OBVIOUS
  <2>2. PICK q \in Nat : q = 7 * i - 6
    OBVIOUS
  <2>3. \A b \in 1 .. 5 : /\ p + b \in 1 .. Len(s) + Len(more) /\ ~ (p + b <= Len(s))
                          /\ (p + b) - Len(s) = q + b
    BY <1>2, <2>1, <2>2
  <2>4. \A b \in 1 .. 5 : t[p + b] = more[q + b]
    BY <1>5, <2>3
  <2>5. PICK code \in Coding : code = codes[i]
    BY <1>0, ElementOfSeq
  <2>6. \A b \in 1 .. 5 : more[q + b] = R!Baudot(code)[b + 1]
    <3> SUFFICES ASSUME NEW b \in 1 .. 5 PROVE more[q + b] = R!Baudot(code)[b + 1]
      OBVIOUS
    <3>1. b + 1 \in 1 .. 7 /\ q + b = 7 * i - 7 + (b + 1)
      BY <2>2
    <3>2. R!Tones(codes)[7 * i - 7 + (b + 1)] = R!Baudot(codes[i])[b + 1]
      BY <1>0, <3>1, TonesOf
    <3> QED
      BY <1>1, <2>5, <3>1, <3>2
  <2>7. R!Sampled(t, n + i) = t[p + 1] + 2 * t[p + 2] + 4 * t[p + 3] + 8 * t[p + 4] + 16 * t[p + 5]
    BY <2>1 DEF R!Sampled
  <2>8. PICK tones : tones = R!Baudot(code)
    OBVIOUS
  <2>9. /\ t[p + 1] = tones[2] /\ t[p + 2] = tones[3] /\ t[p + 3] = tones[4]
        /\ t[p + 4] = tones[5] /\ t[p + 5] = tones[6]
    BY <2>4, <2>6, <2>8
  <2>10. tones[2] + 2 * tones[3] + 4 * tones[4] + 8 * tones[5] + 16 * tones[6] = code
    BY <2>8, BaudotSampled
  <2> QED
    BY <2>5, <2>7, <2>9, <2>10
<1>12. f[n] = g[n]
  <2>1. Begin(f, g) /\ GoOn(f, g, n)
    BY <1>8, <1>9, <1>10 DEF Begin, GoOn
  <2>2. Alike(f, g, n)
    BY <2>1, Agreement
  <2> QED
    BY <2>2 DEF Alike
<1>13. ASSUME NEW i \in 1 .. m PROVE g[n + i] = R!Receive(g[n + i - 1], codes[i])
  <2>1. n + i \in 1 .. n + m
    OBVIOUS
  <2> QED
    BY <1>9, <1>11, <2>1
<1> QED
  BY <1>0, <1>1, <1>3, <1>4, <1>6, <1>7, <1>12, <1>13

\* What the first pass counts: the shift, and the codes so far.
Tally   == Shift \X Nat
Nothing == <<"ltrs", 0>>

\* The first pass.
LEMMA RttyCounted ==
  ASSUME NEW t \in Seq(Char)
  PROVE  LET n == R!Counted(t)
         IN /\ n \in [0 .. Len(t) -> Tally] /\ n[0] = Nothing
            /\ \A k \in 1 .. Len(t) : n[k] = R!Count(n[k - 1], t[k])
<1> DEFINE Step(f) == [k \in 0 .. Len(t) |-> IF k = 0 THEN Nothing ELSE R!Count(f[k - 1], t[k])]
           next    == [p \in Tally \X (1 .. Len(t)) |-> R!Count(p[1], t[p[2]])]
           g       == CHOOSE f : f = Step(f)
<1>0. Len(t) \in Nat /\ Nothing \in Tally
  BY LenProperties DEF Tally, Shift, Nothing
<1>1. R!Counted(t) = g
  BY DEF R!Counted, Nothing
<1>2. next \in [Tally \X (1 .. Len(t)) -> Tally]
  <2>1. ASSUME NEW p \in Tally \X (1 .. Len(t)) PROVE R!Count(p[1], t[p[2]]) \in Tally
    <3>1. PICK x \in Tally : x = p[1]
      OBVIOUS
    <3>2. PICK c : c = t[p[2]]
      OBVIOUS
    <3>3. x[1] \in Shift /\ x[2] \in Nat
      BY DEF Tally
    <3>4. <<x[1], x[2] + 1>> \in Tally
      BY <3>3 DEF Tally
    <3>5. ASSUME c \in R!Encodable, R!Needs(c) \notin {"any", x[1]} PROVE <<R!Needs(c), x[2] + 2>> \in Tally
      <4>1. R!Needs(c) \in Shift
        BY <3>5 DEF R!Needs, Shift
      <4> QED
        BY <3>3, <4>1 DEF Tally
    <3> QED
      BY <3>1, <3>2, <3>4, <3>5 DEF R!Count
  <2> QED
    BY <2>1
<1>3. \E f \in [0 .. Len(t) -> Tally] : Obeys(f, Nothing, Len(t), next)
  <2> HIDE DEF next
  <2> QED
    BY <1>0, <1>2, Recursion
<1>4. PICK f \in [0 .. Len(t) -> Tally] : f[0] = Nothing /\ \A k \in 1 .. Len(t) : f[k] = next[<<f[k - 1], k>>]
  BY <1>3 DEF Obeys
<1>5. \A k \in 1 .. Len(t) : f[k] = R!Count(f[k - 1], t[k])
  <2> SUFFICES ASSUME NEW k \in 1 .. Len(t) PROVE f[k] = R!Count(f[k - 1], t[k])
    OBVIOUS
  <2>1. <<f[k - 1], k>> \in Tally \X (1 .. Len(t))
    BY <1>0, <1>4
  <2> QED
    BY <1>4, <2>1
<1>6. f = Step(f)
  BY <1>4, <1>5
<1>7. g = Step(g)
  <2> HIDE DEF Step
  <2> QED
    BY <1>6
<1> HIDE DEF g
<1>8. g[0] = Nothing /\ \A k \in 1 .. Len(t) : g[k] = R!Count(g[k - 1], t[k])
  BY <1>0, <1>7
<1>9. \A k \in 0 .. Len(t) : g[k] = f[k]
  <2>1. GoOn(f, g, Len(t)) /\ Begin(f, g)
    BY <1>4, <1>5, <1>8 DEF GoOn, Begin
  <2> QED
    BY <1>0, <2>1, Agreement DEF Alike
<1>10. g = f
  BY <1>4, <1>7, <1>9
<1> QED
  BY <1>1, <1>4, <1>5, <1>10

\* What a receiver is to print.
Printing == Seq(R!Encodable)

\* The characters of a text that can be encoded.
LEMMA RttyPrinted ==
  ASSUME NEW t \in Seq(Char)
  PROVE  LET n == R!Printed(t)
         IN /\ n \in [0 .. Len(t) -> Printing] /\ n[0] = <<>>
            /\ \A k \in 1 .. Len(t) : n[k] = R!Strike(n[k - 1], t[k])
<1> DEFINE Step(f) == [k \in 0 .. Len(t) |-> IF k = 0 THEN <<>> ELSE R!Strike(f[k - 1], t[k])]
           next    == [p \in Printing \X (1 .. Len(t)) |-> R!Strike(p[1], t[p[2]])]
           g       == CHOOSE f : f = Step(f)
<1>0. Len(t) \in Nat /\ <<>> \in Printing
  BY LenProperties DEF Printing
<1>1. R!Printed(t) = g
  BY DEF R!Printed
<1>2. next \in [Printing \X (1 .. Len(t)) -> Printing]
  <2>1. ASSUME NEW p \in Printing \X (1 .. Len(t)) PROVE R!Strike(p[1], t[p[2]]) \in Printing
    <3>1. PICK x \in Printing : x = p[1]
      OBVIOUS
    <3>2. PICK c : c = t[p[2]]
      OBVIOUS
    <3> QED
      BY <3>1, <3>2 DEF R!Strike, Printing
  <2> QED
    BY <2>1
<1>3. \E f \in [0 .. Len(t) -> Printing] : Obeys(f, <<>>, Len(t), next)
  <2> HIDE DEF next
  <2> QED
    BY <1>0, <1>2, Recursion
<1>4. PICK f \in [0 .. Len(t) -> Printing] : f[0] = <<>> /\ \A k \in 1 .. Len(t) : f[k] = next[<<f[k - 1], k>>]
  BY <1>3 DEF Obeys
<1>5. \A k \in 1 .. Len(t) : f[k] = R!Strike(f[k - 1], t[k])
  <2> SUFFICES ASSUME NEW k \in 1 .. Len(t) PROVE f[k] = R!Strike(f[k - 1], t[k])
    OBVIOUS
  <2>1. <<f[k - 1], k>> \in Printing \X (1 .. Len(t))
    BY <1>0, <1>4
  <2> QED
    BY <1>4, <2>1
<1>6. f = Step(f)
  BY <1>4, <1>5
<1>7. g = Step(g)
  <2> HIDE DEF Step
  <2> QED
    BY <1>6
<1> HIDE DEF g
<1>8. g[0] = <<>> /\ \A k \in 1 .. Len(t) : g[k] = R!Strike(g[k - 1], t[k])
  BY <1>0, <1>7
<1>9. \A k \in 0 .. Len(t) : g[k] = f[k]
  <2>1. GoOn(f, g, Len(t)) /\ Begin(f, g)
    BY <1>4, <1>5, <1>8 DEF GoOn, Begin
  <2> QED
    BY <1>0, <2>1, Agreement DEF Alike
<1>10. g = f
  BY <1>4, <1>7, <1>9
<1> QED
  BY <1>1, <1>4, <1>5, <1>10

-----------------------------------------------------------------------------
(* The invariant of the RTTY encoder *)

\* The tones s, heard in shift sh as h, and then those of the character c: the count of the
\* codes goes along, and the receiver strikes c on the paper.
StruckNext(s, sh, h, c, tally) ==
  LET step == R!Codes(sh, c)
      t    == s \o R!Tones(step[2])
      then == R!Count(tally, c)
  IN /\ step[1] \in Shift /\ t \in Seq(Tone) /\ then[2] \in Nat
     /\ then[1] = step[1] /\ Len(t) = 7 * then[2]
     /\ R!Received(t)[then[2]] = [shift |-> step[1], heard |-> R!Strike(h, c)]

\* What a receiver makes of the codes of a character.
LEMMA RttyCharacter ==
  ASSUME NEW s \in Seq(Tone), NEW n \in Nat, Len(s) = 7 * n,
         NEW sh \in Shift, NEW h \in Printing, NEW c,
         R!Received(s)[n] = [shift |-> sh, heard |-> h],
         NEW tally, tally[1] = sh, tally[2] = n
  PROVE  StruckNext(s, sh, h, c, tally)
<1>1. PICK step : step = R!Codes(sh, c)
  OBVIOUS
<1>2. PICK t : t = s \o R!Tones(step[2])
  OBVIOUS
<1>3. PICK then : then = R!Count(tally, c)
  OBVIOUS
<1> SUFFICES /\ step[1] \in Shift /\ t \in Seq(Tone) /\ then[2] \in Nat
             /\ then[1] = step[1] /\ Len(t) = 7 * then[2]
             /\ R!Received(t)[then[2]] = [shift |-> step[1], heard |-> R!Strike(h, c)]
  BY <1>1, <1>2, <1>3 DEF StruckNext
<1>4. PICK x : x = [shift |-> sh, heard |-> h]
  OBVIOUS
<1>5. x \in Paper /\ x.shift = sh /\ x.heard = h
  <2>1. R!Encodable \subseteq Glyphs
    BY DEF Glyphs
  <2>2. h \in Reading
    BY <2>1, SeqMonotonic DEF Reading, Printing
  <2> QED
    BY <1>4, <2>2 DEF Paper
<1>6. CASE c \notin R!Encodable
  <2>1. step[1] = sh /\ step[2] = <<>>
    BY <1>1, <1>6 DEF R!Codes
  <2>2. then = tally
    BY <1>3, <1>6 DEF R!Count
  <2>3. R!Strike(h, c) = h
    BY <1>6 DEF R!Strike
  <2>4. PICK codes \in Seq(Coding) : codes = <<>> /\ codes = step[2]
    <3>1. <<>> \in Seq(Coding)
      OBVIOUS
    <3> QED
      BY <2>1, <3>1, Zenon
  <2>5. t \in Seq(Tone) /\ Len(t) = 7 * (n + Len(codes)) /\ R!Received(t)[n] = x
    <3>1. t = s \o R!Tones(codes)
      BY <1>2, <2>4
    <3>2. PICK u : u = s \o R!Tones(codes)
      OBVIOUS
    <3>3. u \in Seq(Tone) /\ Len(u) = 7 * (n + Len(codes)) /\ R!Received(u)[n] = R!Received(s)[n]
      BY <3>2, RttyHears
    <3> QED
      BY <1>4, <3>1, <3>2, <3>3
  <2>6. Len(codes) = 0
    BY <2>4
  <2> QED
    BY <1>4, <2>1, <2>2, <2>3, <2>5, <2>6
<1>7. CASE c \in R!Encodable
  <2>1. PICK code \in Coding : code = R!Code(c)
    BY <1>7, RttyCode DEF Coding
  <2>2. code # R!LtrsShift /\ code # R!FigsShift
    BY <1>7, <2>1, RttyCode
  <2>3. PICK need : need = R!Needs(c)
    OBVIOUS
  <2>4. need \in {"any", "ltrs", "figs"}
    BY <2>3 DEF R!Needs
  <2>5. ASSUME NEW v \in Shift, need \in {"any", v}
        PROVE  (IF v = "ltrs" THEN R!ITA2_LTRS[code + 1] ELSE R!ITA2_FIGS[code + 1]) = c
    <3>1. CASE need = "any"
      <4>1. c \in R!AnyShift
        BY <2>3, <3>1 DEF R!Needs
      <4> QED
        BY <1>7, <2>1, <4>1, RttyCode
    <3>2. CASE need = "ltrs" /\ v = "ltrs"
      <4>1. c \in R!Letters
        BY <2>3, <3>2 DEF R!Needs
      <4> QED
        BY <1>7, <2>1, <3>2, <4>1, RttyCode
    <3>3. CASE need = "figs" /\ v = "figs"
      <4>1. c \notin R!Letters
        BY <2>3, <3>3 DEF R!Needs
      <4> QED
        BY <1>7, <2>1, <3>3, <4>1, RttyCode
    <3> QED
      BY <2>4, <2>5, <3>1, <3>2, <3>3 DEF Shift
  <2>6. ASSUME NEW y \in Paper, need \in {"any", y.shift}
        PROVE  R!Receive(y, code) = [shift |-> y.shift, heard |-> Append(y.heard, c)]
    <3>1. y.shift \in Shift
      BY DEF Paper
    <3>2. (IF y.shift = "ltrs" THEN R!ITA2_LTRS[code + 1] ELSE R!ITA2_FIGS[code + 1]) = c
      BY <2>5, <2>6, <3>1
    <3> QED
      BY <2>2, <3>2, ReceiveCode
  <2>7. R!Strike(h, c) = Append(h, c)
    BY <1>7 DEF R!Strike
  <2>8. CASE need \in {"any", sh}
    <3>1. step[1] = sh /\ step[2] = <<code>>
      BY <1>1, <1>7, <2>1, <2>3, <2>8 DEF R!Codes
    <3>2. then[1] = sh /\ then[2] = n + 1
      BY <1>3, <1>7, <2>3, <2>8 DEF R!Count
    <3>3. PICK codes \in Seq(Coding) : codes = <<code>> /\ codes = step[2]
      <4>1. <<code>> \in Seq(Coding)
        OBVIOUS
      <4> QED
        BY <3>1, <4>1, Zenon
    <3>4. Len(codes) = 1 /\ codes[1] = code
      BY <3>3
    <3>5. /\ t \in Seq(Tone) /\ Len(t) = 7 * (n + Len(codes)) /\ R!Received(t)[n] = x
          /\ \A i \in 1 .. Len(codes) : R!Received(t)[n + i] = R!Receive(R!Received(t)[n + i - 1], codes[i])
      <4>1. t = s \o R!Tones(codes)
        BY <1>2, <3>3
      <4>2. PICK u : u = s \o R!Tones(codes)
        OBVIOUS
      <4>3. /\ u \in Seq(Tone) /\ Len(u) = 7 * (n + Len(codes)) /\ R!Received(u)[n] = R!Received(s)[n]
            /\ \A i \in 1 .. Len(codes) : R!Received(u)[n + i] = R!Receive(R!Received(u)[n + i - 1], codes[i])
        BY <4>2, RttyHears
      <4> QED
        BY <1>4, <4>1, <4>2, <4>3
    <3>6. R!Received(t)[n + 1] = R!Receive(x, code)
      <4>1. 1 \in 1 .. Len(codes) /\ n + 1 - 1 = n
        BY <3>4
      <4> QED
        BY <3>4, <3>5, <4>1
    <3>7. R!Receive(x, code) = [shift |-> sh, heard |-> Append(h, c)]
      BY <1>5, <2>6, <2>8
    <3> QED
      <4>1. n + 1 \in Nat /\ Len(t) = 7 * (n + 1)
        BY <3>4, <3>5
      <4> QED
        BY <2>7, <3>1, <3>2, <3>5, <3>6, <3>7, <4>1
  <2>9. CASE need \notin {"any", sh}
    <3>1. need \in Shift
      BY <2>4, <2>9 DEF Shift
    <3>2. PICK first \in Coding : first = IF need = "ltrs" THEN R!LtrsShift ELSE R!FigsShift
      BY DEF Coding, R!LtrsShift, R!FigsShift
    <3>3. step[1] = need /\ step[2] = <<first, code>>
      BY <1>1, <1>7, <2>1, <2>3, <2>9, <3>2 DEF R!Codes
    <3>4. then[1] = need /\ then[2] = n + 2
      BY <1>3, <1>7, <2>3, <2>9 DEF R!Count
    <3>5. PICK codes \in Seq(Coding) : codes = <<first, code>> /\ codes = step[2]
      <4>1. <<first, code>> \in Seq(Coding)
        OBVIOUS
      <4> QED
        BY <3>3, <4>1, Zenon
    <3>6. Len(codes) = 2 /\ codes[1] = first /\ codes[2] = code
      BY <3>5
    <3>7. /\ t \in Seq(Tone) /\ Len(t) = 7 * (n + Len(codes)) /\ R!Received(t)[n] = x
          /\ \A i \in 1 .. Len(codes) : R!Received(t)[n + i] = R!Receive(R!Received(t)[n + i - 1], codes[i])
      <4>1. t = s \o R!Tones(codes)
        BY <1>2, <3>5
      <4>2. PICK u : u = s \o R!Tones(codes)
        OBVIOUS
      <4>3. /\ u \in Seq(Tone) /\ Len(u) = 7 * (n + Len(codes)) /\ R!Received(u)[n] = R!Received(s)[n]
            /\ \A i \in 1 .. Len(codes) : R!Received(u)[n + i] = R!Receive(R!Received(u)[n + i - 1], codes[i])
        BY <4>2, RttyHears
      <4> QED
        BY <1>4, <4>1, <4>2, <4>3
    <3>8. /\ R!Received(t)[n + 1] = R!Receive(x, first)
          /\ R!Received(t)[n + 2] = R!Receive(R!Received(t)[n + 1], code)
      <4>1. 1 \in 1 .. Len(codes) /\ n + 1 - 1 = n /\ 2 \in 1 .. Len(codes) /\ n + 2 - 1 = n + 1
        BY <3>6
      <4> QED
        BY <3>6, <3>7, <4>1
    <3>9. R!Receive(x, first) = [shift |-> need, heard |-> h]
      <4>1. CASE need = "ltrs"
        BY <1>5, <3>2, <4>1, ReceiveCode
      <4>2. CASE need = "figs"
        BY <1>5, <3>2, <4>2, ReceiveCode
      <4> QED
        BY <3>1, <4>1, <4>2 DEF Shift
    <3>10. PICK y : y = [shift |-> need, heard |-> h]
      OBVIOUS
    <3>11. y \in Paper /\ y.shift = need /\ y.heard = h
      BY <1>5, <3>1, <3>10 DEF Paper
    <3>12. R!Receive(y, code) = [shift |-> need, heard |-> Append(h, c)]
      BY <2>6, <3>11
    <3>13. R!Received(t)[n + 2] = [shift |-> need, heard |-> Append(h, c)]
      BY <3>8, <3>9, <3>10, <3>12
    <3> QED
      <4>1. n + 2 \in Nat /\ Len(t) = 7 * (n + 2)
        BY <3>6, <3>7
      <4> QED
        BY <2>7, <3>1, <3>3, <3>4, <3>7, <3>13, <4>1
  <2> QED
    BY <2>8, <2>9
<1> QED
  BY <1>6, <1>7

RttyTyped ==
  /\ text \in RttyTexts
  /\ capacity \in Nat /\ capacity % 7 = 0 /\ result \in {"running", "ok", "no_memory"}
  /\ shift \in Shift /\ symbols \in Seq(Tone) /\ Len(symbols) % 7 = 0

\* The encoder is in step with the text: its shift and what it has filled of the array
\* are what the first pass has followed and counted up to here, and what a receiver
\* makes of its tones is what the text says.
RttyAt(j) ==
  /\ j \in 0 .. Len(text) /\ todo = SubSeq(text, j + 1, Len(text))
  /\ result # "no_memory" =>
       LET tally == R!Counted(text)[j]
       IN /\ capacity = 7 * R!Counted(text)[Len(text)][2]
          /\ shift = tally[1] /\ Len(symbols) = 7 * tally[2]
          /\ R!Received(symbols)[tally[2]] = [shift |-> shift, heard |-> R!Printed(text)[j]]

RttyInv ==
  mode = "rtty" =>
    /\ RttyTyped
    /\ \E j \in 0 .. Len(text) : RttyAt(j)
    /\ result = "no_memory" => symbols = <<>>
    /\ result = "ok" => todo = <<>>

\* What is counted of a text.
LEMMA TallyTyped ==
  ASSUME NEW t \in Seq(Char), NEW j \in 0 .. Len(t)
  PROVE  /\ R!Counted(t)[j][1] \in Shift /\ R!Counted(t)[j][2] \in Nat
         /\ R!Printed(t)[j] \in Printing
<1>1. R!Counted(t)[j] \in Tally
  BY RttyCounted
<1>2. R!Printed(t)[j] \in Printing
  BY RttyPrinted
<1> QED
  BY <1>1, <1>2 DEF Tally

\* The invariant of RTTY holds at first, before the first character,
LEMMA RttyBegins == Init => RttyInv
<1> SUFFICES ASSUME Init, mode = "rtty"
             PROVE  /\ RttyTyped /\ RttyAt(0) /\ 0 \in 0 .. Len(text)
                    /\ result = "no_memory" => symbols = <<>>
                    /\ result = "ok" => todo = <<>>
  BY DEF RttyInv
<1>1. R!Init
  BY DEF Init
<1>2. text \in Seq(Char) /\ text \in RttyTexts
  BY <1>1, TextIsString DEF R!Init
<1>3. 0 \in 0 .. Len(text) /\ Len(text) \in 0 .. Len(text) /\ SubSeq(text, 0 + 1, Len(text)) = text
  BY <1>2, LenProperties
<1>4. PICK most \in Nat : most = R!Counted(text)[Len(text)][2]
  BY <1>2, <1>3, TallyTyped
<1>5. PICK tally : tally = R!Counted(text)[0]
  OBVIOUS
<1>6. tally[1] = "ltrs" /\ tally[2] = 0
  BY <1>2, <1>5, RttyCounted DEF Nothing
<1>7. R!Printed(text)[0] = <<>>
  BY <1>2, RttyPrinted
<1>8. /\ symbols = <<>> /\ todo = text /\ shift = "ltrs"
      /\ \/ capacity = 7 * most /\ result = "running"
         \/ capacity = 0 /\ result = "no_memory"
  BY <1>1, <1>4 DEF R!Init, R!Required
<1>9. symbols \in Seq(Tone) /\ Len(symbols) = 0
  BY <1>8
<1>10. RttyTyped
  BY <1>2, <1>8, <1>9 DEF RttyTyped, Shift
<1>11. R!Received(symbols)[0] = [shift |-> "ltrs", heard |-> <<>>]
  <2>1. PICK w \in Nat : w = 0
    OBVIOUS
  <2>2. Len(symbols) = 7 * w
    BY <1>9, <2>1
  <2> QED
    BY <1>9, <2>2, RttyReceived
<1>12. RttyAt(0)
  BY <1>3, <1>4, <1>5, <1>6, <1>7, <1>8, <1>9, <1>11 DEF RttyAt
<1> QED
  BY <1>3, <1>8, <1>10, <1>12

\* and after every character, as RttyCharacter has it.
LEMMA RttyGoesOn == RttyInv /\ [Next]_vars => RttyInv'
<1> SUFFICES ASSUME RttyInv, [Next]_vars, mode' = "rtty"
             PROVE  /\ RttyTyped'
                    /\ \E j \in 0 .. Len(text') : RttyAt(j)'
                    /\ result' = "no_memory" => symbols' = <<>>
                    /\ result' = "ok" => todo' = <<>>
  BY DEF RttyInv
<1>0. mode = "rtty" /\ (R!Next \/ UNCHANGED vars)
  BY DEF Next, CwStep, RttyStep, WsprStep, FtxStep, vars
<1>1. /\ RttyTyped
      /\ \E j \in 0 .. Len(text) : RttyAt(j)
      /\ result = "no_memory" => symbols = <<>>
      /\ result = "ok" => todo = <<>>
  BY <1>0 DEF RttyInv
<1>2. PICK j \in 0 .. Len(text) : RttyAt(j)
  BY <1>1
<1>3. text \in Seq(Char) /\ j \in Nat /\ Len(text) \in Nat
  BY <1>1, <1>2, TextIsString, LenProperties DEF RttyTyped
<1>4. CASE R!Encode
  <2>1. /\ result = "running" /\ todo # <<>> /\ todo' = Tail(todo)
        /\ text' = text /\ capacity' = capacity /\ result' = result
    BY <1>4 DEF R!Encode
  <2>2. todo = SubSeq(text, j + 1, Len(text))
    BY <1>2 DEF RttyAt
  <2>3. PICK c : c = Head(todo)
    OBVIOUS
  <2>4. j + 1 \in 1 .. Len(text) /\ c = text[j + 1] /\ todo' = SubSeq(text, (j + 1) + 1, Len(text))
    BY <1>3, <2>1, <2>2, <2>3, TextStep
  <2>5. PICK tally : tally = R!Counted(text)[j]
    OBVIOUS
  <2>6. PICK h \in Printing : h = R!Printed(text)[j]
    BY <1>3, TallyTyped
  <2>7. tally[1] \in Shift /\ tally[2] \in Nat
    BY <1>3, <2>5, TallyTyped
  <2>8. PICK n \in Nat : n = tally[2]
    BY <2>7
  <2>9. /\ capacity = 7 * R!Counted(text)[Len(text)][2]
        /\ shift = tally[1] /\ Len(symbols) = 7 * n
        /\ R!Received(symbols)[n] = [shift |-> shift, heard |-> h]
    BY <1>2, <2>1, <2>5, <2>6, <2>8 DEF RttyAt
  <2>10. PICK step : step = R!Codes(shift, c)
    OBVIOUS
  <2>11. shift' = step[1] /\ symbols' = symbols \o R!Tones(step[2])
    BY <1>4, <2>3, <2>10 DEF R!Encode
  <2>12. PICK then : then = R!Count(tally, c)
    OBVIOUS
  <2>13. symbols \in Seq(Tone) /\ shift \in Shift
    BY <1>1 DEF RttyTyped
  <2>14. /\ step[1] \in Shift /\ symbols' \in Seq(Tone) /\ then[2] \in Nat
         /\ then[1] = step[1] /\ Len(symbols') = 7 * then[2]
         /\ R!Received(symbols')[then[2]] = [shift |-> step[1], heard |-> R!Strike(h, c)]
    <3>1. StruckNext(symbols, shift, h, c, tally)
      <4>1. tally[1] = shift /\ tally[2] = n
        BY <2>8, <2>9
      <4> QED
        BY <2>6, <2>8, <2>9, <2>13, <4>1, RttyCharacter
    <3> QED
      BY <2>10, <2>11, <2>12, <3>1 DEF StruckNext
  <2>15. then = R!Counted(text)[j + 1] /\ R!Strike(h, c) = R!Printed(text)[j + 1]
    <3>1. (j + 1) - 1 = j
      BY <1>3
    <3>2. R!Counted(text)[j + 1] = R!Count(R!Counted(text)[(j + 1) - 1], text[j + 1])
      BY <1>3, <2>4, RttyCounted
    <3>3. R!Printed(text)[j + 1] = R!Strike(R!Printed(text)[(j + 1) - 1], text[j + 1])
      BY <1>3, <2>4, RttyPrinted
    <3> QED
      BY <2>4, <2>5, <2>6, <2>12, <3>1, <3>2, <3>3
  <2>16. j + 1 \in 0 .. Len(text')
    <3>1. j + 1 \in 0 .. Len(text)
      BY <1>3, <2>4
    <3> QED
      BY <2>1, <3>1
  <2>17. RttyAt(j + 1)'
    <3>1. todo' = SubSeq(text', (j + 1) + 1, Len(text'))
      BY <2>1, <2>4
    <3>2. /\ capacity' = 7 * R!Counted(text')[Len(text')][2]
          /\ shift' = R!Counted(text')[j + 1][1]
          /\ Len(symbols') = 7 * R!Counted(text')[j + 1][2]
      BY <2>1, <2>9, <2>11, <2>14, <2>15
    <3>3. R!Received(symbols')[R!Counted(text')[j + 1][2]]
            = [shift |-> shift', heard |-> R!Printed(text')[j + 1]]
      BY <2>1, <2>11, <2>14, <2>15
    <3> QED
      BY <2>16, <3>1, <3>2, <3>3 DEF RttyAt
  <2>18. RttyTyped'
    <3>1. Len(symbols') % 7 = 0
      BY <2>14
    <3> QED
      BY <1>1, <2>1, <2>11, <2>14, <3>1 DEF RttyTyped
  <2> QED
    BY <2>1, <2>16, <2>17, <2>18
<1>5. CASE R!Return
  <2>1. /\ result = "running" /\ todo = <<>> /\ result' = "ok"
        /\ UNCHANGED <<text, todo, capacity, shift, symbols>>
    BY <1>5 DEF R!Return
  <2>2. RttyAt(j)'
    BY <1>2, <2>1 DEF RttyAt
  <2> QED
    BY <1>1, <2>1, <2>2 DEF RttyTyped
<1>6. CASE UNCHANGED vars
  BY <1>1, <1>2, <1>6 DEF vars, RttyTyped, RttyAt
<1> QED
  BY <1>0, <1>4, <1>5, <1>6 DEF R!Next

\* The invariant shows what is promised of RTTY.
LEMMA RttyShows == RttyInv => RttyFills /\ RttyReadable
<1> SUFFICES ASSUME RttyInv, mode = "rtty"
             PROVE  R!TypeOK /\ R!FillsTheArray /\ R!Readable
  BY DEF RttyFills, RttyReadable
<1>1. /\ RttyTyped
      /\ result = "no_memory" => symbols = <<>>
      /\ result = "ok" => todo = <<>>
  BY DEF RttyInv
<1>2. PICK j \in 0 .. Len(text) : RttyAt(j)
  BY DEF RttyInv
<1>3. /\ text \in Seq(Char) /\ capacity \in Nat /\ symbols \in Seq(Tone)
      /\ result \in {"running", "ok", "no_memory"} /\ Len(text) \in Nat /\ j \in Nat
  BY <1>1, <1>2, TextIsString, LenProperties DEF RttyTyped
<1>4. todo = SubSeq(text, j + 1, Len(text)) /\ Len(todo) = Len(text) - j
  BY <1>2, <1>3, TextStep DEF RttyAt
<1>5. R!TypeOK
  BY <1>1, <1>4 DEF R!TypeOK, RttyTyped, Shift, Tone
<1>6. PICK f \in [0 .. Len(text) -> Nat] : \A k \in 0 .. Len(text) : f[k] = R!Counted(text)[k][2]
  <2>1. [k \in 0 .. Len(text) |-> R!Counted(text)[k][2]] \in [0 .. Len(text) -> Nat]
    BY <1>3, TallyTyped
  <2> QED
    BY <2>1
<1>7. ASSUME result # "no_memory"
      PROVE  /\ capacity = 7 * f[Len(text)] /\ Len(symbols) = 7 * f[j]
             /\ shift = R!Counted(text)[j][1]
             /\ R!Received(symbols)[f[j]] = [shift |-> shift, heard |-> R!Printed(text)[j]]
  <2>1. Len(text) \in 0 .. Len(text)
    BY <1>3
  <2> QED
    BY <1>2, <1>6, <1>7, <2>1 DEF RttyAt
<1>8. f[j] \in Nat /\ f[Len(text)] \in Nat
  BY <1>3, <1>6
<1>9. R!FillsTheArray
  <2>1. CASE result = "no_memory"
    BY <1>1, <1>3, <2>1 DEF R!FillsTheArray
  <2>2. CASE result # "no_memory"
    <3>1. \A k \in 1 .. Len(text) : f[k - 1] <= f[k]
      <4> SUFFICES ASSUME NEW k \in 1 .. Len(text) PROVE f[k - 1] <= f[k]
        OBVIOUS
      <4>1. k - 1 \in 0 .. Len(text) /\ k \in 0 .. Len(text)
        BY <1>3
      <4>2. PICK tally : tally = R!Counted(text)[k - 1]
        OBVIOUS
      <4>3. R!Counted(text)[k] = R!Count(tally, text[k])
        BY <1>3, <4>2, RttyCounted
      <4>4. tally[2] \in Nat
        BY <1>3, <4>1, <4>2, TallyTyped
      <4>5. R!Count(tally, text[k])[2] \in {tally[2], tally[2] + 1, tally[2] + 2}
        BY <4>4 DEF R!Count
      <4>6. f[k - 1] = tally[2] /\ f[k] = R!Count(tally, text[k])[2]
        BY <1>6, <4>1, <4>2, <4>3
      <4> QED
        BY <4>4, <4>5, <4>6
    <3>2. f[j] <= f[Len(text)]
      BY <1>3, <1>6, <3>1, Growing
    <3>3. result = "ok" => j = Len(text)
      <4>1. ASSUME todo = <<>> PROVE Len(todo) = 0
        BY <4>1
      <4> QED
        BY <1>1, <1>3, <1>4, <4>1
    <3> QED
      <4>1. PICK a \in Nat : a = f[j]
        BY <1>8
      <4>2. PICK b \in Nat : b = f[Len(text)]
        BY <1>8
      <4>3. a <= b /\ 7 * a <= 7 * b /\ (result = "ok" => 7 * a = 7 * b)
        BY <3>2, <3>3, <4>1, <4>2
      <4> QED
        BY <1>7, <2>2, <4>1, <4>2, <4>3 DEF R!FillsTheArray
  <2> QED
    BY <2>1, <2>2
<1>10. R!Readable
  <2> SUFFICES ASSUME result # "no_memory"
               PROVE  LET state == R!Received(symbols)[Len(symbols) \div 7]
                      IN state.heard = R!Printed(text)[Len(text) - Len(todo)] /\ state.shift = shift
    BY DEF R!Readable
  <2>1. Len(symbols) \div 7 = f[j] /\ Len(text) - Len(todo) = j
    <3>1. PICK a \in Nat : a = f[j]
      BY <1>8
    <3>2. Len(symbols) = 7 * a
      BY <1>7, <3>1
    <3>3. Len(symbols) \div 7 = a
      BY <3>2
    <3> QED
      BY <1>3, <1>4, <3>1, <3>3
  <2>2. PICK state : state = R!Received(symbols)[f[j]]
    OBVIOUS
  <2>3. state = [shift |-> shift, heard |-> R!Printed(text)[j]]
    BY <1>7, <2>2
  <2>4. state.heard = R!Printed(text)[j] /\ state.shift = shift
    BY <2>3
  <2> QED
    BY <2>1, <2>2, <2>4
<1> QED
  BY <1>5, <1>9, <1>10

\* However the encoder is called, it is in step with the text.
LEMMA RttyInvariant == Spec => []RttyInv
  BY RttyBegins, RttyGoesOn, PTL DEF Spec

\* RTTY, for every text: the shift that the second pass of generate_rtty_sequence
\* (src/modes/encoders/rtty.c) follows is the one the first pass has counted with, so the
\* array is filled, and no tone is written past it.
THEOREM RttyFillsCorrect == Spec => []RttyFills
  BY RttyInvariant, RttyShows, PTL

\* RTTY, for every text: a receiver that follows the shifts prints what can be encoded of
\* the text, in order, and is in the encoder's shift.
THEOREM RttyReadableCorrect == Spec => []RttyReadable
  BY RttyInvariant, RttyShows, PTL
=================================================================================
