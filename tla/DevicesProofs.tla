------------------------------ MODULE DevicesProofs ------------------------------
(***************************************************************************)
(* Proofs about Devices, for every crystal, every band of the PLLs, every   *)
(* denominator that fits its register, every bus, all requests, times,      *)
(* frequencies and lengths of signals: that an output of the clock          *)
(* generator runs at what was last asked for, that a refused command        *)
(* changes nothing, that a get returns what the device was told, and that a *)
(* test signal is the one asked for.                                        *)
(*                                                                         *)
(* The clock's part is division: a PLL and a divider are each cut off       *)
(* twice, in the fraction and in the frequency that is remembered.          *)
(*                                                                         *)
(* The part of the settings begins with numbers in bytes: that a cursor     *)
(* reads what a writer has written, a time, eight bytes of a frequency, and *)
(* four bytes that are multiplied by a thousand.  An invariant follows:     *)
(* while a call is on its way, its packet stands for it, and then its reply *)
(* does, and the device has what the host was told, but for the set whose   *)
(* reply is on its way.                                                     *)
(***************************************************************************)
EXTENDS Devices, SequenceTheorems, TLAPS

-----------------------------------------------------------------------------
(* Division and the chip's registers *)

\* What \div and % give, as multiples.
LEMMA Quotient ==
  ASSUME NEW n \in Nat, NEW d \in Nat \ {0}
  PROVE  /\ n \div d \in Nat /\ n % d \in Nat
         /\ n = d * (n \div d) + (n % d) /\ n % d < d
  OBVIOUS

\* A number that is below a multiple of the divisor has a quotient below it.
LEMMA QuotientBelow ==
  ASSUME NEW n \in Nat, NEW d \in Nat \ {0}, NEW k \in Nat, n < k * d
  PROVE  n \div d < k
<1> DEFINE q == n \div d
<1>1. q \in Nat /\ q * d <= n
  <2>1. q \in Nat /\ n = d * q + (n % d) /\ n % d \in Nat
    BY Quotient
  <2> QED
    BY <2>1
<1>2. CASE q >= k
  <2>1. PICK e \in Nat : q = k + e
    <3>1. q - k \in Nat
      BY <1>1, <1>2
    <3> QED
      BY <3>1, <1>1
  <2>2. q * d = k * d + e * d /\ e * d \in Nat
    BY <2>1
  <2> QED
    BY <1>1, <2>2
<1> QED
  BY <1>1, <1>2

\* What the registers of a PLL or a divider hold can be set to.
RegisterSet == [p1 : Nat, p2 : Nat, p3 : Nat]

\* Nothing of a ratio a + b/c is lost in the registers, when a is one that the
\* driver accepts and c fits in 20 bits: p1, p2 and p3 stand for (a * c + b) / c.
Hold(a, b, c) ==
  /\ K!Registers(a, b, c) \in RegisterSet
  /\ K!Registers(a, b, c).p3 = c
  /\ K!Ratio(K!Registers(a, b, c)) = 128 * (a * c + b)

LEMMA RegistersHold ==
  ASSUME NEW a \in Nat, NEW b \in Nat, NEW c \in Nat, 4 <= a, a <= 1800, b < c, c < 2 ^ 20
  PROVE  Hold(a, b, c)
<1> DEFINE q == (128 * b) \div c
           p1 == 128 * a + q - 512
           p2 == 128 * b - c * q
<1>0. c \in Nat \ {0} /\ 128 * b \in Nat /\ 128 * b < 128 * c
  OBVIOUS
<1>1. q \in Nat /\ q < 128
  BY <1>0, Quotient, QuotientBelow
<1>2. p2 \in Nat /\ p2 < c
  <2>1. 128 * b = c * q + ((128 * b) % c) /\ (128 * b) % c \in Nat /\ (128 * b) % c < c
    BY <1>0, Quotient
  <2>2. c * q \in Nat
    BY <1>0, <1>1
  <2> QED
    BY <2>1, <2>2
<1>3. p1 \in Nat /\ p1 < 2 ^ 18
  BY <1>1
<1>4. p1 % 2 ^ 18 = p1 /\ p2 % 2 ^ 20 = p2 /\ c % 2 ^ 20 = c
  <2>1. ASSUME NEW n \in Nat, n < 2 ^ 18 PROVE n % 2 ^ 18 = n
    BY <2>1
  <2>2. ASSUME NEW n \in Nat, n < 2 ^ 20 PROVE n % 2 ^ 20 = n
    BY <2>2
  <2>3. p2 < 2 ^ 20 /\ c < 2 ^ 20
    BY <1>2
  <2> HIDE DEF p1, p2
  <2> QED
    BY <2>1, <2>2, <2>3, <1>2, <1>3, <1>0
<1>5. K!Registers(a, b, c) = [p1 |-> p1, p2 |-> p2, p3 |-> c]
  <2>1. K!Registers(a, b, c) = [p1 |-> p1 % 2 ^ 18, p2 |-> p2 % 2 ^ 20, p3 |-> c % 2 ^ 20]
    BY DEF K!Registers
  <2> HIDE DEF p1, p2
  <2> QED
    BY <2>1, <1>4
<1>6. K!Ratio([p1 |-> p1, p2 |-> p2, p3 |-> c]) = (p1 + 512) * c + p2
  BY DEF K!Ratio
<1>7. (p1 + 512) * c + p2 = 128 * (a * c + b)
  <2>1. (128 * a + q) * c = 128 * (a * c) + c * q
    BY <1>0, <1>1
  <2>2. p1 + 512 = 128 * a + q
    BY <1>1
  <2>3. c * q \in Nat /\ a * c \in Nat
    BY <1>0, <1>1
  <2> QED
    BY <2>1, <2>2, <2>3
<1> QED
  BY <1>0, <1>2, <1>3, <1>5, <1>6, <1>7 DEF RegisterSet, Hold
-----------------------------------------------------------------------------
(* The PLLs *)

\* A PLL with these registers runs at k, less than two units more at most.
Runs(k, r) ==
  /\ 128 * r.p3 * k <= Xtal * K!Ratio(r)
  /\ 128 * r.p3 * (k + 2) > Xtal * K!Ratio(r)

\* What si5351a_set_pll remembers of a + b/c is what it writes, rounding of the
\* floating point computation included, and not above what a + b/c is below.
LEMMA PllSet ==
  ASSUME NEW a \in 15 .. 90, NEW c \in 1 .. 2 ^ 20 - 1, NEW b \in Nat, b < c,
         NEW f \in Nat, Xtal * (a * c + b) <= f * c,
         NEW k \in K!Stored(a, b, c)
  PROVE  k \in Nat /\ k <= f /\ Runs(k, K!Registers(a, b, c))
<1> DEFINE n == Xtal * (a * c + b)
           exact == n \div c
<1>1. c \in Nat \ {0} /\ Xtal \in Nat \ {0} /\ a * c + b \in Nat /\ a * c + b >= c
  <2>1. a * c >= c
    <3>1. PICK e \in Nat : a = e + 1
      <4>1. a - 1 \in Nat
        OBVIOUS
      <4> QED
        BY <4>1
    <3>2. a * c = e * c + c /\ e * c \in Nat
      BY <3>1
    <3> QED
      BY <3>2
  <2> QED
    BY <2>1, ClockAssumption
<1>2. n \in Nat /\ n >= c
  <2> DEFINE g == a * c + b
  <2>1. PICK e \in Nat : Xtal = e + 1
    <3>1. Xtal - 1 \in Nat
      BY <1>1
    <3> QED
      BY <3>1, <1>1
  <2>2. g \in Nat /\ g >= c
    BY <1>1
  <2> HIDE DEF g
  <2>3. Xtal * g = e * g + g /\ e * g \in Nat
    BY <2>1, <2>2
  <2> QED
    BY <2>2, <2>3 DEF g
<1>3. exact \in Nat /\ c * exact <= n /\ n < c * exact + c
  <2> HIDE DEF n
  <2>1. n = c * (n \div c) + (n % c) /\ n % c < c /\ n \div c \in Nat /\ n % c \in Nat
    BY <1>1, <1>2, Quotient
  <2> QED
    BY <2>1, <1>1
<1>4. k = exact \/ k = exact - 1
  BY DEF K!Stored
<1>5. exact >= 1
  <2> HIDE DEF n, exact
  <2>1. CASE exact = 0
    BY <1>1, <1>2, <1>3, <2>1
  <2> QED
    BY <2>1, <1>3
<1>6. k \in Nat /\ c * k <= n /\ n < c * (k + 2)
  <2> HIDE DEF n, exact
  <2>0. ASSUME NEW i \in Nat PROVE c * (i + 1) = c * i + c /\ c * (i + 2) = c * i + c + c
    BY <1>1
  <2>1. CASE k = exact
    <3>1. c * (k + 2) = c * k + c + c
      BY <2>0, <2>1, <1>3
    <3> QED
      BY <3>1, <2>1, <1>1, <1>2, <1>3
  <2>2. CASE k = exact - 1
    <3>1. k \in Nat /\ exact = k + 1
      BY <2>2, <1>3, <1>5
    <3>2. c * exact = c * k + c /\ c * (k + 2) = c * k + c + c
      BY <3>1, <2>0
    <3>3. c * k \in Nat
      BY <3>1, <1>1
    <3> QED
      BY <3>1, <3>2, <3>3, <1>1, <1>2, <1>3
  <2> QED
    BY <2>1, <2>2, <1>4
<1>7. k <= f
  <2>1. c * k <= f * c
    BY <1>1, <1>2, <1>6
  <2>2. CASE k > f
    <3>1. PICK e \in Nat : k = f + 1 + e
      <4>1. k - f - 1 \in Nat
        BY <2>2, <1>6
      <4> QED
        BY <4>1, <1>6
    <3>2. c * k = f * c + c + e * c /\ e * c \in Nat /\ f * c \in Nat
      BY <3>1, <1>1
    <3> QED
      BY <3>2, <2>1, <1>1
  <2> QED
    BY <2>2, <1>6
<1>8. Runs(k, K!Registers(a, b, c))
  <2> DEFINE r == K!Registers(a, b, c)
  <2>1. r.p3 = c /\ K!Ratio(r) = 128 * (a * c + b)
      <3>1. a \in Nat /\ 4 <= a /\ a <= 1800 /\ c \in Nat /\ c < 2 ^ 20
      OBVIOUS
    <3>2. Hold(a, b, c)
      BY <3>1, RegistersHold
    <3> QED
      BY <3>2 DEF Hold
  <2>2. Xtal * (128 * (a * c + b)) = 128 * n
    BY <1>1
  <2>3. 128 * c * k <= 128 * n /\ 128 * c * (k + 2) > 128 * n
    <3> HIDE DEF n
    <3>1. c * k \in Nat /\ c * (k + 2) \in Nat
      BY <1>1, <1>6
    <3>2. 128 * c * k = 128 * (c * k) /\ 128 * c * (k + 2) = 128 * (c * (k + 2))
      BY <1>1, <1>6
    <3> QED
      BY <3>1, <3>2, <1>2, <1>6
  <2> HIDE DEF r, n
  <2> QED
    BY <2>1, <2>2, <2>3 DEF Runs, r
<1> QED
  BY <1>6, <1>7, <1>8

\* The fraction that si5351a_set_pll_freq computes is one, and is not above the
\* frequency it was asked for.
LEMMA PllFraction ==
  ASSUME NEW freq \in Nat, NEW c \in Nat \ {0}
  PROVE  LET a == freq \div Xtal
             b == ((freq % Xtal) * c) \div Xtal
         IN a \in Nat /\ b \in Nat /\ b < c /\ Xtal * (a * c + b) <= freq * c
<1> DEFINE a == freq \div Xtal
           rest == freq % Xtal
           b == (rest * c) \div Xtal
<1>1. Xtal \in Nat \ {0}
  BY ClockAssumption
<1>2. a \in Nat /\ rest \in Nat /\ freq = Xtal * a + rest /\ rest < Xtal
  BY <1>1, Quotient
<1> HIDE DEF a, rest
<1>3. rest * c \in Nat /\ rest * c < c * Xtal
  <2>1. PICK e \in Nat : Xtal = rest + 1 + e
    <3>1. Xtal - rest - 1 \in Nat
      BY <1>1, <1>2
    <3> QED
      BY <3>1, <1>1, <1>2
  <2>2. c * Xtal = rest * c + c + e * c /\ e * c \in Nat
    BY <2>1, <1>2
  <2> QED
    BY <2>2, <1>2
<1>4. b \in Nat /\ b < c
  <2> DEFINE m == rest * c
  <2>1. m \in Nat /\ m < c * Xtal
    BY <1>3
  <2> HIDE DEF m
  <2>2. m \div Xtal \in Nat /\ m \div Xtal < c
    BY <2>1, <1>1, Quotient, QuotientBelow
  <2> QED
    BY <2>2 DEF m
<1>5. Xtal * b <= rest * c
  <2> DEFINE m == rest * c
  <2>1. m = Xtal * (m \div Xtal) + (m % Xtal) /\ m % Xtal \in Nat /\ m \div Xtal \in Nat
    BY <1>1, <1>3, Quotient
  <2> HIDE DEF m
  <2>2. Xtal * (m \div Xtal) <= m
    BY <2>1, <1>1
  <2> QED
    BY <2>2 DEF m
<1> HIDE DEF b
<1>6. Xtal * (a * c + b) = (Xtal * a) * c + Xtal * b
  BY <1>1, <1>2, <1>4
<1>7. freq * c = (Xtal * a) * c + rest * c
  BY <1>1, <1>2
<1>8. (Xtal * a) * c \in Nat /\ Xtal * b \in Nat
  BY <1>1, <1>2, <1>4
<1>9. Xtal * (a * c + b) <= freq * c
  BY <1>3, <1>5, <1>6, <1>7, <1>8
<1> QED
  BY <1>2, <1>4, <1>9 DEF a, b, rest
-----------------------------------------------------------------------------
(* The dividers *)

\* The divider that si5351a_set_ms_freq computes from a PLL at v is d / freq, cut off
\* to a step.
LEMMA DividerFraction ==
  ASSUME NEW d \in Nat, NEW freq \in Nat \ {0}, NEW c \in Nat \ {0}
  PROVE  LET a == d \div freq
             b == ((d % freq) * c) \div freq
         IN /\ a \in Nat /\ b \in Nat /\ b < c
            /\ freq * (a * c + b) <= d * c /\ d * c < freq * (a * c + b + 1)
<1> DEFINE a == d \div freq
           rest == d % freq
           b == (rest * c) \div freq
<1>1. a \in Nat /\ rest \in Nat /\ d = freq * a + rest /\ rest < freq
  BY Quotient
<1> HIDE DEF a, rest
<1>2. rest * c \in Nat /\ rest * c < c * freq
  <2>1. PICK e \in Nat : freq = rest + 1 + e
    <3>1. freq - rest - 1 \in Nat
      BY <1>1
    <3> QED
      BY <3>1, <1>1
  <2>2. c * freq = rest * c + c + e * c /\ e * c \in Nat
    BY <2>1, <1>1
  <2> QED
    BY <2>2, <1>1
<1>3. b \in Nat /\ b < c /\ freq * b <= rest * c /\ rest * c < freq * b + freq
  <2> DEFINE m == rest * c
  <2>1. m \in Nat /\ m < c * freq
    BY <1>2
  <2> HIDE DEF m
  <2>2. m \div freq \in Nat /\ m \div freq < c
    BY <2>1, Quotient, QuotientBelow
  <2>3. m = freq * (m \div freq) + (m % freq) /\ m % freq \in Nat /\ m % freq < freq
    BY <2>1, Quotient
  <2>4. freq * (m \div freq) \in Nat
    BY <2>2
  <2>5. freq * (m \div freq) <= m /\ m < freq * (m \div freq) + freq
    BY <2>1, <2>3, <2>4
  <2> QED
    BY <2>2, <2>5 DEF m
<1> HIDE DEF b
<1>4. freq * (a * c + b) = (freq * a) * c + freq * b
  BY <1>1, <1>3
<1>5. freq * (a * c + b + 1) = (freq * a) * c + freq * b + freq
  BY <1>1, <1>3
<1>6. d * c = (freq * a) * c + rest * c
  BY <1>1
<1>7. (freq * a) * c \in Nat /\ freq * b \in Nat
  BY <1>1, <1>3
<1>8. freq * (a * c + b) <= d * c /\ d * c < freq * (a * c + b + 1)
  BY <1>2, <1>3, <1>4, <1>5, <1>6, <1>7
<1> QED
  BY <1>1, <1>3, <1>8 DEF a, b, rest

\* A divider divides by a whole number exactly when its fraction is 0.
LEMMA WholeNumber ==
  ASSUME NEW a \in Nat, NEW b \in Nat, NEW c \in Nat, b < c
  PROVE  (b = 0) = ((128 * (a * c + b)) % (128 * c) = 0)
<1> DEFINE n == 128 * (a * c + b)
           d == 128 * c
           q == n \div d
<1>1. n \in Nat /\ d \in Nat \ {0}
  <2>1. a * c \in Nat
    OBVIOUS
  <2> QED
    BY <2>1
<1>2. n = a * d + 128 * b
  OBVIOUS
<1>3. CASE b = 0
  <2> HIDE DEF n, d
  <2>1. n = d * a
    BY <1>1, <1>2, <1>3
  <2>2. (d * a) % d = 0
    BY <1>1
  <2>3. n % d = 0
    BY <2>1, <2>2
  <2> QED
    BY <1>3, <2>3 DEF n, d
<1>4. CASE b # 0
  <2>1. 128 * b > 0 /\ 128 * b < d /\ 128 * b \in Nat
    BY <1>4
  <2>2. q \in Nat /\ n = d * q + (n % d)
    <3> HIDE DEF n, d
    <3> QED
      BY <1>1, Quotient
  <2> HIDE DEF n, d, q
  <2>3. ASSUME n % d = 0 PROVE FALSE
    <3>1. d * q = a * d + 128 * b
      BY <1>1, <1>2, <2>2, <2>3
    <3>2. CASE q <= a
      <4>1. PICK e \in Nat : a = q + e
        <5>1. a - q \in Nat
          BY <3>2, <2>2
        <5> QED
          BY <5>1, <2>2
      <4>2. a * d = d * q + e * d /\ e * d \in Nat /\ d * q \in Nat
        BY <4>1, <1>1, <2>2
      <4> QED
        BY <4>2, <3>1, <2>1
    <3>3. CASE q > a
      <4>1. PICK e \in Nat : q = a + 1 + e
        <5>1. q - a - 1 \in Nat
          BY <3>3, <2>2
        <5> QED
          BY <5>1, <2>2
      <4>2. d * q = a * d + d + e * d /\ e * d \in Nat /\ a * d \in Nat
        BY <4>1, <1>1
      <4> QED
        BY <4>2, <3>1, <2>1, <1>1
    <3> QED
      BY <3>2, <3>3, <2>2
  <2>4. n % d # 0
    BY <2>3
  <2> QED
    BY <1>4, <2>4 DEF n, d
<1> QED
  BY <1>3, <1>4

\* The two bounds of OutputAsAsked, for a PLL that runs at v and a divider that is
\* cut off to a step: in the numbers alone.
LEMMA Bounds ==
  ASSUME NEW v \in Nat, NEW u \in Nat, NEW p \in Nat, NEW milli \in Nat \ {0},
         NEW c \in Nat \ {0}, NEW freq \in Nat, NEW g \in Nat,
         128 * p * v <= u, u < 128 * p * (v + 2),
         freq * g <= (v * milli) * c, (v * milli) * c < freq * (g + 1)
  PROVE  /\ u * milli * c >= freq * (128 * g) * p
         /\ (u - 256 * p) * milli * c < freq * (128 * g + 128) * p
<1> DEFINE mc == milli * c
           y  == v * mc
<1>1. mc \in Nat \ {0} /\ (v * milli) * c = y
  OBVIOUS
<1> HIDE DEF mc
<1>2. y \in Nat
  BY <1>1
<1>3. 128 * p * v = 128 * (p * v) /\ p * v \in Nat
  OBVIOUS
<1>4. 128 * p * (v + 2) = 128 * (p * v) + 256 * p
  OBVIOUS
<1>5. u * milli * c = u * mc
  BY DEF mc
<1>6. (u - 256 * p) * milli * c = (u - 256 * p) * mc
  BY DEF mc
<1>7. u * mc >= (128 * (p * v)) * mc
  <2>1. PICK e \in Nat : u = 128 * (p * v) + e
    <3>1. u - 128 * (p * v) \in Nat
      BY <1>3
    <3> QED
      BY <3>1, <1>3
  <2> DEFINE w == 128 * (p * v)
  <2>2. w \in Nat /\ u = w + e
    BY <2>1, <1>3
  <2> HIDE DEF w
  <2>3. u * mc = w * mc + e * mc /\ e * mc \in Nat /\ w * mc \in Nat
    BY <2>1, <2>2, <1>1
  <2> QED
    BY <2>3 DEF w
<1>8. (u - 256 * p) * mc < (128 * (p * v)) * mc
  <2> DEFINE w == 128 * (p * v)
             x == u - 256 * p
  <2>1. w \in Nat /\ x \in Int /\ x < w
    BY <1>3, <1>4
  <2> HIDE DEF w, x
  <2>2. PICK e \in Nat : w = x + 1 + e
    <3>1. w - x - 1 \in Nat
      BY <2>1
    <3> QED
      BY <3>1, <2>1
  <2>3. w * mc = x * mc + mc + e * mc /\ e * mc \in Nat /\ x * mc \in Int
    BY <2>1, <2>2, <1>1
  <2>4. x * mc < w * mc
    BY <2>3, <1>1
  <2> QED
    BY <2>4 DEF w, x
<1>9. (128 * (p * v)) * mc = 128 * p * y
  BY <1>1
<1> HIDE DEF y
<1>10. freq * (128 * g) * p = 128 * p * (freq * g)
  OBVIOUS
<1>11. freq * (128 * g + 128) * p = 128 * p * (freq * (g + 1))
  OBVIOUS
<1>12. ASSUME NEW i \in Nat, NEW j \in Nat, i <= j PROVE 128 * p * i <= 128 * p * j
  <2>1. PICK e \in Nat : j = i + e
    <3>1. j - i \in Nat
      BY <1>12
    <3> QED
      BY <3>1
  <2>2. 128 * p * j = 128 * p * i + 128 * p * e /\ 128 * p * e \in Nat /\ 128 * p * i \in Nat
    BY <2>1
  <2> QED
    BY <2>2
<1>13. freq * g \in Nat /\ freq * (g + 1) \in Nat
  OBVIOUS
<1>14. 128 * p * (freq * g) <= 128 * p * y /\ 128 * p * y <= 128 * p * (freq * (g + 1))
  BY <1>1, <1>2, <1>12, <1>13
<1>15. u * mc \in Int /\ (u - 256 * p) * mc \in Int /\ 128 * p * y \in Int
  BY <1>1, <1>2
<1> QED
  BY <1>5, <1>6, <1>7, <1>8, <1>9, <1>10, <1>11, <1>13, <1>14, <1>15
-----------------------------------------------------------------------------
(* The clock's invariant: the types, what the driver knows of the PLLs, and that *)
(* this is in their band, so that no divider is cut to a word.                   *)

InBand   == \A p \in {"A", "B"} : known[p] <= VcoMax
ClockInv == K!TypeOK /\ K!PllKnown /\ InBand

\* An output divided by r in this mode has frequency f, when its PLL is set to from.
AsAsked(f, from, r, integer) ==
  /\ integer = (K!Ratio(r) % (128 * r.p3) = 0)
  /\ Xtal * K!Ratio(from) * Milli * r.p3 >= f * K!Ratio(r) * from.p3
  /\ (Xtal * K!Ratio(from) - 256 * from.p3) * Milli * r.p3 < f * (K!Ratio(r) + 128) * from.p3

\* Outputs that use a PLL are not as asked any more when it is set.
Forgotten(p) == [m \in Outputs |-> IF asked[m].pll = p THEN K!NotAsked ELSE asked[m]]

\* si5351a_set_pll_freq changes nothing, or the registers and what is remembered.
LEMMA PllOutcome ==
  ASSUME NEW p \in {"A", "B"}, NEW freq \in PllFreqs, K!SetPllFreq(p, freq)
  PROVE  \/ UNCHANGED <<known, pll, asked>>
         \/ \E k \in Nat, r \in RegisterSet :
              /\ k <= VcoMax /\ Runs(k, r)
              /\ known' = [known EXCEPT ![p] = k] /\ pll' = [pll EXCEPT ![p] = r]
              /\ asked' = Forgotten(p)
<1> DEFINE a == freq \div Xtal
           rest == freq % Xtal
<1>1. freq \in Nat /\ freq <= VcoMax /\ Xtal \in Nat \ {0} /\ VcoMax \in Nat
  BY DevicesAssumption, ClockAssumption DEF K!SetPllFreq
<1>2. a \in Nat /\ rest \in Nat /\ freq = Xtal * a + rest
  BY <1>1, Quotient
<1>3. ASSUME NEW b \in Nat, NEW c \in Nat \ {0}, b < c, c < 2 ^ 20,
             Xtal * (a * c + b) <= freq * c, K!SetPll(p, a, b, c)
      PROVE  \/ UNCHANGED <<known, pll, asked>>
             \/ \E k \in Nat, r \in RegisterSet :
                  /\ k <= VcoMax /\ Runs(k, r)
                  /\ known' = [known EXCEPT ![p] = k] /\ pll' = [pll EXCEPT ![p] = r]
                  /\ asked' = Forgotten(p)
  <2> HIDE DEF a
  <2>1. a \in 15 .. 90
    BY <1>3 DEF K!SetPll
  <2>2. PICK ok \in Bus, k \in K!Stored(a, b, c) :
          IF ok THEN /\ pll' = [pll EXCEPT ![p] = K!Registers(a, b, c)]
                     /\ known' = [known EXCEPT ![p] = k]
                     /\ asked' = Forgotten(p)
                ELSE UNCHANGED <<known, pll, asked>>
    BY <1>3, Zenon DEF K!SetPll, Forgotten
  <2>3. c \in 1 .. 2 ^ 20 - 1
    BY <1>3
  <2>4. k \in Nat /\ k <= freq /\ Runs(k, K!Registers(a, b, c))
    BY <1>1, <1>3, <2>1, <2>3, PllSet, Zenon
  <2>5. K!Registers(a, b, c) \in RegisterSet
    <3>1. Hold(a, b, c)
      BY <2>1, <1>3, RegistersHold
    <3> QED
      BY <3>1 DEF Hold
  <2>6. k <= VcoMax
    BY <1>1, <2>4
  <2> QED
    BY <2>2, <2>4, <2>5, <2>6, Zenon
<1>4. CASE rest = 0
  <2>1. K!SetPll(p, a, 0, 1)
    BY <1>4, Zenon DEF K!SetPllFreq
  <2>2. Xtal * (a * 1 + 0) <= freq * 1
    <3> HIDE DEF a, rest
    <3> QED
      BY <1>1, <1>2, <1>4
  <2>3. 0 \in Nat /\ 1 \in Nat \ {0} /\ 0 < 1 /\ 1 < 2 ^ 20
    OBVIOUS
  <2> HIDE DEF a
  <2> QED
    BY <2>1, <2>2, <2>3, <1>3, Zenon
<1>5. CASE rest # 0
  <2> DEFINE b == (rest * Denominator) \div Xtal
  <2>1. K!SetPll(p, a, b, Denominator)
    BY <1>5, Zenon DEF K!SetPllFreq
  <2>2. Denominator \in Nat \ {0} /\ Denominator < 2 ^ 20
    BY ClockAssumption
  <2>3. b \in Nat /\ b < Denominator /\ Xtal * (a * Denominator + b) <= freq * Denominator
    BY <1>1, <2>2, PllFraction
  <2> HIDE DEF a, b
  <2> QED
    BY <2>1, <2>2, <2>3, <1>3, Zenon
<1> QED
  BY <1>4, <1>5

\* si5351a_set_ms_freq leaves the output as it was; or with a divider that is right
\* for what the PLL runs at, of which the control register does or does not know.
LEMMA DividerOutcome ==
  ASSUME ClockInv, NEW m \in Outputs, NEW freq \in MsFreqs, NEW p \in {"A", "B"},
         K!SetMsFreq(m, freq, p)
  PROVE  \/ UNCHANGED <<ms, ctrl, asked>>
         \/ \E r \in RegisterSet :
              /\ ms' = [ms EXCEPT ![m] = r] /\ ctrl' = ctrl
              /\ asked' = [asked EXCEPT ![m] = K!NotAsked]
         \/ \E r \in RegisterSet, integer \in BOOLEAN :
              /\ AsAsked(freq, pll[p], r, integer)
              /\ ms' = [ms EXCEPT ![m] = r]
              /\ ctrl' = [ctrl EXCEPT ![m] = [pll |-> p, integer |-> integer, powered |-> TRUE]]
              /\ asked' = [asked EXCEPT ![m] = [freq |-> freq, pll |-> p]]
<1> DEFINE v == known[p]
           d == v * Milli
           quotient == d \div freq
           c == Denominator
           b == ((d % freq) * c) \div freq
<1>1. v \in Nat \ {0} /\ freq \in Nat \ {0} /\ v <= VcoMax
  BY DevicesAssumption DEF ClockInv, K!TypeOK, InBand, K!SetMsFreq
<1>2. /\ Milli \in Nat \ {0} /\ VcoMax \in Nat /\ Word \in Nat /\ Xtal \in Nat \ {0}
      /\ c \in Nat \ {0} /\ c < 2 ^ 20
  BY ClockAssumption
<1>3. d \in Nat /\ d < Word * freq
  <2>1. VcoMax * Milli < Word * freq
    BY <1>1, ClockAssumption
  <2>2. PICK e \in Nat : VcoMax = v + e
    <3>1. VcoMax - v \in Nat
      BY <1>1, <1>2
    <3> QED
      BY <3>1, <1>1, <1>2
  <2>3. VcoMax * Milli = v * Milli + e * Milli /\ e * Milli \in Nat /\ v * Milli \in Nat
    <3>1. ASSUME NEW i \in Nat, NEW n \in Nat
          PROVE  (i + e) * n = i * n + e * n /\ e * n \in Nat /\ i * n \in Nat
      OBVIOUS
    <3> HIDE DEF v
    <3> QED
      BY <2>2, <3>1, <1>1, <1>2
  <2>4. Word * freq \in Nat
    BY <1>1, <1>2
  <2> QED
    BY <2>1, <2>3, <2>4
<1>4. quotient % Word = quotient /\ quotient \in Nat
  <2> HIDE DEF d
  <2>1. quotient \in Nat /\ quotient < Word
    BY <1>1, <1>2, <1>3, Quotient, QuotientBelow
  <2> HIDE DEF quotient
  <2> QED
    BY <2>1, <1>2
<1>5. K!SetMs(m, quotient, b, c, p, freq)
  <2>1. K!SetMs(m, (quotient) % Word, b, c, p, freq)
    BY Zenon DEF K!SetMsFreq
  <2> HIDE DEF quotient, b, c
  <2> QED
    BY <2>1, <1>4
<1>6. /\ b \in Nat /\ b < c
      /\ freq * (quotient * c + b) <= d * c /\ d * c < freq * (quotient * c + b + 1)
  <2> HIDE DEF d, c
  <2> QED
    BY <1>1, <1>2, <1>3, DividerFraction
<1> HIDE DEF d, quotient, b
<1>7. quotient \in 6 .. 1800
  BY <1>5 DEF K!SetMs
<1> DEFINE r == K!Registers(quotient, b, c)
           g == quotient * c + b
<1>8. r \in RegisterSet /\ r.p3 = c /\ K!Ratio(r) = 128 * g
  <2>1. Hold(quotient, b, c)
    BY <1>2, <1>6, <1>7, RegistersHold
  <2> QED
    BY <2>1 DEF Hold
<1>9. AsAsked(freq, pll[p], r, b = 0)
  <2> DEFINE from == pll[p]
             u    == Xtal * K!Ratio(from)
  <2>1. from \in RegisterSet
    BY DEF ClockInv, K!TypeOK, RegisterSet
  <2>2. Runs(v, from)
    BY <1>1 DEF ClockInv, K!PllKnown, Runs
  <2>3. from.p3 \in Nat /\ u \in Nat
    <3>1. from.p1 \in Nat /\ from.p2 \in Nat /\ from.p3 \in Nat
      BY <2>1 DEF RegisterSet
    <3> HIDE DEF from
    <3>2. K!Ratio(from) \in Nat
      BY <3>1 DEF K!Ratio
    <3> QED
      BY <3>1, <3>2, <1>2
  <2>4. 128 * from.p3 * v <= u /\ u < 128 * from.p3 * (v + 2)
    <3>1. 128 * from.p3 * (v + 2) \in Nat
      BY <2>3, <1>1
    <3> HIDE DEF v, from
    <3> QED
      BY <2>2, <2>3, <3>1 DEF Runs
  <2>5. g \in Nat /\ quotient * c \in Nat
    BY <1>2, <1>6, <1>7
  <2>6. freq * g <= (v * Milli) * c /\ (v * Milli) * c < freq * (g + 1)
    BY <1>6, <2>5 DEF d
  <2> HIDE DEF u, from, g, v
  <2>7. /\ u * Milli * c >= freq * (128 * g) * from.p3
        /\ (u - 256 * from.p3) * Milli * c < freq * (128 * g + 128) * from.p3
    BY <1>1, <1>2, <2>3, <2>4, <2>5, <2>6, Bounds
  <2>8. (b = 0) = ((128 * g) % (128 * c) = 0)
    BY <1>2, <1>6, <1>7, WholeNumber DEF g
  <2> HIDE DEF r, c
  <2> QED
    BY <1>8, <2>7, <2>8 DEF AsAsked, u, from
<1> HIDE DEF r
<1>10. PICK divider \in Bus, control \in Bus :
         /\ ms' = IF divider THEN [ms EXCEPT ![m] = K!Registers(quotient, b, c)] ELSE ms
         /\ ctrl' = IF divider /\ control THEN [ctrl EXCEPT ![m] = K!Control(p, b)] ELSE ctrl
         /\ asked' = [asked EXCEPT ![m] = IF ~ divider THEN @ ELSE IF ~ control THEN K!NotAsked
                                          ELSE [freq |-> freq, pll |-> p]]
  <2> HIDE DEF c, v, g
  <2> QED
    BY <1>5, ZenonT(60) DEF K!SetMs
<1>11. K!Control(p, b) = [pll |-> p, integer |-> b = 0, powered |-> TRUE]
  BY DEF K!Control
<1>12. CASE ~ divider
  <2>1. asked' = [asked EXCEPT ![m] = asked[m]]
    BY <1>10, <1>12, Zenon
  <2>2. asked' = asked
    BY <2>1 DEF ClockInv, K!TypeOK
  <2>3. ms' = ms /\ ctrl' = ctrl
    BY <1>10, <1>12, Zenon
  <2> QED
    BY <2>2, <2>3, Zenon
<1>13. CASE divider /\ ~ control
  <2>1. ms' = [ms EXCEPT ![m] = r] /\ ctrl' = ctrl /\ asked' = [asked EXCEPT ![m] = K!NotAsked]
    BY <1>10, <1>13, Zenon DEF r
  <2> QED
    BY <2>1, <1>8, Zenon
<1>14. CASE divider /\ control
  <2>1. /\ ms' = [ms EXCEPT ![m] = r]
        /\ ctrl' = [ctrl EXCEPT ![m] = K!Control(p, b)]
        /\ asked' = [asked EXCEPT ![m] = [freq |-> freq, pll |-> p]]
    BY <1>10, <1>14, Zenon DEF r
  <2>2. (b = 0) \in BOOLEAN
    OBVIOUS
  <2> QED
    BY <2>1, <2>2, <1>8, <1>9, <1>11, Zenon
<1> QED
  BY <1>12, <1>13, <1>14
-----------------------------------------------------------------------------
(* The steps of the clock *)

\* An output is as asked, in terms of the constants that the lemmas speak of.
LEMMA AskedOutputs ==
  K!OutputAsAsked <=>
    \A m \in Outputs : asked[m].freq # 0 =>
      /\ ctrl[m].powered /\ ctrl[m].pll = asked[m].pll
      /\ AsAsked(asked[m].freq, pll[asked[m].pll], ms[m], ctrl[m].integer)
  BY Zenon DEF K!OutputAsAsked, AsAsked

LEMMA ClockInit == K!Init => ClockInv /\ K!OutputAsAsked
<1> SUFFICES ASSUME K!Init PROVE ClockInv /\ K!OutputAsAsked
  OBVIOUS
<1>1. K!TypeOK
  BY DEF K!Init, K!TypeOK, K!Unset, K!Down, K!NotAsked
<1>2. K!PllKnown /\ InBand
  BY ClockAssumption DEF K!Init, K!PllKnown, InBand
<1>3. K!OutputAsAsked
  BY DEF K!Init, K!OutputAsAsked, K!NotAsked
<1> QED
  BY <1>1, <1>2, <1>3 DEF ClockInv

\* Setting a PLL: the driver knows what the registers say, and an output that is
\* still as asked has the other PLL.
LEMMA SetPllFreqStep ==
  ASSUME ClockInv, K!OutputAsAsked,
         NEW p \in {"A", "B"}, NEW freq \in PllFreqs, K!SetPllFreq(p, freq)
  PROVE  ClockInv' /\ K!OutputAsAsked'
<1>1. UNCHANGED <<ms, ctrl, disabled, enabling>>
  BY DEF K!SetPllFreq
<1>2. CASE UNCHANGED <<known, pll, asked>>
  BY <1>1, <1>2 DEF ClockInv, K!TypeOK, K!PllKnown, InBand, K!OutputAsAsked
<1>3. ASSUME NEW k \in Nat, NEW r \in RegisterSet, k <= VcoMax, Runs(k, r),
             known' = [known EXCEPT ![p] = k], pll' = [pll EXCEPT ![p] = r],
             asked' = Forgotten(p)
      PROVE  ClockInv' /\ K!OutputAsAsked'
  <2>1. K!TypeOK'
    <3>1. known' \in [{"A", "B"} -> Nat]
      BY <1>3 DEF ClockInv, K!TypeOK
    <3>2. pll' \in [{"A", "B"} -> [p1 : Nat, p2 : Nat, p3 : Nat]]
      BY <1>3 DEF ClockInv, K!TypeOK, RegisterSet
    <3>3. asked' \in [Outputs -> [freq : MsFreqs \cup {0}, pll : {"A", "B"}]]
      BY <1>3 DEF ClockInv, K!TypeOK, Forgotten, K!NotAsked
    <3> QED
      BY <1>1, <3>1, <3>2, <3>3 DEF ClockInv, K!TypeOK
  <2>2. ASSUME NEW i \in {"A", "B"}
        PROVE  /\ known'[i] = IF i = p THEN k ELSE known[i]
               /\ pll'[i] = IF i = p THEN r ELSE pll[i]
    BY <1>3 DEF ClockInv, K!TypeOK
  <2>3. K!PllKnown'
    <3> SUFFICES ASSUME NEW i \in {"A", "B"}, known'[i] # 0 PROVE Runs(known'[i], pll'[i])
      BY DEF K!PllKnown, Runs
    <3>1. CASE i = p
      BY <3>1, <2>2, <1>3
    <3>2. CASE i # p
      BY <3>2, <2>2 DEF ClockInv, K!PllKnown, Runs
    <3> QED
      BY <3>1, <3>2
  <2>4. InBand'
    BY <2>2, <1>3 DEF ClockInv, InBand
  <2>5. ASSUME NEW m \in Outputs, asked'[m].freq # 0
        PROVE  /\ ctrl'[m].powered /\ ctrl'[m].pll = asked'[m].pll
               /\ AsAsked(asked'[m].freq, pll'[asked'[m].pll], ms'[m], ctrl'[m].integer)
    <3>1. asked[m].pll # p /\ asked'[m] = asked[m] /\ asked[m].pll \in {"A", "B"}
      BY <2>5, <1>3 DEF Forgotten, K!NotAsked, ClockInv, K!TypeOK
    <3>2. pll'[asked[m].pll] = pll[asked[m].pll]
      BY <3>1, <2>2
    <3> QED
      BY <3>1, <3>2, <2>5, <1>1, AskedOutputs
  <2>6. K!OutputAsAsked'
    BY <2>5 DEF K!OutputAsAsked, AsAsked
  <2> QED
    BY <2>1, <2>3, <2>4, <2>6 DEF ClockInv
<1> QED
  BY <1>2, <1>3, PllOutcome

\* Setting an output changes nothing of the PLLs or of other outputs.
LEMMA SetMsFreqStep ==
  ASSUME ClockInv, K!OutputAsAsked,
         NEW m \in Outputs, NEW freq \in MsFreqs, NEW p \in {"A", "B"}, K!SetMsFreq(m, freq, p)
  PROVE  ClockInv' /\ K!OutputAsAsked'
<1>1. UNCHANGED <<known, pll, disabled, enabling>>
  BY DEF K!SetMsFreq
<1>2. K!PllKnown' /\ InBand'
  BY <1>1 DEF ClockInv, K!PllKnown, InBand
<1>3. ASSUME K!TypeOK',
             \A o \in Outputs \ {m} : ms'[o] = ms[o] /\ ctrl'[o] = ctrl[o] /\ asked'[o] = asked[o],
             asked'[m].freq # 0 =>
               /\ ctrl'[m].powered /\ ctrl'[m].pll = asked'[m].pll
               /\ AsAsked(asked'[m].freq, pll[asked'[m].pll], ms'[m], ctrl'[m].integer)
      PROVE  ClockInv' /\ K!OutputAsAsked'
  <2>1. ASSUME NEW o \in Outputs, asked'[o].freq # 0
        PROVE  /\ ctrl'[o].powered /\ ctrl'[o].pll = asked'[o].pll
               /\ AsAsked(asked'[o].freq, pll'[asked'[o].pll], ms'[o], ctrl'[o].integer)
    <3>1. CASE o = m
      BY <3>1, <2>1, <1>1, <1>3
    <3>2. CASE o # m
      <4>1. ms'[o] = ms[o] /\ ctrl'[o] = ctrl[o] /\ asked'[o] = asked[o]
        BY <3>2, <1>3
      <4> QED
        BY <4>1, <2>1, <1>1, AskedOutputs
    <3> QED
      BY <3>1, <3>2
  <2>2. K!OutputAsAsked'
    BY <2>1 DEF K!OutputAsAsked, AsAsked
  <2> QED
    BY <2>2, <1>2, <1>3 DEF ClockInv
<1>4. CASE UNCHANGED <<ms, ctrl, asked>>
  BY <1>1, <1>4 DEF ClockInv, K!TypeOK, K!PllKnown, InBand, K!OutputAsAsked
<1>5. ASSUME NEW r \in RegisterSet,
             ms' = [ms EXCEPT ![m] = r], ctrl' = ctrl,
             asked' = [asked EXCEPT ![m] = K!NotAsked]
      PROVE  ClockInv' /\ K!OutputAsAsked'
  <2>1. K!TypeOK'
    BY <1>1, <1>5 DEF ClockInv, K!TypeOK, RegisterSet, K!NotAsked
  <2>2. asked'[m].freq = 0
    BY <1>5 DEF ClockInv, K!TypeOK, K!NotAsked
  <2>3. \A o \in Outputs \ {m} : ms'[o] = ms[o] /\ ctrl'[o] = ctrl[o] /\ asked'[o] = asked[o]
    BY <1>5 DEF ClockInv, K!TypeOK
  <2> QED
    BY <2>1, <2>2, <2>3, <1>3
<1>6. ASSUME NEW r \in RegisterSet, NEW integer \in BOOLEAN,
             AsAsked(freq, pll[p], r, integer),
             ms' = [ms EXCEPT ![m] = r],
             ctrl' = [ctrl EXCEPT ![m] = [pll |-> p, integer |-> integer, powered |-> TRUE]],
             asked' = [asked EXCEPT ![m] = [freq |-> freq, pll |-> p]]
      PROVE  ClockInv' /\ K!OutputAsAsked'
  <2>1. K!TypeOK'
    <3>1. ms' \in [Outputs -> [p1 : Nat, p2 : Nat, p3 : Nat]]
      BY <1>6 DEF ClockInv, K!TypeOK, RegisterSet
    <3>2. ctrl' \in [Outputs -> [pll : {"A", "B"}, integer : BOOLEAN, powered : BOOLEAN]]
      BY <1>6 DEF ClockInv, K!TypeOK
    <3>3. asked' \in [Outputs -> [freq : MsFreqs \cup {0}, pll : {"A", "B"}]]
      BY <1>6 DEF ClockInv, K!TypeOK
    <3> QED
      BY <3>1, <3>2, <3>3, <1>1 DEF ClockInv, K!TypeOK
  <2>2. /\ ms'[m] = r
        /\ ctrl'[m] = [pll |-> p, integer |-> integer, powered |-> TRUE]
        /\ asked'[m] = [freq |-> freq, pll |-> p]
    BY <1>6 DEF ClockInv, K!TypeOK
  <2>3. \A o \in Outputs \ {m} : ms'[o] = ms[o] /\ ctrl'[o] = ctrl[o] /\ asked'[o] = asked[o]
    BY <1>6 DEF ClockInv, K!TypeOK
  <2>4. /\ ctrl'[m].powered /\ ctrl'[m].pll = asked'[m].pll
        /\ AsAsked(asked'[m].freq, pll[asked'[m].pll], ms'[m], ctrl'[m].integer)
    BY <2>2, <1>6
  <2> QED
    BY <2>1, <2>3, <2>4, <1>3
<1> QED
  BY <1>4, <1>5, <1>6, DividerOutcome

\* Resets and the enable register leave outputs as asked or not asked.
LEMMA ResetStep ==
  ASSUME ClockInv, K!OutputAsAsked, K!Reset
  PROVE  ClockInv' /\ K!OutputAsAsked'
<1>1. /\ known' = [i \in {"A", "B"} |-> 0] /\ UNCHANGED <<pll, ms>>
      /\ enabling' \in [K!Threads -> SUBSET SUBSET Outputs]
  <2>1. enabling' = [t \in K!Threads |-> {}]
    BY DEF K!Reset
  <2> QED
    BY <2>1 DEF K!Reset
<1>2. K!PllKnown' /\ InBand'
  BY <1>1, ClockAssumption DEF K!PllKnown, InBand
<1>3. CASE UNCHANGED <<ctrl, disabled, asked>>
  BY <1>1, <1>2, <1>3 DEF ClockInv, K!TypeOK, K!OutputAsAsked
<1>4. ASSUME NEW done \in 0 .. 8,
             disabled' = Outputs,
             ctrl'  = [m \in Outputs |-> IF m < done THEN K!Down ELSE ctrl[m]],
             asked' = [m \in Outputs |-> IF m < done THEN K!NotAsked ELSE asked[m]]
      PROVE  ClockInv' /\ K!OutputAsAsked'
  <2>1. K!TypeOK'
    <3>1. ctrl' \in [Outputs -> [pll : {"A", "B"}, integer : BOOLEAN, powered : BOOLEAN]]
      BY <1>4 DEF ClockInv, K!TypeOK, K!Down
    <3>2. asked' \in [Outputs -> [freq : MsFreqs \cup {0}, pll : {"A", "B"}]]
      BY <1>4 DEF ClockInv, K!TypeOK, K!NotAsked
    <3> QED
      BY <3>1, <3>2, <1>1, <1>4 DEF ClockInv, K!TypeOK
  <2>2. ASSUME NEW m \in Outputs, asked'[m].freq # 0
        PROVE  /\ ctrl'[m].powered /\ ctrl'[m].pll = asked'[m].pll
               /\ AsAsked(asked'[m].freq, pll'[asked'[m].pll], ms'[m], ctrl'[m].integer)
    <3>1. asked'[m] = asked[m] /\ ctrl'[m] = ctrl[m]
      BY <2>2, <1>4 DEF K!NotAsked
    <3> QED
      BY <3>1, <2>2, <1>1, AskedOutputs
  <2>3. K!OutputAsAsked'
    BY <2>2 DEF K!OutputAsAsked, AsAsked
  <2> QED
    BY <2>1, <2>3, <1>2 DEF ClockInv
<1>5. PICK off \in Bus, done \in {8} \cup {m \in 0 .. 7 : FALSE \in Bus} :
        IF ~ off THEN UNCHANGED <<ctrl, disabled, asked>>
        ELSE /\ disabled' = Outputs
             /\ ctrl'  = [m \in Outputs |-> IF m < done THEN K!Down ELSE ctrl[m]]
             /\ asked' = [m \in Outputs |-> IF m < done THEN K!NotAsked ELSE asked[m]]
  BY Zenon DEF K!Reset
<1>6. done \in 0 .. 8
  <2>1. {m \in 0 .. 7 : FALSE \in Bus} \subseteq 0 .. 7
    BY Zenon
  <2>2. done = 8 \/ done \in 0 .. 7
    BY <2>1, Zenon
  <2> QED
    BY <2>2
<1> QED
  BY <1>3, <1>4, <1>5, <1>6, Zenon

LEMMA EnableStep ==
  ASSUME ClockInv, K!OutputAsAsked,
         UNCHANGED <<known, pll, ms, ctrl, asked>>, disabled' \subseteq Outputs,
         enabling' \in [K!Threads -> SUBSET SUBSET Outputs]
  PROVE  ClockInv' /\ K!OutputAsAsked'
<1>1. K!TypeOK'
  BY DEF ClockInv, K!TypeOK
<1>2. K!PllKnown' /\ InBand'
  BY DEF ClockInv, K!PllKnown, InBand
<1>3. K!OutputAsAsked'
  BY DEF K!OutputAsAsked
<1> QED
  BY <1>1, <1>2, <1>3 DEF ClockInv

LEMMA EnableReadStep ==
  ASSUME ClockInv, K!OutputAsAsked,
         NEW t \in K!Threads, NEW m \in Outputs, NEW enable \in BOOLEAN, K!EnableRead(t, m, enable)
  PROVE  ClockInv' /\ K!OutputAsAsked'
<1>1. UNCHANGED <<known, pll, ms, ctrl, disabled, asked>>
  BY DEF K!EnableRead
<1>2. PICK value \in SUBSET Outputs : enabling' = [enabling EXCEPT ![t] = {value}]
  BY DEF K!EnableRead, ClockInv, K!TypeOK
<1>3. enabling' \in [K!Threads -> SUBSET SUBSET Outputs]
  BY <1>2 DEF ClockInv, K!TypeOK
<1>4. disabled' \subseteq Outputs
  BY <1>1 DEF ClockInv, K!TypeOK
<1> QED
  BY <1>1, <1>3, <1>4, EnableStep

LEMMA EnableWriteStep ==
  ASSUME ClockInv, K!OutputAsAsked, NEW t \in K!Threads, K!EnableWrite(t)
  PROVE  ClockInv' /\ K!OutputAsAsked'
<1>1. UNCHANGED <<known, pll, ms, ctrl, asked>>
  BY DEF K!EnableWrite
<1>2. PICK value \in enabling[t], ok \in Bus : disabled' = IF ok THEN value ELSE disabled
  BY DEF K!EnableWrite
<1>3. disabled' \subseteq Outputs
  BY <1>2 DEF ClockInv, K!TypeOK
<1>4. enabling' \in [K!Threads -> SUBSET SUBSET Outputs]
  BY DEF K!EnableWrite, ClockInv, K!TypeOK
<1> QED
  BY <1>1, <1>3, <1>4, EnableStep

\* The clock's invariant is inductive: commands do not touch the clock.
LEMMA ClockInductive ==
  ASSUME ClockInv, K!OutputAsAsked, [Next]_vars
  PROVE  ClockInv' /\ K!OutputAsAsked'
<1>1. CASE UNCHANGED clock
  <2>1. UNCHANGED <<known, pll, ms, ctrl, disabled, enabling, asked>>
    BY <1>1 DEF clock
  <2> QED
    BY <2>1 DEF ClockInv, K!TypeOK, K!PllKnown, InBand, K!OutputAsAsked
<1>2. CASE ClockStep
  <2>1. K!Next
    BY <1>2 DEF ClockStep
  <2>2. CASE \E p \in {"A", "B"}, freq \in PllFreqs : K!SetPllFreq(p, freq)
    BY <2>2, SetPllFreqStep
  <2>3. CASE \E m \in Outputs, freq \in MsFreqs, p \in {"A", "B"} : K!SetMsFreq(m, freq, p)
    BY <2>3, SetMsFreqStep
  <2>4. CASE \E t \in K!Threads, m \in Outputs, enable \in BOOLEAN : K!EnableRead(t, m, enable)
    BY <2>4, EnableReadStep
  <2>6. CASE \E t \in K!Threads : K!EnableWrite(t)
    BY <2>6, EnableWriteStep
  <2>5. CASE K!Reset
    BY <2>5, ResetStep
  <2> QED
    <3>1. "main" \in K!Threads /\ "work" \in K!Threads
      BY DEF K!Threads
    <3> QED
      BY <2>1, <2>2, <2>3, <2>4, <2>5, <2>6, <3>1, Zenon DEF K!Next, K!Calls
<1>3. CASE CommandStep
  BY <1>1, <1>3, Zenon DEF CommandStep
<1>4. CASE UNCHANGED vars
  BY <1>1, <1>4, Zenon DEF vars
<1> QED
  BY <1>2, <1>3, <1>4, Zenon DEF Next

\* What the driver takes a PLL to run at is what its registers make of the crystal,
\* to less than two units, after any calls, failures and resets: dividers, which are
\* computed from it, are computed from the truth.
THEOREM PllCorrect == Spec => []PllKnown
<1>1. Init => ClockInv /\ K!OutputAsAsked
  BY ClockInit DEF Init
<1>2. ClockInv /\ K!OutputAsAsked /\ [Next]_vars => (ClockInv /\ K!OutputAsAsked)'
  BY ClockInductive
<1>3. ClockInv /\ K!OutputAsAsked => PllKnown
  BY DEF ClockInv, PllKnown
<1> QED
  BY <1>1, <1>2, <1>3, PTL DEF Spec

\* An output runs at what the last successful call asked of si5351a_set_ms_freq, from
\* its PLL and to a step of its divider, whatever failed or was set before and since.
THEOREM OutputCorrect == Spec => []OutputAsAsked
<1>1. Init => ClockInv /\ K!OutputAsAsked
  BY ClockInit DEF Init
<1>2. ClockInv /\ K!OutputAsAsked /\ [Next]_vars => (ClockInv /\ K!OutputAsAsked)'
  BY ClockInductive
<1>3. ClockInv /\ K!OutputAsAsked => OutputAsAsked
  BY DEF OutputAsAsked
<1> QED
  BY <1>1, <1>2, <1>3, PTL DEF Spec
-----------------------------------------------------------------------------
(* Refused commands *)

\* The cursor of a payload, before it is read.
Start(payload) == [rest |-> payload, error |-> FALSE, fields |-> <<>>]

\* A cursor that reads one field: the recursion over the widths, unrolled.
LEMMA ReadOne ==
  ASSUME NEW payload, NEW w
  PROVE  S!Read(payload, <<w>>) = S!Get(Start(payload), w)
<1> DEFINE widths == <<w>>
           Step(f) == [k \in 0 .. Len(widths) |->
                         IF k = 0 THEN Start(payload) ELSE S!Get(f[k - 1], widths[k])]
           cursor  == CHOOSE f : f = Step(f)
           g       == [k \in 0 .. 1 |-> IF k = 0 THEN Start(payload) ELSE S!Get(Start(payload), w)]
<1>1. S!Read(payload, widths) = cursor[Len(widths)]
  BY DEF S!Read, Start
<1>2. Len(widths) = 1 /\ widths[1] = w
  OBVIOUS
<1> HIDE DEF widths
<1>3. g = Step(g)
  BY <1>2
<1>4. cursor = Step(cursor)
  <2> HIDE DEF g, Step
  <2> QED
    BY <1>3
<1> HIDE DEF cursor
<1>5. cursor[0] = Start(payload) /\ cursor[1] = S!Get(cursor[0], w)
  BY <1>2, <1>4
<1> QED
  BY <1>1, <1>2, <1>5 DEF widths

\* A field that is there is read without an error.
LEMMA FieldThere ==
  ASSUME NEW payload, NEW w, ~ (Len(payload) < w)
  PROVE  S!Read(payload, <<w>>).error = FALSE
<1> DEFINE start == Start(payload)
<1>1. S!Read(payload, <<w>>) = S!Get(start, w)
  BY ReadOne
<1>2. start.rest = payload /\ start.error = FALSE /\ start = [rest |-> start.rest, error |-> start.error, fields |-> start.fields]
  BY DEF Start
<1> HIDE DEF start
<1>3. S!Get(start, w) =
        [start EXCEPT !.fields = Append(@, SubSeq(start.rest, 1, w)),
                      !.rest = SubSeq(@, w + 1, Len(@))]
  BY <1>2 DEF S!Get
<1>4. S!Get(start, w).error = start.error
  BY <1>2, <1>3
<1> QED
  BY <1>1, <1>2, <1>4

\* What a step of the settings may do to them when it answers with a refusal.
Untouched == UNCHANGED <<base, rtc, ref, txActive, signal>>
Refused   == reply = S!Nothing /\ reply'.type = S!NACK

\* Each handler refuses before it changes anything.  HandleSetBaseFreq assigns the
\* frequency before it looks at the cursor's error, which no payload that is long
\* enough can set.
LEMMA HandlersRefuse ==
  ASSUME S!Handle, Refused
  PROVE  Untouched
<1>1. ASSUME S!Refuse PROVE Untouched
  BY <1>1, Zenon DEF S!Refuse, S!device, Untouched
<1>2. ASSUME NEW type, NEW payload, S!Reply(type, payload) PROVE type = 254
  BY <1>2 DEF S!Reply, S!Packet, Refused, S!NACK
<1>3. ~ S!Reply(S!ACK, <<>>)
  BY <1>2 DEF S!ACK
<1>4. CASE S!HandleRtcSetTime
  BY <1>1, <1>3, <1>4, Zenon DEF S!HandleRtcSetTime
<1>5. CASE S!HandleRtcGetTime
  BY <1>1, <1>5, Zenon DEF S!HandleRtcGetTime, S!device, Untouched
<1>6. CASE S!HandleSetBaseFreq
  <2>1. CASE Len(request.payload) < 8
    BY <2>1, <1>1, <1>6, Zenon DEF S!HandleSetBaseFreq
  <2>2. CASE ~ (Len(request.payload) < 8)
    <3>1. ~ S!Read(request.payload, <<8>>).error
      BY <2>2, FieldThere
    <3>2. S!Reply(S!ACK, <<>>)
      BY <2>2, <3>1, <1>6, Zenon DEF S!HandleSetBaseFreq
    <3> QED
      BY <3>2, <1>3, Zenon
  <2> QED
    BY <2>1, <2>2
<1>7. CASE S!HandleGetBaseFreq
  BY <1>7, Zenon DEF S!HandleGetBaseFreq, S!device, Untouched
<1>8. CASE S!HandleSetBuckBoostRegulator
  BY <1>1, <1>3, <1>8, Zenon DEF S!HandleSetBuckBoostRegulator
<1>9. CASE S!HandleGetBuckBoostRegulator
  BY <1>1, <1>9, Zenon DEF S!HandleGetBuckBoostRegulator
<1>10. CASE S!HandleTxTestSignal
  BY <1>1, <1>3, <1>10, Zenon DEF S!HandleTxTestSignal
<1>11. CASE S!HandleTrSwitch
  BY <1>1, <1>3, <1>11, Zenon DEF S!HandleTrSwitch
<1>12. CASE S!HandleReset
  <2>1. reply' = S!Nothing
    BY <1>12, Zenon DEF S!HandleReset, Refused
  <2>2. reply'.type # S!NACK
    BY <2>1 DEF S!Nothing, S!Packet, S!NACK
  <2> QED
    BY <2>2, Zenon DEF Refused
<1> QED
  BY <1>4, <1>5, <1>6, <1>7, <1>8, <1>9, <1>10, <1>11, <1>12, Zenon DEF S!Handle

\* Calls, their ends and the clock do not touch the settings.
LEMMA OthersTouchNothing ==
  ASSUME Call \/ S!Return \/ S!Timeout \/ ClockStep \/ UNCHANGED settings
  PROVE  Untouched
<1>1. ASSUME NEW c, NEW type, NEW payload, S!Call(c, type, payload) PROVE Untouched
  BY <1>1, Zenon DEF S!Call, S!device, Untouched
<1>2. ASSUME NEW c, S!Invalid(c) PROVE Untouched
  BY <1>2, Zenon DEF S!Invalid, S!device, Untouched
<1>3. CASE S!TimeCalls
  BY <1>1, <1>3, Zenon DEF S!TimeCalls, S!SetRtcTime, S!GetRtcTime
<1>4. CASE S!SignalCalls
  BY <1>1, <1>2, <1>4, Zenon
    DEF S!SignalCalls, S!SetBaseFreq, S!GetBaseFreq, S!TxTestSignal, S!SetTrSwitch
<1>5. CASE S!RegulatorCalls
  BY <1>1, <1>2, <1>5, Zenon
    DEF S!RegulatorCalls, S!SetBuckBoostRegulator, S!GetBuckBoostRegulator
<1>6. ASSUME NEW packet \in Requests, S!Send(packet) PROVE Untouched
  BY <1>1, <1>6, Zenon DEF S!Send
<1>7. CASE Call
  BY <1>3, <1>4, <1>5, <1>6, <1>7, Zenon DEF Call, Send
<1>8. CASE S!Return
  BY <1>8, Zenon DEF S!Return, S!device, Untouched
<1>9. CASE S!Timeout
  BY <1>9, Zenon DEF S!Timeout, S!device, Untouched
<1>10. CASE ClockStep
  BY <1>10, Zenon DEF ClockStep, settings, Untouched
<1>11. CASE UNCHANGED settings
  BY <1>11, Zenon DEF settings, Untouched
<1> QED
  BY <1>7, <1>8, <1>9, <1>10, <1>11

\* A command that is answered with a refusal has changed neither the frequency, the
\* clock, the regulator, the antenna nor the test signal, whatever its packet was.
THEOREM RefusalCorrect == Spec => RefusedChangesNothing
<1>1. [Next]_vars => (Refused => Untouched)
  <2> SUFFICES ASSUME [Next]_vars, Refused PROVE Untouched
    OBVIOUS
  <2>1. CASE UNCHANGED vars
    <3>1. UNCHANGED settings
      BY <2>1, Zenon DEF vars
    <3> QED
      BY <3>1, OthersTouchNothing
  <2> QED
    BY <2>1, HandlersRefuse, OthersTouchNothing, Zenon DEF Next, CommandStep
<1>2. [Next]_vars => [reply = S!Nothing /\ reply'.type = S!NACK =>
                       UNCHANGED <<base, rtc, ref, txActive, signal>>]_settings
  BY <1>1 DEF Refused, Untouched
<1> QED
  BY <1>2, PTL DEF Spec, RefusedChangesNothing

-----------------------------------------------------------------------------
(* Reading a payload *)

\* The bytes of a payload.
Byte == 0 .. 255

\* A cursor that reads the six fields of a time: the recursion, unrolled.
LEMMA ReadSix ==
  ASSUME NEW payload, NEW w1, NEW w2, NEW w3, NEW w4, NEW w5, NEW w6
  PROVE  S!Read(payload, <<w1, w2, w3, w4, w5, w6>>) =
           S!Get(S!Get(S!Get(S!Get(S!Get(S!Get(Start(payload), w1), w2), w3), w4), w5), w6)
<1> DEFINE widths == <<w1, w2, w3, w4, w5, w6>>
           Step(f) == [k \in 0 .. Len(widths) |->
                         IF k = 0 THEN Start(payload) ELSE S!Get(f[k - 1], widths[k])]
           cursor  == CHOOSE f : f = Step(f)
<1> DEFINE c0 == Start(payload)
           c1 == S!Get(c0, w1)
           c2 == S!Get(c1, w2)
           c3 == S!Get(c2, w3)
           c4 == S!Get(c3, w4)
           c5 == S!Get(c4, w5)
           c6 == S!Get(c5, w6)
           g  == [k \in 0 .. 6 |-> IF k = 0 THEN c0 ELSE <<c1, c2, c3, c4, c5, c6>>[k]]
<1>1. S!Read(payload, widths) = cursor[Len(widths)]
  BY DEF S!Read, Start
<1>2. /\ Len(widths) = 6 /\ widths[1] = w1 /\ widths[2] = w2 /\ widths[3] = w3
      /\ widths[4] = w4 /\ widths[5] = w5 /\ widths[6] = w6
  OBVIOUS
<1> HIDE DEF widths
<1>3. g = Step(g)
  <2>1. /\ g[0] = c0 /\ g[1] = c1 /\ g[2] = c2 /\ g[3] = c3 /\ g[4] = c4 /\ g[5] = c5 /\ g[6] = c6
        /\ g = [k \in 0 .. 6 |-> g[k]]
    <3> HIDE DEF c0, c1, c2, c3, c4, c5, c6
    <3> QED
      OBVIOUS
  <2> HIDE DEF g
  <2>2. ASSUME NEW k \in 0 .. 6 PROVE g[k] = IF k = 0 THEN Start(payload) ELSE S!Get(g[k - 1], widths[k])
    <3>1. k = 0 \/ k = 1 \/ k = 2 \/ k = 3 \/ k = 4 \/ k = 5 \/ k = 6
      OBVIOUS
    <3> QED
      BY <1>2, <2>1, <3>1
  <2> QED
    BY <1>2, <2>1, <2>2
<1>4. cursor = Step(cursor)
  <2> HIDE DEF g, Step
  <2> QED
    BY <1>3
<1> HIDE DEF cursor, c0, c1, c2, c3, c4, c5, c6
<1>5. /\ cursor[0] = Start(payload) /\ cursor[1] = S!Get(cursor[0], w1)
      /\ cursor[2] = S!Get(cursor[1], w2) /\ cursor[3] = S!Get(cursor[2], w3)
      /\ cursor[4] = S!Get(cursor[3], w4) /\ cursor[5] = S!Get(cursor[4], w5)
      /\ cursor[6] = S!Get(cursor[5], w6)
  BY <1>2, <1>4
<1> QED
  BY <1>1, <1>2, <1>5 DEF widths

\* A cursor that has read the first off bytes of a payload.
Cursor(payload, off, fields) ==
  [rest |-> SubSeq(payload, off + 1, Len(payload)), error |-> FALSE, fields |-> fields]

\* The part of a payload behind off, and a part of that.
LEMMA RestOf ==
  ASSUME NEW payload \in Seq(Byte), NEW off \in Nat, NEW w \in Nat, off + w <= Len(payload)
  PROVE  LET rest == SubSeq(payload, off + 1, Len(payload))
         IN /\ Len(rest) = Len(payload) - off
            /\ SubSeq(rest, 1, w) = SubSeq(payload, off + 1, off + w)
            /\ SubSeq(rest, w + 1, Len(rest)) = SubSeq(payload, off + w + 1, Len(payload))
<1> DEFINE rest == SubSeq(payload, off + 1, Len(payload))
<1>1. Len(payload) \in Nat
  BY LenProperties
<1>2. \A i \in off + 1 .. Len(payload) : payload[i] \in Byte
  BY <1>1, ElementOfSeq
<1>3. /\ rest \in Seq(Byte) /\ Len(rest) = Len(payload) - off
      /\ \A i \in 1 .. Len(payload) - off : rest[i] = payload[off + i]
  <2>1. /\ SubSeq(payload, off + 1, Len(payload)) \in Seq(Byte)
        /\ Len(SubSeq(payload, off + 1, Len(payload))) =
             IF off + 1 <= Len(payload) THEN Len(payload) - (off + 1) + 1 ELSE 0
        /\ \A i \in 1 .. Len(payload) - (off + 1) + 1 :
             SubSeq(payload, off + 1, Len(payload))[i] = payload[off + 1 + i - 1]
    BY <1>1, <1>2, SubSeqProperties
  <2>2. Len(payload) - (off + 1) + 1 = Len(payload) - off
    BY <1>1
  <2>3. \A i \in 1 .. Len(payload) - off : off + 1 + i - 1 = off + i
    OBVIOUS
  <2>4. Len(rest) = Len(payload) - off
    BY <1>1, <2>1
  <2> QED
    BY <2>1, <2>2, <2>3, <2>4
<1> HIDE DEF rest
<1>4. ASSUME NEW a \in Nat, NEW b \in Nat, 1 <= a, b <= Len(rest)
      PROVE  SubSeq(rest, a, b) = SubSeq(payload, off + a, off + b)
  <2>1. \A i \in a .. b : rest[i] \in Byte
    BY <1>3, <1>4, ElementOfSeq
  <2>2. /\ SubSeq(rest, a, b) \in Seq(Byte)
        /\ Len(SubSeq(rest, a, b)) = IF a <= b THEN b - a + 1 ELSE 0
        /\ \A i \in 1 .. b - a + 1 : SubSeq(rest, a, b)[i] = rest[a + i - 1]
    BY <2>1, SubSeqProperties
  <2>3. PICK c, d : c = off + a /\ d = off + b
    OBVIOUS
  <2>4. \A i \in c .. d : payload[i] \in Byte
    BY <1>1, <1>3, <1>4, <2>3, ElementOfSeq
  <2>5. /\ SubSeq(payload, c, d) \in Seq(Byte)
        /\ Len(SubSeq(payload, c, d)) = IF c <= d THEN d - c + 1 ELSE 0
        /\ \A i \in 1 .. d - c + 1 : SubSeq(payload, c, d)[i] = payload[c + i - 1]
    <3>1. c \in Int /\ d \in Int
      BY <2>3
    <3> QED
      BY <2>4, <3>1, SubSeqProperties
  <2>6. Len(SubSeq(rest, a, b)) = Len(SubSeq(payload, c, d))
    BY <2>2, <2>3, <2>5
  <2>7. ASSUME NEW i \in 1 .. Len(SubSeq(rest, a, b))
        PROVE  SubSeq(rest, a, b)[i] = SubSeq(payload, c, d)[i]
    <3>1. i \in 1 .. b - a + 1 /\ i \in 1 .. d - c + 1
      BY <2>2, <2>3
    <3>2. a + i - 1 \in 1 .. Len(rest) /\ off + (a + i - 1) = c + i - 1
      BY <1>1, <1>3, <1>4, <2>3, <3>1
    <3> QED
      BY <1>3, <2>2, <2>5, <3>1, <3>2, ZenonT(60)
  <2> QED
    BY <2>2, <2>3, <2>5, <2>6, <2>7, SeqEqual
<1>5. SubSeq(rest, 1, w) = SubSeq(payload, off + 1, off + w)
  BY <1>1, <1>3, <1>4
<1>6. SubSeq(rest, w + 1, Len(rest)) = SubSeq(payload, off + w + 1, Len(payload))
  <2>1. PICK a \in Nat : a = w + 1
    OBVIOUS
  <2>2. PICK b \in Nat : b = Len(rest)
    BY <1>3, LenProperties
  <2>3. off + a = off + w + 1 /\ off + b = Len(payload) /\ 1 <= a /\ b <= Len(rest)
    BY <1>1, <1>3, <2>1, <2>2
  <2>4. SubSeq(rest, a, b) = SubSeq(payload, off + a, off + b)
    BY <1>4, <2>3
  <2> QED
    BY <2>1, <2>2, <2>3, <2>4
<1> QED
  BY <1>3, <1>5, <1>6 DEF rest

\* A field that is there is read, and the cursor is behind it.
LEMMA GetField ==
  ASSUME NEW payload \in Seq(Byte), NEW off \in Nat, NEW w \in Nat, off + w <= Len(payload),
         NEW fields
  PROVE  S!Get(Cursor(payload, off, fields), w) =
           Cursor(payload, off + w, Append(fields, SubSeq(payload, off + 1, off + w)))
<1> DEFINE rest == SubSeq(payload, off + 1, Len(payload))
<1>1. /\ Len(rest) = Len(payload) - off
      /\ SubSeq(rest, 1, w) = SubSeq(payload, off + 1, off + w)
      /\ SubSeq(rest, w + 1, Len(rest)) = SubSeq(payload, off + w + 1, Len(payload))
  BY RestOf
<1>2. ~ (Len(rest) < w)
  BY <1>1, LenProperties
<1> HIDE DEF rest
<1>3. Cursor(payload, off, fields) = [rest |-> rest, error |-> FALSE, fields |-> fields]
  BY DEF Cursor, rest
<1>4. PICK field : field = SubSeq(payload, off + 1, off + w)
  OBVIOUS
<1>5. PICK behind : behind = SubSeq(payload, off + w + 1, Len(payload))
  OBVIOUS
<1>6. PICK c : c = [rest |-> rest, error |-> FALSE, fields |-> fields]
  BY Zenon
<1>7. c.rest = rest /\ c.fields = fields
  BY <1>6
<1>8. S!Get(c, w) = [c EXCEPT !.fields = Append(fields, field), !.rest = behind]
  <2>1. ~ (Len(c.rest) < w)
    BY <1>2, <1>7, Zenon
  <2>2. S!Get(c, w) = [c EXCEPT !.fields = Append(c.fields, SubSeq(c.rest, 1, w)),
                               !.rest = SubSeq(c.rest, w + 1, Len(c.rest))]
    BY <2>1, ZenonT(60) DEF S!Get
  <2>3. SubSeq(c.rest, 1, w) = field /\ SubSeq(c.rest, w + 1, Len(c.rest)) = behind
    BY <1>1, <1>4, <1>5, <1>7, Zenon
  <2> QED
    BY <1>7, <2>2, <2>3, Zenon
<1>9. S!Get(c, w) = [rest |-> behind, error |-> FALSE, fields |-> Append(fields, field)]
  <2>1. PICK more : more = Append(fields, field)
    OBVIOUS
  <2>2. PICK r : r = [c EXCEPT !.fields = more, !.rest = behind]
    BY Zenon
  <2>3. r = [rest |-> behind, error |-> FALSE, fields |-> more]
    BY <1>6, <2>2
  <2> QED
    BY <1>8, <2>1, <2>2, <2>3, Zenon
<1>10. Cursor(payload, off + w, Append(fields, field)) =
         [rest |-> behind, error |-> FALSE, fields |-> Append(fields, field)]
  BY <1>5, Zenon DEF Cursor
<1> QED
  BY <1>3, <1>4, <1>6, <1>9, <1>10, Zenon

\* The number in a field of one byte: the recursion, unrolled.
LEMMA ValueOne ==
  ASSUME NEW bytes, Len(bytes) = 1
  PROVE  S!Value(bytes) = S!Lengthened(0, bytes[1])
<1> DEFINE Step(f) == [k \in 0 .. Len(bytes) |->
                         IF k = 0 THEN 0 ELSE S!Lengthened(f[k - 1], bytes[Len(bytes) + 1 - k])]
           n == CHOOSE f : f = Step(f)
           g == [k \in 0 .. 1 |-> IF k = 0 THEN 0 ELSE S!Lengthened(0, bytes[1])]
<1>1. S!Value(bytes) = n[Len(bytes)]
  BY DEF S!Value
<1>2. g = Step(g)
  <2>1. ASSUME NEW k \in 0 .. 1
        PROVE  g[k] = IF k = 0 THEN 0 ELSE S!Lengthened(g[k - 1], bytes[Len(bytes) + 1 - k])
    <3>1. k = 0 \/ k = 1
      OBVIOUS
    <3>2. g[0] = 0 /\ g[1] = S!Lengthened(0, bytes[1])
      OBVIOUS
    <3> HIDE DEF g
    <3> QED
      BY <3>1, <3>2
  <2>2. g = [k \in 0 .. 1 |-> g[k]]
    OBVIOUS
  <2> HIDE DEF g
  <2> QED
    BY <2>1, <2>2
<1>3. n = Step(n)
  <2> HIDE DEF g, Step
  <2> QED
    BY <1>2
<1> HIDE DEF n
<1>4. n[0] = 0 /\ n[1] = S!Lengthened(n[0], bytes[1])
  BY <1>3
<1> QED
  BY <1>1, <1>4

\* The number in two bytes.
LEMMA ValueTwo ==
  ASSUME NEW bytes, Len(bytes) = 2
  PROVE  S!Value(bytes) = S!Lengthened(S!Lengthened(0, bytes[2]), bytes[1])
<1> DEFINE Step(f) == [k \in 0 .. Len(bytes) |->
                         IF k = 0 THEN 0 ELSE S!Lengthened(f[k - 1], bytes[Len(bytes) + 1 - k])]
           n  == CHOOSE f : f = Step(f)
           n1 == S!Lengthened(0, bytes[2])
           n2 == S!Lengthened(n1, bytes[1])
           g  == [k \in 0 .. 2 |-> IF k = 0 THEN 0 ELSE IF k = 1 THEN n1 ELSE n2]
<1>1. S!Value(bytes) = n[Len(bytes)]
  BY DEF S!Value
<1>2. g = Step(g)
  <2>1. g[0] = 0 /\ g[1] = n1 /\ g[2] = n2 /\ g = [k \in 0 .. 2 |-> g[k]]
    <3> HIDE DEF n1, n2
    <3> QED
      OBVIOUS
  <2> HIDE DEF g
  <2>2. ASSUME NEW k \in 0 .. 2
        PROVE  g[k] = IF k = 0 THEN 0 ELSE S!Lengthened(g[k - 1], bytes[Len(bytes) + 1 - k])
    <3>1. k = 0 \/ k = 1 \/ k = 2
      OBVIOUS
    <3> QED
      BY <2>1, <3>1
  <2> QED
    BY <2>1, <2>2
<1>3. n = Step(n)
  <2> HIDE DEF g, Step
  <2> QED
    BY <1>2
<1> HIDE DEF n, n1, n2
<1>4. n[0] = 0 /\ n[1] = S!Lengthened(n[0], bytes[2]) /\ n[2] = S!Lengthened(n[1], bytes[1])
  BY <1>3
<1> QED
  BY <1>1, <1>4

\* Of a byte, and of two.
LEMMA ValueOfBytes ==
  ASSUME NEW bytes \in Seq(Byte)
  PROVE  /\ Len(bytes) = 1 => S!Value(bytes) = bytes[1]
         /\ Len(bytes) = 2 => S!Value(bytes) = 256 * bytes[2] + bytes[1]
<1>1. ASSUME NEW n \in Nat, n < 256, NEW b \in Byte PROVE S!Lengthened(n, b) = 256 * n + b
  <2>1. S!Largest \div 256 = 8388607
    BY DEF S!Largest
  <2> QED
    BY <1>1, <2>1 DEF S!Lengthened
<1>2. ASSUME NEW b \in Byte PROVE S!Lengthened(0, b) = b
  <2>1. S!Lengthened(0, b) = 256 * 0 + b
    BY <1>1
  <2> QED
    BY <2>1 DEF Byte
<1>3. CASE Len(bytes) = 1
  <2>1. bytes[1] \in Byte
    BY <1>3, ElementOfSeq
  <2> QED
    BY <1>2, <1>3, <2>1, ValueOne
<1>4. CASE Len(bytes) = 2
  <2>1. 1 \in 1 .. Len(bytes) /\ 2 \in 1 .. Len(bytes)
    BY <1>4
  <2>2. PICK low, high \in Byte : low = bytes[1] /\ high = bytes[2]
    BY <2>1, ElementOfSeq
  <2>3. S!Lengthened(0, high) = high
    BY <1>2
  <2>4. high \in Nat /\ high < 256
    BY DEF Byte
  <2>5. S!Lengthened(high, low) = 256 * high + low
    BY <1>1, <2>4
  <2> QED
    BY <1>4, <2>2, <2>3, <2>5, ValueTwo
<1> QED
  BY <1>3, <1>4

\* A part of a payload: bytes, as many as were asked for.
LEMMA PartOf ==
  ASSUME NEW payload \in Seq(Byte), NEW a \in Nat, NEW b \in Nat,
         1 <= a, a <= b, b <= Len(payload)
  PROVE  /\ SubSeq(payload, a, b) \in Seq(Byte) /\ Len(SubSeq(payload, a, b)) = b - a + 1
         /\ \A i \in 1 .. b - a + 1 : SubSeq(payload, a, b)[i] = payload[a + i - 1]
<1>1. Len(payload) \in Nat
  BY LenProperties
<1>2. \A i \in a .. b : payload[i] \in Byte
  BY <1>1, ElementOfSeq
<1> QED
  BY <1>2, SubSeqProperties

\* A time in a payload that is long enough: two bytes for the year, one for each of
\* the others.
LEMMA TimeInPayload ==
  ASSUME NEW payload \in Seq(Byte), Len(payload) >= 7
  PROVE  S!TimeIn(payload) =
           [k \in 1 .. 6 |-> IF k = 1 THEN 256 * payload[2] + payload[1] ELSE payload[k + 1]]
<1> DEFINE f1 == Append(<<>>, SubSeq(payload, 1, 2))
           f2 == Append(f1, SubSeq(payload, 3, 3))
           f3 == Append(f2, SubSeq(payload, 4, 4))
           f4 == Append(f3, SubSeq(payload, 5, 5))
           f5 == Append(f4, SubSeq(payload, 6, 6))
           f6 == Append(f5, SubSeq(payload, 7, 7))
<1>0. Len(payload) \in Nat
  BY LenProperties
<1>1. Start(payload) = Cursor(payload, 0, <<>>)
  <2>1. SubSeq(payload, 1, Len(payload)) = payload
    BY SubSeqFull
  <2>2. 0 + 1 = 1
    OBVIOUS
  <2>3. SubSeq(payload, 0 + 1, Len(payload)) = payload
    BY <2>1, <2>2
  <2> QED
    BY <2>3, Zenon DEF Start, Cursor
<1>2. S!Get(Cursor(payload, 0, <<>>), 2) = Cursor(payload, 2, f1)
  <2>1. PICK off, w \in Nat : off = 0 /\ w = 2
    OBVIOUS
  <2>2. off + w <= Len(payload) /\ off + 1 = 1 /\ off + w = 2
    BY <1>0, <2>1
  <2>3. S!Get(Cursor(payload, off, <<>>), w) =
          Cursor(payload, off + w, Append(<<>>, SubSeq(payload, off + 1, off + w)))
    BY <2>2, GetField
  <2> QED
    BY <2>1, <2>2, <2>3
<1> HIDE DEF f1
<1>3. S!Get(Cursor(payload, 2, f1), 1) = Cursor(payload, 3, f2)
  <2>1. S!Get(Cursor(payload, 2, f1), 1) =
          Cursor(payload, 2 + 1, Append(f1, SubSeq(payload, 2 + 1, 2 + 1)))
    BY <1>0, GetField
  <2> QED
    BY <2>1
<1> HIDE DEF f2
<1>4. S!Get(Cursor(payload, 3, f2), 1) = Cursor(payload, 4, f3)
  <2>1. S!Get(Cursor(payload, 3, f2), 1) =
          Cursor(payload, 3 + 1, Append(f2, SubSeq(payload, 3 + 1, 3 + 1)))
    BY <1>0, GetField
  <2> QED
    BY <2>1
<1> HIDE DEF f3
<1>5. S!Get(Cursor(payload, 4, f3), 1) = Cursor(payload, 5, f4)
  <2>1. S!Get(Cursor(payload, 4, f3), 1) =
          Cursor(payload, 4 + 1, Append(f3, SubSeq(payload, 4 + 1, 4 + 1)))
    BY <1>0, GetField
  <2> QED
    BY <2>1
<1> HIDE DEF f4
<1>6. S!Get(Cursor(payload, 5, f4), 1) = Cursor(payload, 6, f5)
  <2>1. S!Get(Cursor(payload, 5, f4), 1) =
          Cursor(payload, 5 + 1, Append(f4, SubSeq(payload, 5 + 1, 5 + 1)))
    BY <1>0, GetField
  <2> QED
    BY <2>1
<1> HIDE DEF f5
<1>7. S!Get(Cursor(payload, 6, f5), 1) = Cursor(payload, 7, f6)
  <2>1. S!Get(Cursor(payload, 6, f5), 1) =
          Cursor(payload, 6 + 1, Append(f5, SubSeq(payload, 6 + 1, 6 + 1)))
    BY <1>0, GetField
  <2> QED
    BY <2>1
<1> HIDE DEF f6
<1>8. S!Read(payload, <<2, 1, 1, 1, 1, 1>>) = Cursor(payload, 7, f6)
  BY <1>1, <1>2, <1>3, <1>4, <1>5, <1>6, <1>7, ReadSix
<1>9. S!Read(payload, <<2, 1, 1, 1, 1, 1>>).fields = f6
  BY <1>8 DEF Cursor
<1>10. /\ f6[1] = SubSeq(payload, 1, 2) /\ f6[2] = SubSeq(payload, 3, 3)
       /\ f6[3] = SubSeq(payload, 4, 4) /\ f6[4] = SubSeq(payload, 5, 5)
       /\ f6[5] = SubSeq(payload, 6, 6) /\ f6[6] = SubSeq(payload, 7, 7)
  BY DEF f1, f2, f3, f4, f5, f6
<1>11. S!Value(f6[1]) = 256 * payload[2] + payload[1]
  <2>1. PICK s : s = SubSeq(payload, 1, 2)
    OBVIOUS
  <2>2. s \in Seq(Byte) /\ Len(s) = 2 - 1 + 1 /\ \A i \in 1 .. 2 - 1 + 1 : s[i] = payload[1 + i - 1]
    BY <1>0, <2>1, PartOf
  <2>3. Len(s) = 2 /\ s[1] = payload[1] /\ s[2] = payload[2]
    BY <2>2
  <2> QED
    BY <1>10, <2>1, <2>2, <2>3, ValueOfBytes, ZenonT(60)
<1>12. ASSUME NEW j \in 3 .. 7 PROVE S!Value(SubSeq(payload, j, j)) = payload[j]
  <2>1. PICK s : s = SubSeq(payload, j, j)
    OBVIOUS
  <2>2. PICK a, b \in Nat : a = j /\ b = j
    OBVIOUS
  <2>3. s \in Seq(Byte) /\ Len(s) = 1 /\ s[1] = payload[j]
    <3>1. 1 <= a /\ a <= b /\ b <= Len(payload)
      BY <1>0, <2>2
    <3>2. /\ SubSeq(payload, a, b) \in Seq(Byte) /\ Len(SubSeq(payload, a, b)) = b - a + 1
          /\ \A i \in 1 .. b - a + 1 : SubSeq(payload, a, b)[i] = payload[a + i - 1]
      BY <3>1, PartOf
    <3>3. b - a + 1 = 1 /\ a + 1 - 1 = j /\ 1 \in 1 .. b - a + 1
      BY <2>2
    <3>4. SubSeq(payload, a, b)[1] = payload[a + 1 - 1]
      BY <3>2, <3>3, Zenon
    <3> QED
      BY <2>1, <2>2, <3>2, <3>3, <3>4, Zenon
  <2> QED
    BY <2>1, <2>3, ValueOfBytes
<1>13. ASSUME NEW k \in 1 .. 6
       PROVE  S!Value(f6[k]) = IF k = 1 THEN 256 * payload[2] + payload[1] ELSE payload[k + 1]
  <2>1. k = 1 \/ k = 2 \/ k = 3 \/ k = 4 \/ k = 5 \/ k = 6
    OBVIOUS
  <2>2. /\ S!Value(f6[2]) = payload[3] /\ S!Value(f6[3]) = payload[4]
        /\ S!Value(f6[4]) = payload[5] /\ S!Value(f6[5]) = payload[6]
        /\ S!Value(f6[6]) = payload[7]
    BY <1>10, <1>12
  <2> QED
    BY <1>11, <2>1, <2>2
<1>14. S!TimeIn(payload) = [k \in 1 .. 6 |-> S!Value(f6[k])]
  BY <1>9 DEF S!TimeIn
<1> QED
  BY <1>13, <1>14

-----------------------------------------------------------------------------
(* Bytes of numbers, there and back *)

\* A field of one, of two and of eight bytes.
IsOne(f, a)            == f \in Seq(Byte) /\ Len(f) = 1 /\ f[1] = a
IsTwo(f, a, b)         == f \in Seq(Byte) /\ Len(f) = 2 /\ f[1] = a /\ f[2] = b
IsEight(f, a, b, c, d) == /\ f \in Seq(Byte) /\ Len(f) = 8
                          /\ f[1] = a /\ f[2] = b /\ f[3] = c /\ f[4] = d
                          /\ f[5] = 0 /\ f[6] = 0 /\ f[7] = 0 /\ f[8] = 0

\* A byte, as a field.
LEMMA OneByte == ASSUME NEW n \in Byte PROVE IsOne(S!LE(n, 1), n)
<1>1. PICK f : f = S!LE(n, 1)
  OBVIOUS
<1>2. f = [k \in 1 .. 1 |-> IF k <= 4 THEN (n \div 256 ^ (k - 1)) % 256 ELSE 0]
  BY <1>1 DEF S!LE
<1>3. 256 ^ 0 = 1 /\ n \div 1 = n /\ n % 256 = n
  BY DEF Byte
<1>4. f[1] = n
  <2>1. 1 \in 1 .. 1 /\ 1 - 1 = 0 /\ 1 <= 4
    OBVIOUS
  <2>2. f[1] = (n \div 256 ^ (1 - 1)) % 256
    BY <1>2, <2>1
  <2> QED
    BY <1>3, <2>1, <2>2
<1>5. f = [k \in 1 .. 1 |-> f[k]]
  BY <1>2
<1>6. \A k \in 1 .. 1 : f[k] \in Byte
  BY <1>4
<1>7. f \in Seq(Byte) /\ Len(f) = 1
  BY <1>5, <1>6
<1> QED
  BY <1>1, <1>4, <1>7 DEF IsOne

\* A number of two bytes, as a field.
LEMMA TwoBytes ==
  ASSUME NEW n \in Nat, n \div 256 \in Byte
  PROVE  IsTwo(S!LE(n, 2), n % 256, n \div 256)
<1>1. PICK f : f = S!LE(n, 2)
  OBVIOUS
<1>2. f = [k \in 1 .. 2 |-> IF k <= 4 THEN (n \div 256 ^ (k - 1)) % 256 ELSE 0]
  BY <1>1 DEF S!LE
<1>3. 256 ^ 0 = 1 /\ 256 ^ 1 = 256
  OBVIOUS
<1>4. n \div 1 = n /\ (n \div 256) % 256 = n \div 256 /\ n \div 256 \in Byte /\ n % 256 \in Byte
  <2>1. PICK q \in Byte : q = n \div 256
    OBVIOUS
  <2>2. q % 256 = q /\ q \in Byte
    BY <2>1 DEF Byte
  <2>3. n % 256 \in Byte
    BY DEF Byte
  <2>4. n \div 1 = n
    OBVIOUS
  <2> QED
    BY <2>1, <2>2, <2>3, <2>4, Zenon
<1>5. f[1] = n % 256
  <2>1. 1 \in 1 .. 2 /\ 1 - 1 = 0 /\ 1 <= 4
    OBVIOUS
  <2>2. f[1] = (n \div 256 ^ (1 - 1)) % 256
    BY <1>2, <2>1
  <2> QED
    BY <1>3, <1>4, <2>1, <2>2
<1>6. f[2] = n \div 256
  <2>1. 2 \in 1 .. 2 /\ 2 - 1 = 1 /\ 2 <= 4
    OBVIOUS
  <2>2. f[2] = (n \div 256 ^ (2 - 1)) % 256
    BY <1>2, <2>1
  <2> QED
    BY <1>3, <1>4, <2>1, <2>2
<1>7. f = [k \in 1 .. 2 |-> f[k]]
  BY <1>2
<1>8. \A k \in 1 .. 2 : f[k] \in Byte
  <2>1. \A k \in 1 .. 2 : k = 1 \/ k = 2
    OBVIOUS
  <2> QED
    BY <1>4, <1>5, <1>6, <2>1
<1>9. f \in Seq(Byte) /\ Len(f) = 2
  BY <1>7, <1>8
<1> QED
  BY <1>1, <1>5, <1>6, <1>9 DEF IsTwo

\* The bytes c are those of b and a field of one byte behind them.
Behind(c, b, n) ==
  /\ c \in Seq(Byte) /\ Len(c) = Len(b) + 1
  /\ \A k \in 1 .. Len(b) : c[k] = b[k]
  /\ c[Len(b) + 1] = n

\* A byte that is put behind others.
LEMMA ByteBehind ==
  ASSUME NEW b \in Seq(Byte), NEW n \in Byte
  PROVE  Behind(b \o S!LE(n, 1), b, n)
<1>1. PICK f \in Seq(Byte) : f = S!LE(n, 1) /\ Len(f) = 1 /\ f[1] = n
  BY OneByte DEF IsOne
<1>2. PICK c : c = b \o f
  OBVIOUS
<1>3. /\ c \in Seq(Byte) /\ Len(c) = Len(b) + Len(f) /\ Len(b) \in Nat
      /\ \A i \in 1 .. Len(b) + Len(f) : c[i] = IF i <= Len(b) THEN b[i] ELSE f[i - Len(b)]
  BY <1>2, LenProperties, ConcatProperties
<1>4. Len(b) + 1 - Len(b) = 1
  BY <1>3
<1>5. /\ c \in Seq(Byte) /\ Len(c) = Len(b) + 1 /\ \A k \in 1 .. Len(b) : c[k] = b[k]
      /\ c[Len(b) + 1] = n
  <2>1. PICK l \in Nat : l = Len(b)
    BY <1>3
  <2>2. /\ c \in Seq(Byte) /\ Len(c) = l + 1
        /\ \A i \in 1 .. l + 1 : c[i] = IF i <= l THEN b[i] ELSE f[i - l]
    BY <1>1, <1>3, <2>1
  <2>3. \A k \in 1 .. l : c[k] = b[k]
    BY <2>2
  <2>4. l + 1 \in 1 .. l + 1 /\ ~ (l + 1 <= l) /\ l + 1 - l = 1
    OBVIOUS
  <2>5. c[l + 1] = f[1]
    BY <2>2, <2>4
  <2> QED
    BY <1>1, <2>1, <2>2, <2>3, <2>5
<1> QED
  BY <1>1, <1>2, <1>5, Zenon DEF Behind

\* A time, from the first byte of its year on.
TimeBytes(b, lo, hi, m, d, h, i, s) ==
  /\ b \in Seq(Byte) /\ Len(b) = 7
  /\ b[1] = lo /\ b[2] = hi /\ b[3] = m /\ b[4] = d /\ b[5] = h /\ b[6] = i /\ b[7] = s

\* The time in seven bytes.
LEMMA TimeFromBytes ==
  ASSUME NEW b, NEW y, NEW lo, NEW hi, 256 * hi + lo = y, NEW m, NEW d, NEW h, NEW i, NEW s,
         TimeBytes(b, lo, hi, m, d, h, i, s)
  PROVE  S!TimeIn(b) = <<y, m, d, h, i, s>>
<1>1. /\ b \in Seq(Byte) /\ Len(b) = 7
      /\ b[1] = lo /\ b[2] = hi /\ b[3] = m /\ b[4] = d /\ b[5] = h /\ b[6] = i /\ b[7] = s
  BY DEF TimeBytes
<1>2. Len(b) >= 7
  BY <1>1
<1>3. S!TimeIn(b) = [k \in 1 .. 6 |-> IF k = 1 THEN 256 * b[2] + b[1] ELSE b[k + 1]]
  BY <1>1, <1>2, TimeInPayload, Zenon
<1>4. S!TimeIn(b) = [k \in 1 .. 6 |-> IF k = 1 THEN y ELSE b[k + 1]]
  BY <1>1, <1>3, Zenon
<1>5. PICK t : t = S!TimeIn(b)
  OBVIOUS
<1>6. t[1] = y /\ t[2] = m /\ t[3] = d /\ t[4] = h /\ t[5] = i /\ t[6] = s
  BY <1>1, <1>4, <1>5
<1>7. t = [k \in 1 .. 6 |-> t[k]]
  BY <1>4, <1>5
<1> QED
  BY <1>5, <1>6, <1>7

\* A writer that has written so many bytes, with so much room left.
Writer(bytes, room) == [bytes |-> bytes, room |-> room, error |-> FALSE]

\* Six fields are written one behind the other: the recursion, unrolled; and one.
LEMMA WrittenSix ==
  ASSUME NEW room, NEW f1, NEW f2, NEW f3, NEW f4, NEW f5, NEW f6
  PROVE  S!Written(room, <<f1, f2, f3, f4, f5, f6>>) =
           S!Put(S!Put(S!Put(S!Put(S!Put(S!Put(Writer(<<>>, room), f1), f2), f3), f4), f5), f6)
<1> DEFINE fields == <<f1, f2, f3, f4, f5, f6>>
           Step(f) == [k \in 0 .. Len(fields) |->
                         IF k = 0 THEN Writer(<<>>, room) ELSE S!Put(f[k - 1], fields[k])]
           writer  == CHOOSE f : f = Step(f)
<1> DEFINE c0 == Writer(<<>>, room)
           c1 == S!Put(c0, f1)
           c2 == S!Put(c1, f2)
           c3 == S!Put(c2, f3)
           c4 == S!Put(c3, f4)
           c5 == S!Put(c4, f5)
           c6 == S!Put(c5, f6)
           g  == [k \in 0 .. 6 |-> IF k = 0 THEN c0 ELSE <<c1, c2, c3, c4, c5, c6>>[k]]
<1>1. S!Written(room, fields) = writer[Len(fields)]
  BY DEF S!Written, Writer
<1>2. /\ Len(fields) = 6 /\ fields[1] = f1 /\ fields[2] = f2 /\ fields[3] = f3
      /\ fields[4] = f4 /\ fields[5] = f5 /\ fields[6] = f6
  OBVIOUS
<1> HIDE DEF fields
<1>3. g = Step(g)
  <2>1. /\ g[0] = c0 /\ g[1] = c1 /\ g[2] = c2 /\ g[3] = c3 /\ g[4] = c4 /\ g[5] = c5 /\ g[6] = c6
        /\ g = [k \in 0 .. 6 |-> g[k]]
    <3> HIDE DEF c0, c1, c2, c3, c4, c5, c6
    <3> QED
      OBVIOUS
  <2> HIDE DEF g
  <2>2. ASSUME NEW k \in 0 .. 6
        PROVE  g[k] = IF k = 0 THEN Writer(<<>>, room) ELSE S!Put(g[k - 1], fields[k])
    <3>1. k = 0 \/ k = 1 \/ k = 2 \/ k = 3 \/ k = 4 \/ k = 5 \/ k = 6
      OBVIOUS
    <3> QED
      BY <1>2, <2>1, <3>1
  <2> QED
    BY <1>2, <2>1, <2>2
<1>4. writer = Step(writer)
  <2> HIDE DEF g, Step
  <2> QED
    BY <1>3
<1> HIDE DEF writer, c0, c1, c2, c3, c4, c5, c6
<1>5. /\ writer[0] = Writer(<<>>, room) /\ writer[1] = S!Put(writer[0], f1)
      /\ writer[2] = S!Put(writer[1], f2) /\ writer[3] = S!Put(writer[2], f3)
      /\ writer[4] = S!Put(writer[3], f4) /\ writer[5] = S!Put(writer[4], f5)
      /\ writer[6] = S!Put(writer[5], f6)
  BY <1>2, <1>4
<1> QED
  BY <1>1, <1>2, <1>5 DEF fields

\* A writer that is given one field.
LEMMA WrittenOne ==
  ASSUME NEW room, NEW field
  PROVE  S!Written(room, <<field>>) = S!Put(Writer(<<>>, room), field)
<1> DEFINE fields == <<field>>
           Step(f) == [k \in 0 .. Len(fields) |->
                         IF k = 0 THEN Writer(<<>>, room) ELSE S!Put(f[k - 1], fields[k])]
           writer  == CHOOSE f : f = Step(f)
           g       == [k \in 0 .. 1 |-> IF k = 0 THEN Writer(<<>>, room)
                                        ELSE S!Put(Writer(<<>>, room), field)]
<1>1. S!Written(room, fields) = writer[Len(fields)]
  BY DEF S!Written, Writer
<1>2. Len(fields) = 1 /\ fields[1] = field
  OBVIOUS
<1> HIDE DEF fields
<1>3. g = Step(g)
  BY <1>2
<1>4. writer = Step(writer)
  <2> HIDE DEF g, Step
  <2> QED
    BY <1>3
<1> HIDE DEF writer
<1>5. writer[0] = Writer(<<>>, room) /\ writer[1] = S!Put(writer[0], field)
  BY <1>2, <1>4
<1> QED
  BY <1>1, <1>2, <1>5 DEF fields

\* A field is written where there is room for it.
LEMMA FieldWritten ==
  ASSUME NEW bytes, NEW room \in Nat, NEW field, NEW w \in Nat, Len(field) = w, w <= room
  PROVE  S!Put(Writer(bytes, room), field) = Writer(bytes \o field, room - w)
<1>1. PICK c : c = bytes \o field
  OBVIOUS
<1>2. PICK r : r = room - w
  OBVIOUS
<1>3. PICK v, e : v = [bytes |-> bytes, room |-> room, error |-> e] /\ e = FALSE
  OBVIOUS
<1>4. v.room = room /\ v.bytes = bytes
  BY <1>3, Zenon
<1>5. S!Put(v, field) = [v EXCEPT !.bytes = c, !.room = r]
  <2>1. ~ (v.room < Len(field))
    BY <1>4
  <2>2. S!Put(v, field) = [v EXCEPT !.bytes = v.bytes \o field, !.room = v.room - Len(field)]
    BY <2>1, Zenon DEF S!Put
  <2> QED
    BY <1>1, <1>2, <1>4, <2>2, Zenon
<1>6. [v EXCEPT !.bytes = c, !.room = r] = [bytes |-> c, room |-> r, error |-> e]
  <2>1. PICK u : u = [v EXCEPT !.bytes = c]
    OBVIOUS
  <2>2. u = [bytes |-> c, room |-> room, error |-> e]
    BY <1>3, <2>1
  <2>3. [u EXCEPT !.room = r] = [bytes |-> c, room |-> r, error |-> e]
    BY <2>2
  <2>4. [v EXCEPT !.bytes = c, !.room = r] = [u EXCEPT !.room = r]
    BY <2>1
  <2> QED
    BY <2>3, <2>4
<1> QED
  BY <1>1, <1>2, <1>3, <1>5, <1>6, Zenon DEF Writer

\* The firmware writes a time field by field.
LEMMA TimeWritten ==
  ASSUME NEW y \in Nat, y \div 256 \in Byte, NEW m \in Byte, NEW d \in Byte, NEW h \in Byte, NEW i \in Byte,
         NEW s \in Byte, NEW lo, NEW hi, lo = y % 256, hi = y \div 256
  PROVE  LET writer == S!Written(16, <<S!LE(y, 2), S!LE(m, 1), S!LE(d, 1), S!LE(h, 1),
                                       S!LE(i, 1), S!LE(s, 1)>>)
         IN ~ writer.error /\ TimeBytes(writer.bytes, lo, hi, m, d, h, i, s)
<1>1. /\ S!LE(y, 2) \in Seq(Byte) /\ Len(S!LE(y, 2)) = 2
      /\ S!LE(y, 2)[1] = lo /\ S!LE(y, 2)[2] = hi
  <2>1. IsTwo(S!LE(y, 2), y % 256, y \div 256)
    BY TwoBytes
  <2>2. IsTwo(S!LE(y, 2), lo, hi)
    BY <2>1, Zenon
  <2> QED
    BY <2>2, Zenon DEF IsTwo
<1>2. ASSUME NEW n \in Byte PROVE Len(S!LE(n, 1)) = 1
  BY OneByte DEF IsOne
<1> DEFINE b0 == <<>>
           b1 == b0 \o S!LE(y, 2)
           b2 == b1 \o S!LE(m, 1)
           b3 == b2 \o S!LE(d, 1)
           b4 == b3 \o S!LE(h, 1)
           b5 == b4 \o S!LE(i, 1)
           b6 == b5 \o S!LE(s, 1)
<1>3. b1 \in Seq(Byte) /\ Len(b1) = 2 /\ b1[1] = lo /\ b1[2] = hi
  <2>1. b1 = S!LE(y, 2)
    BY <1>1, ConcatEmptySeq
  <2> HIDE DEF b1
  <2> QED
    BY <1>1, <2>1
<1>4. /\ S!Put(Writer(b0, 16), S!LE(y, 2)) = Writer(b1, 14)
      /\ S!Put(Writer(b1, 14), S!LE(m, 1)) = Writer(b2, 13)
      /\ S!Put(Writer(b2, 13), S!LE(d, 1)) = Writer(b3, 12)
      /\ S!Put(Writer(b3, 12), S!LE(h, 1)) = Writer(b4, 11)
      /\ S!Put(Writer(b4, 11), S!LE(i, 1)) = Writer(b5, 10)
      /\ S!Put(Writer(b5, 10), S!LE(s, 1)) = Writer(b6, 9)
  <2>1. S!Put(Writer(b0, 16), S!LE(y, 2)) = Writer(b1, 14)
    <3>1. PICK room, w \in Nat : room = 16 /\ w = 2
      OBVIOUS
    <3>2. Len(S!LE(y, 2)) = w /\ w <= room
      BY <1>1, <3>1
    <3>3. S!Put(Writer(b0, room), S!LE(y, 2)) = Writer(b0 \o S!LE(y, 2), room - w)
      <4>1. PICK b, f : b = b0 /\ f = S!LE(y, 2)
        OBVIOUS
      <4>3. Len(f) = w /\ w <= room
        BY <3>2, <4>1
      <4>2. S!Put(Writer(b, room), f) = Writer(b \o f, room - w)
        BY <4>3, FieldWritten
      <4> QED
        BY <4>1, <4>2, Zenon
    <3>4. room - w = 14
      BY <3>1
    <3> QED
      BY <3>1, <3>3, <3>4
  <2>2. ASSUME NEW b, NEW n \in Byte, NEW r \in Nat \ {0}
        PROVE  S!Put(Writer(b, r), S!LE(n, 1)) = Writer(b \o S!LE(n, 1), r - 1)
    <3>1. PICK w \in Nat : w = 1
      OBVIOUS
    <3>2. Len(S!LE(n, 1)) = w /\ w <= r /\ r \in Nat
      BY <1>2, <3>1
    <3>3. S!Put(Writer(b, r), S!LE(n, 1)) = Writer(b \o S!LE(n, 1), r - w)
      BY <3>2, FieldWritten
    <3> QED
      BY <3>1, <3>3
  <2> HIDE DEF b1
  <2>3. S!Put(Writer(b1, 14), S!LE(m, 1)) = Writer(b2, 14 - 1)
    BY <2>2
  <2> HIDE DEF b2
  <2>4. S!Put(Writer(b2, 13), S!LE(d, 1)) = Writer(b3, 13 - 1)
    BY <2>2
  <2> HIDE DEF b3
  <2>5. S!Put(Writer(b3, 12), S!LE(h, 1)) = Writer(b4, 12 - 1)
    BY <2>2
  <2> HIDE DEF b4
  <2>6. S!Put(Writer(b4, 11), S!LE(i, 1)) = Writer(b5, 11 - 1)
    BY <2>2
  <2> HIDE DEF b5
  <2>7. S!Put(Writer(b5, 10), S!LE(s, 1)) = Writer(b6, 10 - 1)
    BY <2>2
  <2> HIDE DEF b6
  <2>8. 14 - 1 = 13 /\ 13 - 1 = 12 /\ 12 - 1 = 11 /\ 11 - 1 = 10 /\ 10 - 1 = 9
    OBVIOUS
  <2> QED
    BY <2>1, <2>3, <2>4, <2>5, <2>6, <2>7, <2>8
<1> DEFINE writer == S!Written(16, <<S!LE(y, 2), S!LE(m, 1), S!LE(d, 1), S!LE(h, 1),
                                       S!LE(i, 1), S!LE(s, 1)>>)
<1>5. writer = Writer(b6, 9)
  <2>1. writer = S!Put(S!Put(S!Put(S!Put(S!Put(S!Put(Writer(<<>>, 16), S!LE(y, 2)),
                   S!LE(m, 1)), S!LE(d, 1)), S!LE(h, 1)), S!LE(i, 1)), S!LE(s, 1))
    BY WrittenSix
  <2> HIDE DEF b1, b2, b3, b4, b5, b6, writer
  <2> QED
    BY <1>4, <2>1
<1>12. ~ writer.error /\ writer.bytes = b6
  <2> HIDE DEF b6, writer
  <2> QED
    BY <1>5 DEF Writer
<1> HIDE DEF writer
<1> HIDE DEF b1
<1>6. b2 \in Seq(Byte) /\ Len(b2) = 3 /\ b2[1] = b1[1] /\ b2[2] = b1[2] /\ b2[3] = m
  <2>1. Behind(b2, b1, m)
    BY <1>3, ByteBehind
  <2> HIDE DEF b2
  <2> QED
    BY <1>3, <2>1 DEF Behind
<1> HIDE DEF b2
<1>7. b3 \in Seq(Byte) /\ Len(b3) = 4 /\ b3[4] = d /\ \A k \in 1 .. 3 : b3[k] = b2[k]
  <2>1. Behind(b3, b2, d)
    BY <1>6, ByteBehind
  <2> HIDE DEF b3
  <2> QED
    BY <1>6, <2>1 DEF Behind
<1> HIDE DEF b3
<1>8. b4 \in Seq(Byte) /\ Len(b4) = 5 /\ b4[5] = h /\ \A k \in 1 .. 4 : b4[k] = b3[k]
  <2>1. Behind(b4, b3, h)
    BY <1>7, ByteBehind
  <2> HIDE DEF b4
  <2> QED
    BY <1>7, <2>1 DEF Behind
<1> HIDE DEF b4
<1>9. b5 \in Seq(Byte) /\ Len(b5) = 6 /\ b5[6] = i /\ \A k \in 1 .. 5 : b5[k] = b4[k]
  <2>1. Behind(b5, b4, i)
    BY <1>8, ByteBehind
  <2> HIDE DEF b5
  <2> QED
    BY <1>8, <2>1 DEF Behind
<1> HIDE DEF b5
<1>10. b6 \in Seq(Byte) /\ Len(b6) = 7 /\ b6[7] = s /\ \A k \in 1 .. 6 : b6[k] = b5[k]
  <2>1. Behind(b6, b5, s)
    BY <1>9, ByteBehind
  <2> HIDE DEF b6
  <2> QED
    BY <1>9, <2>1 DEF Behind
<1> HIDE DEF b6
<1>11. TimeBytes(b6, lo, hi, m, d, h, i, s)
  BY <1>3, <1>6, <1>7, <1>8, <1>9, <1>10 DEF TimeBytes
<1> QED
  BY <1>11, <1>12 DEF writer

\* The host writes the year and takes the other fields as they are.
LEMMA TimeSent ==
  ASSUME NEW t \in Seq(Nat), Len(t) = 6, t[1] \div 256 \in Byte,
         \A k \in 2 .. 6 : t[k] \in Byte
  PROVE  LET p == S!LE(t[1], 2) \o SubSeq(t, 2, 6)
         IN p \in Seq(Byte) /\ Len(p) = 7 /\ S!TimeIn(p) = t
<1>1. \A k \in 1 .. 6 : t[k] \in Nat
  BY ElementOfSeq
<1>2. \A k \in 2 .. 6 : t[k] \in Byte
  OBVIOUS
<1>3. PICK r : r = SubSeq(t, 2, 6)
  OBVIOUS
<1>4. /\ r \in Seq(Byte) /\ Len(r) = 5 /\ r[1] = t[2] /\ r[2] = t[3] /\ r[3] = t[4]
      /\ r[4] = t[5] /\ r[5] = t[6]
  <2>1. /\ SubSeq(t, 2, 6) \in Seq(Byte)
        /\ Len(SubSeq(t, 2, 6)) = IF 2 <= 6 THEN 6 - 2 + 1 ELSE 0
        /\ \A j \in 1 .. 6 - 2 + 1 : SubSeq(t, 2, 6)[j] = t[2 + j - 1]
    BY <1>2, SubSeqProperties
  <2> QED
    BY <1>3, <2>1
<1>5. PICK lo, hi : lo = t[1] % 256 /\ hi = t[1] \div 256
  OBVIOUS
<1>15. PICK f : f = S!LE(t[1], 2)
  OBVIOUS
<1>11. f \in Seq(Byte) /\ Len(f) = 2 /\ f[1] = lo /\ f[2] = hi
  <2>1. IsTwo(S!LE(t[1], 2), t[1] % 256, t[1] \div 256)
    BY <1>1, TwoBytes
  <2>2. IsTwo(f, lo, hi)
    BY <1>5, <1>15, <2>1, Zenon
  <2> QED
    BY <2>2 DEF IsTwo
<1>12. 256 * hi + lo = t[1]
  <2>1. PICK n \in Nat : n = t[1]
    BY <1>1
  <2>2. 256 * (n \div 256) + (n % 256) = n
    OBVIOUS
  <2> QED
    BY <1>5, <2>1, <2>2
<1>6. PICK p : p = f \o r
  OBVIOUS
<1>7. /\ p \in Seq(Byte) /\ Len(p) = 2 + 5
      /\ \A j \in 1 .. 2 + 5 : p[j] = IF j <= 2 THEN f[j] ELSE r[j - 2]
  <2>1. /\ f \o r \in Seq(Byte) /\ Len(f \o r) = Len(f) + Len(r)
        /\ \A j \in 1 .. Len(f) + Len(r) :
             (f \o r)[j] = IF j <= Len(f) THEN f[j] ELSE r[j - Len(f)]
    BY <1>4, <1>11, ConcatProperties
  <2> QED
    BY <1>4, <1>11, <1>6, <2>1
<1>8. TimeBytes(p, lo, hi, t[2], t[3], t[4], t[5], t[6])
  BY <1>4, <1>11, <1>7 DEF TimeBytes
<1>9. S!TimeIn(p) = <<t[1], t[2], t[3], t[4], t[5], t[6]>>
  BY <1>8, <1>12, TimeFromBytes
<1>10. t = <<t[1], t[2], t[3], t[4], t[5], t[6]>>
  OBVIOUS
<1>13. p \in Seq(Byte) /\ Len(p) = 7 /\ S!TimeIn(p) = t
  <2>1. S!TimeIn(p) = t
    BY <1>9, <1>10, Zenon
  <2> QED
    BY <1>7, <2>1
<1>14. p = S!LE(t[1], 2) \o SubSeq(t, 2, 6)
  BY <1>3, <1>15, <1>6, Zenon
<1> QED
  BY <1>13, <1>14, Zenon

\* The digits of a number, one from the other.
LEMMA Digits ==
  ASSUME NEW n \in Nat
  PROVE  /\ n \div 256 ^ 0 = n /\ n \div 256 ^ 1 = n \div 256
         /\ n \div 256 ^ 2 = (n \div 256) \div 256
         /\ n \div 256 ^ 3 = ((n \div 256) \div 256) \div 256
<1>1. 256 ^ 0 = 1 /\ 256 ^ 1 = 256 /\ 256 ^ 2 = 65536 /\ 256 ^ 3 = 16777216
  BY SMT
<1>2. n \div 1 = n /\ n \div 65536 = (n \div 256) \div 256
  BY SMT
<1>3. n \div 16777216 = ((n \div 256) \div 256) \div 256
  BY SMT
<1> QED
  BY <1>1, <1>2, <1>3, SMT

\* What is left of a number without its lowest one, two and three bytes.
Shifted(n, q1, q2, q3) == q1 = n \div 256 /\ q2 = q1 \div 256 /\ q3 = q2 \div 256

\* A number of up to four bytes, as a field of eight.
LEMMA EightBytes ==
  ASSUME NEW n \in Nat, NEW q1 \in Nat, NEW q2 \in Nat, NEW q3 \in Nat,
         Shifted(n, q1, q2, q3)
  PROVE  IsEight(S!LE(n, 8), n % 256, q1 % 256, q2 % 256, q3 % 256)
<1>1. PICK f : f = S!LE(n, 8)
  OBVIOUS
<1>2. f = [k \in 1 .. 8 |-> IF k <= 4 THEN (n \div 256 ^ (k - 1)) % 256 ELSE 0]
  BY <1>1 DEF S!LE
<1>3. /\ n \div 256 ^ 0 = n /\ n \div 256 ^ 1 = q1 /\ n \div 256 ^ 2 = q2
      /\ n \div 256 ^ 3 = q3
  BY Digits DEF Shifted
<1>4. \A k \in 1 .. 4 : f[k] = (n \div 256 ^ (k - 1)) % 256
  BY <1>2
<1>5. \A k \in 5 .. 8 : f[k] = 0
  BY <1>2
<1>6. f[1] = n % 256 /\ f[2] = q1 % 256 /\ f[3] = q2 % 256 /\ f[4] = q3 % 256
  <2>1. 1 - 1 = 0 /\ 2 - 1 = 1 /\ 3 - 1 = 2 /\ 4 - 1 = 3
    OBVIOUS
  <2>2. f[1] = (n \div 256 ^ (1 - 1)) % 256
    BY <1>4
  <2>3. f[2] = (n \div 256 ^ (2 - 1)) % 256
    BY <1>4
  <2>4. f[3] = (n \div 256 ^ (3 - 1)) % 256
    BY <1>4
  <2>5. f[4] = (n \div 256 ^ (4 - 1)) % 256
    BY <1>4
  <2> QED
    BY <1>3, <2>1, <2>2, <2>3, <2>4, <2>5
<1>7. f[5] = 0 /\ f[6] = 0 /\ f[7] = 0 /\ f[8] = 0
  BY <1>5
<1>8. \A k \in 1 .. 8 : f[k] \in Byte
  <2>1. \A k \in 1 .. 8 : k = 1 \/ k = 2 \/ k = 3 \/ k = 4 \/ k \in 5 .. 8
    OBVIOUS
  <2>2. 0 \in Byte
    BY DEF Byte
  <2>3. ASSUME NEW m \in Nat PROVE m % 256 \in Byte
    BY DEF Byte
  <2>4. f[1] \in Byte /\ f[2] \in Byte /\ f[3] \in Byte /\ f[4] \in Byte
    BY <1>6, <2>3
  <2> QED
    BY <1>5, <2>1, <2>2, <2>4
<1>9. f = [k \in 1 .. 8 |-> f[k]]
  BY <1>2
<1>10. f \in Seq(Byte) /\ Len(f) = 8
  BY <1>8, <1>9
<1>11. IsEight(f, n % 256, q1 % 256, q2 % 256, q3 % 256)
  BY <1>6, <1>7, <1>10 DEF IsEight
<1> QED
  BY <1>1, <1>11, Zenon

\* The number in eight bytes: the recursion, unrolled.
LEMMA ValueEight ==
  ASSUME NEW bytes, Len(bytes) = 8
  PROVE  S!Value(bytes) =
           S!Lengthened(S!Lengthened(S!Lengthened(S!Lengthened(S!Lengthened(S!Lengthened(
             S!Lengthened(S!Lengthened(0, bytes[8]), bytes[7]), bytes[6]), bytes[5]), bytes[4]),
             bytes[3]), bytes[2]), bytes[1])
<1> DEFINE Step(f) == [k \in 0 .. Len(bytes) |->
                         IF k = 0 THEN 0 ELSE S!Lengthened(f[k - 1], bytes[Len(bytes) + 1 - k])]
           n  == CHOOSE f : f = Step(f)
           n1 == S!Lengthened(0, bytes[8])
           n2 == S!Lengthened(n1, bytes[7])
           n3 == S!Lengthened(n2, bytes[6])
           n4 == S!Lengthened(n3, bytes[5])
           n5 == S!Lengthened(n4, bytes[4])
           n6 == S!Lengthened(n5, bytes[3])
           n7 == S!Lengthened(n6, bytes[2])
           n8 == S!Lengthened(n7, bytes[1])
           g  == [k \in 0 .. 8 |-> IF k = 0 THEN 0 ELSE <<n1, n2, n3, n4, n5, n6, n7, n8>>[k]]
<1>1. S!Value(bytes) = n[Len(bytes)]
  BY DEF S!Value
<1>2. g = Step(g)
  <2>1. /\ g[0] = 0 /\ g[1] = n1 /\ g[2] = n2 /\ g[3] = n3 /\ g[4] = n4 /\ g[5] = n5 /\ g[6] = n6
        /\ g[7] = n7 /\ g[8] = n8 /\ g = [k \in 0 .. 8 |-> g[k]]
    <3> HIDE DEF n1, n2, n3, n4, n5, n6, n7, n8
    <3> QED
      OBVIOUS
  <2> HIDE DEF g
  <2>2. ASSUME NEW k \in 0 .. 8
        PROVE  g[k] = IF k = 0 THEN 0 ELSE S!Lengthened(g[k - 1], bytes[Len(bytes) + 1 - k])
    <3>1. k = 0 \/ k = 1 \/ k = 2 \/ k = 3 \/ k = 4 \/ k = 5 \/ k = 6 \/ k = 7 \/ k = 8
      OBVIOUS
    <3>2. /\ g[1] = S!Lengthened(g[0], bytes[8]) /\ g[2] = S!Lengthened(g[1], bytes[7])
          /\ g[3] = S!Lengthened(g[2], bytes[6]) /\ g[4] = S!Lengthened(g[3], bytes[5])
          /\ g[5] = S!Lengthened(g[4], bytes[4]) /\ g[6] = S!Lengthened(g[5], bytes[3])
          /\ g[7] = S!Lengthened(g[6], bytes[2]) /\ g[8] = S!Lengthened(g[7], bytes[1])
      BY <2>1, Zenon
    <3> QED
      BY <2>1, <3>1, <3>2
  <2> QED
    BY <2>1, <2>2
<1>3. n = Step(n)
  <2> HIDE DEF g, Step
  <2> QED
    BY <1>2
<1> HIDE DEF n, n1, n2, n3, n4, n5, n6, n7, n8
<1>4. /\ n[0] = 0 /\ n[1] = S!Lengthened(n[0], bytes[8]) /\ n[2] = S!Lengthened(n[1], bytes[7])
      /\ n[3] = S!Lengthened(n[2], bytes[6]) /\ n[4] = S!Lengthened(n[3], bytes[5])
      /\ n[5] = S!Lengthened(n[4], bytes[4]) /\ n[6] = S!Lengthened(n[5], bytes[3])
      /\ n[7] = S!Lengthened(n[6], bytes[2]) /\ n[8] = S!Lengthened(n[7], bytes[1])
  BY <1>3
<1> QED
  BY <1>1, <1>4, Zenon

\* A frequency in the band, and its bytes.
Freq == {n \in Nat : S!BandMin <= n /\ n <= S!BandMax}

\* A frequency of the band goes through its bytes and back.
LEMMA FreqBytes ==
  ASSUME NEW n \in Freq
  PROVE  S!LE(n, 8) \in Seq(Byte) /\ Len(S!LE(n, 8)) = 8 /\ S!Value(S!LE(n, 8)) = n
<1>1. n \in Nat /\ n <= S!BandMax
  BY DEF Freq
<1>2. PICK q1 \in Nat : q1 = n \div 256
  BY <1>1
<1>3. PICK q2 \in Nat : q2 = q1 \div 256
  BY <1>2
<1>4. PICK q3 \in Nat : q3 = q2 \div 256
  BY <1>3
<1>5. /\ 256 * q1 + (n % 256) = n /\ 256 * q2 + (q1 % 256) = q1 /\ 256 * q3 + (q2 % 256) = q2
  BY <1>1, <1>2, <1>3, <1>4
<1>6. n < 256 * 256 * 256 * 64
  BY <1>1, SMT DEF S!BandMax
<1>7. q1 < 256 * 256 * 64 /\ q2 < 256 * 64 /\ q3 < 64
  BY <1>1, <1>2, <1>3, <1>4, <1>6, SMT
<1>8. q3 % 256 = q3
  BY <1>7
<1>9. IsEight(S!LE(n, 8), n % 256, q1 % 256, q2 % 256, q3)
  <2>1. IsEight(S!LE(n, 8), n % 256, q1 % 256, q2 % 256, q3 % 256)
    <3>1. Shifted(n, q1, q2, q3)
      BY <1>2, <1>3, <1>4 DEF Shifted
    <3> QED
      BY <1>1, <3>1, EightBytes
  <2> QED
    BY <1>8, <2>1, Zenon
<1>10. PICK f : f = S!LE(n, 8)
  OBVIOUS
<1>11. /\ f \in Seq(Byte) /\ Len(f) = 8
       /\ f[1] = n % 256 /\ f[2] = q1 % 256 /\ f[3] = q2 % 256 /\ f[4] = q3
       /\ f[5] = 0 /\ f[6] = 0 /\ f[7] = 0 /\ f[8] = 0
  BY <1>9, <1>10, Zenon DEF IsEight
<1>12. ASSUME NEW m \in Nat, m < 256 * 256 * 64, NEW b \in Nat
       PROVE  S!Lengthened(m, b) = 256 * m + b
  BY <1>12, SMT DEF S!Lengthened, S!Largest
<1>13. S!Lengthened(0, 0) = 0
  <2>1. 0 < 256 * 256 * 64
    OBVIOUS
  <2>2. S!Lengthened(0, 0) = 256 * 0 + 0
    BY <1>12, <2>1
  <2> QED
    BY <2>2
<1>14. S!Lengthened(0, q3) = q3
  <2>1. 0 < 256 * 256 * 64
    OBVIOUS
  <2>2. S!Lengthened(0, q3) = 256 * 0 + q3
    BY <1>12, <2>1
  <2> QED
    BY <2>2
<1>15. S!Lengthened(q3, q2 % 256) = q2
  <2>1. q3 < 256 * 256 * 64 /\ q2 % 256 \in Nat
    BY <1>7
  <2>2. S!Lengthened(q3, q2 % 256) = 256 * q3 + (q2 % 256)
    BY <1>12, <2>1
  <2> QED
    BY <1>5, <2>2
<1>16. S!Lengthened(q2, q1 % 256) = q1
  <2>1. q2 < 256 * 256 * 64 /\ q1 % 256 \in Nat
    BY <1>7
  <2>2. S!Lengthened(q2, q1 % 256) = 256 * q2 + (q1 % 256)
    BY <1>12, <2>1
  <2> QED
    BY <1>5, <2>2
<1>17. S!Lengthened(q1, n % 256) = n
  <2>1. q1 < 256 * 256 * 64 /\ n % 256 \in Nat
    BY <1>1, <1>7
  <2>2. S!Lengthened(q1, n % 256) = 256 * q1 + (n % 256)
    BY <1>12, <2>1
  <2> QED
    BY <1>5, <2>2
<1>18. S!Value(f) = n
  BY <1>11, <1>13, <1>14, <1>15, <1>16, <1>17, ValueEight
<1> QED
  BY <1>10, <1>11, <1>18, Zenon

\* The base frequency there and back: what is in the first eight bytes.
LEMMA FreqSent ==
  ASSUME NEW n \in Freq
  PROVE  /\ S!clamp_frequency(n) = n
         /\ SubSeq(S!LE(n, 8), 1, 8) = S!LE(n, 8)
<1>1. S!clamp_frequency(n) = n
  BY SMT DEF Freq, S!clamp_frequency, S!BandMin, S!BandMax
<1>2. PICK f : f = S!LE(n, 8)
  OBVIOUS
<1>3. f \in Seq(Byte) /\ Len(f) = 8
  BY <1>2, FreqBytes
<1>4. SubSeq(f, 1, Len(f)) = f
  BY <1>3, SubSeqFull
<1> QED
  BY <1>1, <1>2, <1>3, <1>4

\* A writer with room for eight bytes takes it.
LEMMA FreqWritten ==
  ASSUME NEW n \in Freq
  PROVE  LET writer == S!Written(8, <<S!LE(n, 8)>>)
         IN ~ writer.error /\ writer.bytes = S!LE(n, 8)
<1>1. PICK f : f = S!LE(n, 8)
  OBVIOUS
<1>2. f \in Seq(Byte) /\ Len(f) = 8
  BY <1>1, FreqBytes
<1>3. PICK room \in Nat : room = 8
  OBVIOUS
<1>4. S!Put(Writer(<<>>, room), f) = Writer(<<>> \o f, room - room)
  <2>1. PICK b : b = <<>>
    OBVIOUS
  <2>2. Len(f) = room /\ room <= room
    BY <1>2, <1>3
  <2>3. S!Put(Writer(b, room), f) = Writer(b \o f, room - room)
    BY <2>2, FieldWritten
  <2> QED
    BY <2>1, <2>3
<1>5. <<>> \o f = f
  BY <1>2, ConcatEmptySeq
<1>6. PICK w : w = S!Written(8, <<f>>)
  OBVIOUS
<1>7. w = Writer(f, room - room)
  BY <1>3, <1>4, <1>5, <1>6, WrittenOne
<1>8. ~ w.error /\ w.bytes = f
  BY <1>7 DEF Writer
<1> QED
  BY <1>1, <1>6, <1>8, Zenon

-----------------------------------------------------------------------------
(* The length of a signal: four bytes, times a thousand, and divided by it *)

\* The product of four bytes: the recursion, unrolled.
LEMMA ThousandfoldFour ==
  ASSUME NEW bytes, Len(bytes) = 4
  PROVE  S!Thousandfold(bytes) =
           S!ThousandfoldOn(S!ThousandfoldOn(S!ThousandfoldOn(S!ThousandfoldOn(
             [bytes |-> <<>>, carry |-> 0], bytes[1]), bytes[2]), bytes[3]), bytes[4]).bytes
<1> DEFINE Step(f) == [k \in 0 .. Len(bytes) |->
                         IF k = 0 THEN [bytes |-> <<>>, carry |-> 0]
                         ELSE S!ThousandfoldOn(f[k - 1], bytes[k])]
           acc == CHOOSE f : f = Step(f)
           a0  == [bytes |-> <<>>, carry |-> 0]
           a1  == S!ThousandfoldOn(a0, bytes[1])
           a2  == S!ThousandfoldOn(a1, bytes[2])
           a3  == S!ThousandfoldOn(a2, bytes[3])
           a4  == S!ThousandfoldOn(a3, bytes[4])
           g   == [k \in 0 .. 4 |-> IF k = 0 THEN a0 ELSE <<a1, a2, a3, a4>>[k]]
<1>1. S!Thousandfold(bytes) = acc[Len(bytes)].bytes
  BY DEF S!Thousandfold
<1>2. g = Step(g)
  <2>1. g[0] = a0 /\ g[1] = a1 /\ g[2] = a2 /\ g[3] = a3 /\ g[4] = a4 /\ g = [k \in 0 .. 4 |-> g[k]]
    <3> HIDE DEF a0, a1, a2, a3, a4
    <3> QED
      OBVIOUS
  <2> HIDE DEF g
  <2>2. ASSUME NEW k \in 0 .. 4
        PROVE  g[k] = IF k = 0 THEN a0 ELSE S!ThousandfoldOn(g[k - 1], bytes[k])
    <3>1. k = 0 \/ k = 1 \/ k = 2 \/ k = 3 \/ k = 4
      OBVIOUS
    <3>2. /\ g[1] = S!ThousandfoldOn(g[0], bytes[1]) /\ g[2] = S!ThousandfoldOn(g[1], bytes[2])
          /\ g[3] = S!ThousandfoldOn(g[2], bytes[3]) /\ g[4] = S!ThousandfoldOn(g[3], bytes[4])
      BY <2>1, Zenon
    <3> HIDE DEF a0
    <3> QED
      BY <2>1, <3>1, <3>2
  <2> QED
    BY <2>1, <2>2
<1>3. acc = Step(acc)
  <2> HIDE DEF g, Step
  <2> QED
    BY <1>2
<1> HIDE DEF acc
<1>4. /\ acc[0] = a0 /\ acc[1] = S!ThousandfoldOn(acc[0], bytes[1])
      /\ acc[2] = S!ThousandfoldOn(acc[1], bytes[2]) /\ acc[3] = S!ThousandfoldOn(acc[2], bytes[3])
      /\ acc[4] = S!ThousandfoldOn(acc[3], bytes[4])
  BY <1>3
<1> QED
  BY <1>1, <1>4, Zenon

\* The quotient,
LEMMA DividedFour ==
  ASSUME NEW bytes, Len(bytes) = 4, NEW by
  PROVE  S!Divided(bytes, by) =
           S!DividedOn(S!DividedOn(S!DividedOn(S!DividedOn(
             [quotient |-> <<>>, rest |-> 0], bytes[1], by), bytes[2], by), bytes[3], by), bytes[4], by)
<1> DEFINE Step(f) == [k \in 0 .. Len(bytes) |->
                         IF k = 0 THEN [quotient |-> <<>>, rest |-> 0]
                         ELSE S!DividedOn(f[k - 1], bytes[k], by)]
           acc == CHOOSE f : f = Step(f)
           a0  == [quotient |-> <<>>, rest |-> 0]
           a1  == S!DividedOn(a0, bytes[1], by)
           a2  == S!DividedOn(a1, bytes[2], by)
           a3  == S!DividedOn(a2, bytes[3], by)
           a4  == S!DividedOn(a3, bytes[4], by)
           g   == [k \in 0 .. 4 |-> IF k = 0 THEN a0 ELSE <<a1, a2, a3, a4>>[k]]
<1>1. S!Divided(bytes, by) = acc[Len(bytes)]
  BY DEF S!Divided
<1>2. g = Step(g)
  <2>1. g[0] = a0 /\ g[1] = a1 /\ g[2] = a2 /\ g[3] = a3 /\ g[4] = a4 /\ g = [k \in 0 .. 4 |-> g[k]]
    <3> HIDE DEF a0, a1, a2, a3, a4
    <3> QED
      OBVIOUS
  <2> HIDE DEF g
  <2>2. ASSUME NEW k \in 0 .. 4
        PROVE  g[k] = IF k = 0 THEN a0 ELSE S!DividedOn(g[k - 1], bytes[k], by)
    <3>1. k = 0 \/ k = 1 \/ k = 2 \/ k = 3 \/ k = 4
      OBVIOUS
    <3>2. /\ g[1] = S!DividedOn(g[0], bytes[1], by) /\ g[2] = S!DividedOn(g[1], bytes[2], by)
          /\ g[3] = S!DividedOn(g[2], bytes[3], by) /\ g[4] = S!DividedOn(g[3], bytes[4], by)
      BY <2>1, Zenon
    <3> HIDE DEF a0
    <3> QED
      BY <2>1, <3>1, <3>2
  <2> QED
    BY <2>1, <2>2
<1>3. acc = Step(acc)
  <2> HIDE DEF g, Step
  <2> QED
    BY <1>2
<1> HIDE DEF acc
<1>4. /\ acc[0] = a0 /\ acc[1] = S!DividedOn(acc[0], bytes[1], by)
      /\ acc[2] = S!DividedOn(acc[1], bytes[2], by) /\ acc[3] = S!DividedOn(acc[2], bytes[3], by)
      /\ acc[4] = S!DividedOn(acc[3], bytes[4], by)
  BY <1>3
<1> QED
  BY <1>1, <1>4, Zenon

\* and the number.
LEMMA ValueFour ==
  ASSUME NEW bytes, Len(bytes) = 4
  PROVE  S!Value(bytes) =
           S!Lengthened(S!Lengthened(S!Lengthened(S!Lengthened(0, bytes[4]), bytes[3]), bytes[2]), bytes[1])
<1> DEFINE Step(f) == [k \in 0 .. Len(bytes) |->
                         IF k = 0 THEN 0 ELSE S!Lengthened(f[k - 1], bytes[Len(bytes) + 1 - k])]
           n  == CHOOSE f : f = Step(f)
           n1 == S!Lengthened(0, bytes[4])
           n2 == S!Lengthened(n1, bytes[3])
           n3 == S!Lengthened(n2, bytes[2])
           n4 == S!Lengthened(n3, bytes[1])
           g  == [k \in 0 .. 4 |-> IF k = 0 THEN 0 ELSE <<n1, n2, n3, n4>>[k]]
<1>1. S!Value(bytes) = n[Len(bytes)]
  BY DEF S!Value
<1>2. g = Step(g)
  <2>1. g[0] = 0 /\ g[1] = n1 /\ g[2] = n2 /\ g[3] = n3 /\ g[4] = n4 /\ g = [k \in 0 .. 4 |-> g[k]]
    <3> HIDE DEF n1, n2, n3, n4
    <3> QED
      OBVIOUS
  <2> HIDE DEF g
  <2>2. ASSUME NEW k \in 0 .. 4
        PROVE  g[k] = IF k = 0 THEN 0 ELSE S!Lengthened(g[k - 1], bytes[Len(bytes) + 1 - k])
    <3>1. k = 0 \/ k = 1 \/ k = 2 \/ k = 3 \/ k = 4
      OBVIOUS
    <3>2. /\ g[1] = S!Lengthened(g[0], bytes[4]) /\ g[2] = S!Lengthened(g[1], bytes[3])
          /\ g[3] = S!Lengthened(g[2], bytes[2]) /\ g[4] = S!Lengthened(g[3], bytes[1])
      BY <2>1, Zenon
    <3> QED
      BY <2>1, <3>1, <3>2
  <2> QED
    BY <2>1, <2>2
<1>3. n = Step(n)
  <2> HIDE DEF g, Step
  <2> QED
    BY <1>2
<1> HIDE DEF n, n1, n2, n3, n4
<1>4. /\ n[0] = 0 /\ n[1] = S!Lengthened(n[0], bytes[4]) /\ n[2] = S!Lengthened(n[1], bytes[3])
      /\ n[3] = S!Lengthened(n[2], bytes[2]) /\ n[4] = S!Lengthened(n[3], bytes[1])
  BY <1>3
<1> QED
  BY <1>1, <1>4, Zenon

\* A length of at most 4294967 ms has nothing in its highest byte, and no more than
\* that many milliseconds in the others.
LEMMA ShortValue ==
  ASSUME NEW bytes, Len(bytes) = 4, NEW b1 \in Byte, NEW b2 \in Byte, NEW b3 \in Byte, NEW b4 \in Byte,
         bytes[1] = b1, bytes[2] = b2, bytes[3] = b3, bytes[4] = b4, S!Value(bytes) <= 4294967
  PROVE  b4 = 0 /\ 65536 * b3 + 256 * b2 + b1 <= 4294967
<1>1. b1 \in Nat /\ b2 \in Nat /\ b3 \in Nat /\ b4 \in Nat /\ b4 < 256 /\ b3 < 256 /\ b2 < 256
  BY DEF Byte
<1>2. PICK v1 : v1 = S!Lengthened(0, b4)
  OBVIOUS
<1>3. PICK v2 : v2 = S!Lengthened(v1, b3)
  OBVIOUS
<1>4. PICK v3 : v3 = S!Lengthened(v2, b2)
  OBVIOUS
<1>5. PICK v4 : v4 = S!Lengthened(v3, b1)
  OBVIOUS
<1>6. v4 <= 4294967
  <2>1. S!Value(bytes) = v4
    BY <1>2, <1>3, <1>4, <1>5, ValueFour
  <2> QED
    BY <2>1, SMT
<1>7. v1 = b4
  BY <1>1, <1>2, SMT DEF S!Lengthened, S!Largest
<1>8. v2 = 256 * b4 + b3
  BY <1>1, <1>3, <1>7, SMT DEF S!Lengthened, S!Largest
<1>9. v3 = 256 * v2 + b2
  BY <1>1, <1>4, <1>8, SMT DEF S!Lengthened, S!Largest
<1>10. v4 = 256 * v3 + b1
  BY <1>1, <1>5, <1>6, <1>8, <1>9, SMT DEF S!Lengthened, S!Largest
<1> QED
  BY <1>1, <1>6, <1>8, <1>9, <1>10, SMT

\* The sums and the carries of a product of four bytes, and the sums and the rests of
\* a quotient of four.
Carries(b1, b2, b3, b4, n1, n2, n3, n4, c1, c2, c3) ==
  /\ n1 = 1000 * b1 + 0 /\ c1 = n1 \div 256 /\ n2 = 1000 * b2 + c1 /\ c2 = n2 \div 256
  /\ n3 = 1000 * b3 + c2 /\ c3 = n3 \div 256 /\ n4 = 1000 * b4 + c3
Rests(b1, b2, b3, b4, m1, m2, m3, m4, r1, r2, r3) ==
  /\ m1 = 256 * 0 + b1 /\ r1 = m1 % 1000 /\ m2 = 256 * r1 + b2 /\ r2 = m2 % 1000
  /\ m3 = 256 * r2 + b3 /\ r3 = m3 % 1000 /\ m4 = 256 * r3 + b4

\* Three bytes of a length of at most 4294967 ms.
InTime(b1, b2, b3) == 65536 * b3 + 256 * b2 + b1 <= 4294967

\* The highest carry is below 256.
Sums(b1, b2, b3, c1, c2, c3, u1, u2, u3) ==
  256 * c1 + u1 = 1000 * b1 /\ 256 * c2 + u2 = 1000 * b2 + c1 /\ 256 * c3 + u3 = 1000 * b3 + c2

\* The product of a length that has a number of microseconds carries nothing out of
\* its third byte that its fourth could not hold.
LEMMA CarryBelow ==
  ASSUME NEW b1 \in Nat, NEW b2 \in Nat, NEW b3 \in Nat, NEW c1 \in Nat, NEW c2 \in Nat,
         NEW c3 \in Nat, NEW u1 \in Nat, NEW u2 \in Nat, NEW u3 \in Nat,
         Sums(b1, b2, b3, c1, c2, c3, u1, u2, u3), InTime(b1, b2, b3)
  PROVE  c3 < 256
<1>1. 256 * c1 + u1 = 1000 * b1 /\ 256 * c2 + u2 = 1000 * b2 + c1 /\ 256 * c3 + u3 = 1000 * b3 + c2
  BY SMT DEF Sums
<1>2. 65536 * c3 + 256 * u3 + u2 = 256000 * b3 + 1000 * b2 + c1
  BY <1>1, SMT
<1>3. 16777216 * c3 + 65536 * u3 + 256 * u2 + u1 = 65536000 * b3 + 256000 * b2 + 1000 * b1
  BY <1>1, <1>2, SMT
<1>4. 65536000 * b3 + 256000 * b2 + 1000 * b1 <= 4294967000
  BY SMT DEF InTime
<1> QED
  BY <1>3, <1>4, SMT

\* The sums and the carries of the multiplication are what the division goes through,
\* from the other end.
LEMMA CarryDown ==
  ASSUME NEW b1 \in Byte, NEW b2 \in Byte, NEW b3 \in Byte, NEW n1, NEW n2, NEW n3, NEW n4,
         NEW c1, NEW c2, NEW c3, NEW u1, NEW u2, NEW u3,
         Carries(b1, b2, b3, 0, n1, n2, n3, n4, c1, c2, c3), InTime(b1, b2, b3),
         u1 = n1 % 256, u2 = n2 % 256, u3 = n3 % 256
  PROVE  /\ n4 % 256 = c3
         /\ (256 * 0 + c3) \div 1000 = 0 /\ (256 * 0 + c3) % 1000 = c3
         /\ (256 * c3 + u3) \div 1000 = b3 /\ (256 * c3 + u3) % 1000 = c2
         /\ (256 * c2 + u2) \div 1000 = b2 /\ (256 * c2 + u2) % 1000 = c1
         /\ (256 * c1 + u1) \div 1000 = b1 /\ (256 * c1 + u1) % 1000 = 0
<1>0. /\ n1 = 1000 * b1 + 0 /\ c1 = n1 \div 256 /\ n2 = 1000 * b2 + c1 /\ c2 = n2 \div 256
      /\ n3 = 1000 * b3 + c2 /\ c3 = n3 \div 256 /\ n4 = 1000 * 0 + c3
      /\ 65536 * b3 + 256 * b2 + b1 <= 4294967
  BY SMT DEF Carries, InTime
<1>1. b1 \in Nat /\ b2 \in Nat /\ b3 \in Nat /\ b1 < 256 /\ b2 < 256 /\ b3 < 256
  BY DEF Byte
<1>2. n1 \in Nat /\ c1 \in Nat /\ c1 < 1000 /\ 256 * c1 + (n1 % 256) = 1000 * b1
  BY <1>0, <1>1, SMT
<1>3. n2 \in Nat /\ c2 \in Nat /\ c2 < 1000 /\ 256 * c2 + (n2 % 256) = 1000 * b2 + c1
  BY <1>0, <1>1, <1>2, SMT
<1>4. n3 \in Nat /\ c3 \in Nat /\ c3 < 1000 /\ 256 * c3 + (n3 % 256) = 1000 * b3 + c2
  BY <1>0, <1>1, <1>3, SMT
<1>9. 256 * c1 + u1 = 1000 * b1 /\ 256 * c2 + u2 = 1000 * b2 + c1 /\ 256 * c3 + u3 = 1000 * b3 + c2
  <2>1. 256 * c1 + u1 = 1000 * b1
    BY <1>2
  <2>2. 256 * c2 + u2 = 1000 * b2 + c1
    BY <1>3
  <2>3. 256 * c3 + u3 = 1000 * b3 + c2
    BY <1>4
  <2> QED
    BY <2>1, <2>2, <2>3
<1>5. c3 < 256
  <2>1. u1 \in Nat /\ u2 \in Nat /\ u3 \in Nat
    BY <1>2, <1>3, <1>4, SMT
  <2>4. c1 \in Nat /\ c2 \in Nat /\ c3 \in Nat
    BY <1>2, <1>3, <1>4
  <2> QED
    <3>1. Sums(b1, b2, b3, c1, c2, c3, u1, u2, u3)
      BY <1>9, Zenon DEF Sums
    <3> QED
      BY <1>1, <2>1, <2>4, <3>1, CarryBelow, ZenonT(60)
<1>7. ASSUME NEW b \in Nat, NEW c \in Nat, c < 1000
      PROVE  (1000 * b + c) \div 1000 = b /\ (1000 * b + c) % 1000 = c
  BY <1>7, SMT
<1>8. (1000 * b1) \div 1000 = b1 /\ (1000 * b1) % 1000 = 0
  BY <1>0, <1>1, SMT
<1>10. n4 % 256 = c3
  <2>1. n4 = c3
    BY <1>0, <1>4
  <2>2. c3 % 256 = c3
    BY <1>4, <1>5
  <2> QED
    BY <2>1, <2>2
<1>11. (256 * 0 + c3) \div 1000 = 0 /\ (256 * 0 + c3) % 1000 = c3
  <2>1. 256 * 0 + c3 = c3
    BY <1>4
  <2>2. c3 \div 1000 = 0 /\ c3 % 1000 = c3
    BY <1>4
  <2> QED
    BY <2>1, <2>2
<1>12. (256 * c3 + u3) \div 1000 = b3 /\ (256 * c3 + u3) % 1000 = c2
  BY <1>1, <1>3, <1>7, <1>9
<1>13. (256 * c2 + u2) \div 1000 = b2 /\ (256 * c2 + u2) % 1000 = c1
  BY <1>1, <1>2, <1>7, <1>9
<1>14. (256 * c1 + u1) \div 1000 = b1 /\ (256 * c1 + u1) % 1000 = 0
  BY <1>8, <1>9
<1> QED
  BY <1>10, <1>11, <1>12, <1>13, <1>14, SMT

\* The accumulators of the multiplication and of the division.
Product(bytes, carry)    == [bytes |-> bytes, carry |-> carry]
Quotients(quotient, rest) == [quotient |-> quotient, rest |-> rest]

\* One byte more of a product.
LEMMA ProductOn ==
  ASSUME NEW x, NEW c, NEW b
  PROVE  S!ThousandfoldOn(Product(x, c), b) =
           Product(Append(x, (1000 * b + c) % 256), (1000 * b + c) \div 256)
<1>1. PICK a : a = Product(x, c)
  OBVIOUS
<1>2. a.carry = c /\ a.bytes = x
  BY <1>1, SMT DEF Product
<1>3. S!ThousandfoldOn(a, b) = Product(Append(a.bytes, (1000 * b + a.carry) % 256),
                                       (1000 * b + a.carry) \div 256)
  BY SMT DEF S!ThousandfoldOn, Product
<1> QED
  BY <1>1, <1>2, <1>3, SMT

\* One byte more of a quotient.
LEMMA QuotientOn ==
  ASSUME NEW x, NEW c, NEW b
  PROVE  S!DividedOn(Quotients(x, c), b, 1000) =
           Quotients(Append(x, (256 * c + b) \div 1000), (256 * c + b) % 1000)
<1>1. PICK a : a = Quotients(x, c)
  OBVIOUS
<1>2. a.rest = c /\ a.quotient = x
  BY <1>1, SMT DEF Quotients
<1>3. S!DividedOn(a, b, 1000) = Quotients(Append(a.quotient, (256 * a.rest + b) \div 1000),
                                          (256 * a.rest + b) % 1000)
  BY SMT DEF S!DividedOn, Quotients
<1> QED
  BY <1>1, <1>2, <1>3, SMT

\* What is built one by one.
LEMMA FourAppended ==
  ASSUME NEW a, NEW b, NEW c, NEW d
  PROVE  Append(Append(Append(Append(<<>>, a), b), c), d) = <<a, b, c, d>>
<1>1. PICK s : s = Append(Append(Append(Append(<<>>, a), b), c), d)
  OBVIOUS
<1> DEFINE T == {a, b, c, d}
<1>2. a \in T /\ b \in T /\ c \in T /\ d \in T
  OBVIOUS
<1> HIDE DEF T
<1>3. s \in Seq(T) /\ Len(s) = 4 /\ s[1] = a /\ s[2] = b /\ s[3] = c /\ s[4] = d
  BY <1>1, <1>2
<1>4. s = <<a, b, c, d>>
  BY <1>3
<1> QED
  BY <1>1, <1>4

\* The four bytes of a product, by their carries.
LEMMA ProductOfFour ==
  ASSUME NEW b1, NEW b2, NEW b3, NEW b4,
         NEW n1, NEW n2, NEW n3, NEW n4, NEW c1, NEW c2, NEW c3,
         Carries(b1, b2, b3, b4, n1, n2, n3, n4, c1, c2, c3)
  PROVE  S!Thousandfold(<<b1, b2, b3, b4>>) = <<n1 % 256, n2 % 256, n3 % 256, n4 % 256>>
<1>1. PICK x0 : x0 = <<>>
  OBVIOUS
<1>2. PICK x1 : x1 = Append(x0, n1 % 256)
  OBVIOUS
<1>3. PICK x2 : x2 = Append(x1, n2 % 256)
  OBVIOUS
<1>4. PICK x3 : x3 = Append(x2, n3 % 256)
  OBVIOUS
<1>5. PICK x4 : x4 = Append(x3, n4 % 256)
  OBVIOUS
<1>6. S!ThousandfoldOn(Product(x0, 0), b1) = Product(x1, c1)
  BY <1>2, ProductOn, SMT DEF Carries
<1>7. S!ThousandfoldOn(Product(x1, c1), b2) = Product(x2, c2)
  BY <1>3, ProductOn, SMT DEF Carries
<1>8. S!ThousandfoldOn(Product(x2, c2), b3) = Product(x3, c3)
  BY <1>4, ProductOn, SMT DEF Carries
<1>9. S!ThousandfoldOn(Product(x3, c3), b4) = Product(x4, n4 \div 256)
  BY <1>5, ProductOn, SMT DEF Carries
<1>10. x4 = <<n1 % 256, n2 % 256, n3 % 256, n4 % 256>>
  <2>1. x4 = Append(Append(Append(Append(<<>>, n1 % 256), n2 % 256), n3 % 256), n4 % 256)
    BY <1>1, <1>2, <1>3, <1>4, <1>5
  <2> QED
    BY <2>1, FourAppended
<1>11. Product(x0, 0) = [bytes |-> <<>>, carry |-> 0]
  BY <1>1 DEF Product
<1>12. Product(x4, n4 \div 256).bytes = x4
  BY DEF Product
<1>13. PICK bytes : bytes = <<b1, b2, b3, b4>>
  OBVIOUS
<1>14. Len(bytes) = 4 /\ bytes[1] = b1 /\ bytes[2] = b2 /\ bytes[3] = b3 /\ bytes[4] = b4
  BY <1>13
<1>15. S!Thousandfold(bytes) =
         S!ThousandfoldOn(S!ThousandfoldOn(S!ThousandfoldOn(S!ThousandfoldOn(
           Product(x0, 0), bytes[1]), bytes[2]), bytes[3]), bytes[4]).bytes
  BY <1>11, <1>14, ThousandfoldFour, SMT
<1>16. S!Thousandfold(bytes) = x4
  BY <1>6, <1>7, <1>8, <1>9, <1>12, <1>14, <1>15
<1> QED
  BY <1>10, <1>13, <1>16

\* The four bytes of a quotient, by their rests.
LEMMA QuotientOfFour ==
  ASSUME NEW b1, NEW b2, NEW b3, NEW b4,
         NEW m1, NEW m2, NEW m3, NEW m4, NEW r1, NEW r2, NEW r3,
         Rests(b1, b2, b3, b4, m1, m2, m3, m4, r1, r2, r3)
  PROVE  S!Divided(<<b1, b2, b3, b4>>, 1000) =
           Quotients(<<m1 \div 1000, m2 \div 1000, m3 \div 1000, m4 \div 1000>>, m4 % 1000)
<1>1. PICK x0 : x0 = <<>>
  OBVIOUS
<1> DEFINE x1 == Append(x0, m1 \div 1000)
           x2 == Append(x1, m2 \div 1000)
           x3 == Append(x2, m3 \div 1000)
           x4 == Append(x3, m4 \div 1000)
<1>2. x1 = Append(x0, m1 \div 1000)
  OBVIOUS
<1> HIDE DEF x1
<1>3. x2 = Append(x1, m2 \div 1000)
  OBVIOUS
<1> HIDE DEF x2
<1>4. x3 = Append(x2, m3 \div 1000)
  OBVIOUS
<1> HIDE DEF x3
<1>5. x4 = Append(x3, m4 \div 1000)
  OBVIOUS
<1> HIDE DEF x4
<1>6. S!DividedOn(Quotients(x0, 0), b1, 1000) = Quotients(x1, r1)
  BY <1>2, QuotientOn, SMT DEF Rests
<1>7. S!DividedOn(Quotients(x1, r1), b2, 1000) = Quotients(x2, r2)
  BY <1>3, QuotientOn, SMT DEF Rests
<1>8. S!DividedOn(Quotients(x2, r2), b3, 1000) = Quotients(x3, r3)
  BY <1>4, QuotientOn, SMT DEF Rests
<1>9. S!DividedOn(Quotients(x3, r3), b4, 1000) = Quotients(x4, m4 % 1000)
  BY <1>5, QuotientOn, SMT DEF Rests
<1>10. x4 = <<m1 \div 1000, m2 \div 1000, m3 \div 1000, m4 \div 1000>>
  <2>1. x4 = Append(Append(Append(Append(<<>>, m1 \div 1000), m2 \div 1000), m3 \div 1000),
                    m4 \div 1000)
    BY <1>1, <1>2, <1>3, <1>4, <1>5
  <2> QED
    BY <2>1, FourAppended
<1>11. Quotients(x0, 0) = [quotient |-> <<>>, rest |-> 0]
  BY <1>1 DEF Quotients
<1>13. PICK bytes : bytes = <<b1, b2, b3, b4>>
  OBVIOUS
<1>14. Len(bytes) = 4 /\ bytes[1] = b1 /\ bytes[2] = b2 /\ bytes[3] = b3 /\ bytes[4] = b4
  BY <1>13
<1>15. S!Divided(bytes, 1000) =
         S!DividedOn(S!DividedOn(S!DividedOn(S!DividedOn(
           Quotients(x0, 0), bytes[1], 1000), bytes[2], 1000), bytes[3], 1000), bytes[4], 1000)
  BY <1>11, <1>14, DividedFour, SMT
<1>16. S!Divided(bytes, 1000) = Quotients(x4, m4 % 1000)
  BY <1>6, <1>7, <1>8, <1>9, <1>14, <1>15
<1> QED
  BY <1>10, <1>13, <1>16

\* The product has as many bytes.
LEMMA LengthOfSignal ==
  ASSUME NEW bytes, bytes \in Seq(Byte), Len(bytes) = 4
  PROVE  Len(S!Thousandfold(bytes)) = 4
<1>1. PICK n1, n2, n3, n4, c1, c2, c3 :
        Carries(bytes[1], bytes[2], bytes[3], bytes[4], n1, n2, n3, n4, c1, c2, c3)
  BY DEF Carries
<1>2. S!Thousandfold(bytes) = <<n1 % 256, n2 % 256, n3 % 256, n4 % 256>>
  <2>1. bytes = <<bytes[1], bytes[2], bytes[3], bytes[4]>>
    OBVIOUS
  <2>2. S!Thousandfold(<<bytes[1], bytes[2], bytes[3], bytes[4]>>) =
          <<n1 % 256, n2 % 256, n3 % 256, n4 % 256>>
    BY <1>1, ProductOfFour
  <2> QED
    BY <2>1, <2>2
<1> QED
  BY <1>2

\* Four bytes, turned around.
LEMMA Reversed ==
  ASSUME NEW a, NEW b, NEW c, NEW d
  PROVE  S!Reverse(<<a, b, c, d>>) = <<d, c, b, a>>
<1>1. PICK r : r = S!Reverse(<<a, b, c, d>>)
  OBVIOUS
<1>2. r = [i \in 1 .. 4 |-> <<a, b, c, d>>[(4 - i) + 1]]
  BY <1>1 DEF S!Reverse
<1>3. r[1] = d /\ r[2] = c /\ r[3] = b /\ r[4] = a
  BY <1>2
<1>4. r = [i \in 1 .. 4 |-> r[i]]
  BY <1>2
<1> QED
  BY <1>1, <1>3, <1>4

\* The longest signal that has a number of microseconds.
Short(bytes) == S!Value(bytes) <= 4294967

\* The length of a signal in microseconds is a thousand times what was asked for.
LEMMA SignalLength ==
  ASSUME NEW bytes \in Seq(Byte), Len(bytes) = 4, Short(bytes)
  PROVE  S!Divided(S!Reverse(S!Thousandfold(bytes)), 1000) =
           [quotient |-> S!Reverse(bytes), rest |-> 0]
<1>1. 1 \in 1 .. Len(bytes) /\ 2 \in 1 .. Len(bytes) /\ 3 \in 1 .. Len(bytes) /\ 4 \in 1 .. Len(bytes)
  OBVIOUS
<1>2. PICK b1 \in Byte : b1 = bytes[1]
  BY <1>1, ElementOfSeq
<1>3. PICK b2 \in Byte : b2 = bytes[2]
  BY <1>1, ElementOfSeq
<1>4. PICK b3 \in Byte : b3 = bytes[3]
  BY <1>1, ElementOfSeq
<1>5. PICK b4 \in Byte : b4 = bytes[4]
  BY <1>1, ElementOfSeq
<1>6. b4 = 0 /\ InTime(b1, b2, b3)
  BY <1>2, <1>3, <1>4, <1>5, ShortValue, SMT DEF Short, InTime
<1>7. bytes = <<b1, b2, b3, 0>>
  <2>1. bytes = <<bytes[1], bytes[2], bytes[3], bytes[4]>>
    OBVIOUS
  <2> QED
    BY <1>2, <1>3, <1>4, <1>5, <1>6, <2>1
<1>8. PICK n1, n2, n3, n4, c1, c2, c3 : Carries(b1, b2, b3, 0, n1, n2, n3, n4, c1, c2, c3)
  BY DEF Carries
<1>9. S!Thousandfold(bytes) = <<n1 % 256, n2 % 256, n3 % 256, n4 % 256>>
  BY <1>7, <1>8, ProductOfFour
<1>10. PICK u1, u2, u3 : u1 = n1 % 256 /\ u2 = n2 % 256 /\ u3 = n3 % 256
  OBVIOUS
<1>11. /\ n4 % 256 = c3
       /\ (256 * 0 + c3) \div 1000 = 0 /\ (256 * 0 + c3) % 1000 = c3
       /\ (256 * c3 + u3) \div 1000 = b3 /\ (256 * c3 + u3) % 1000 = c2
       /\ (256 * c2 + u2) \div 1000 = b2 /\ (256 * c2 + u2) % 1000 = c1
       /\ (256 * c1 + u1) \div 1000 = b1 /\ (256 * c1 + u1) % 1000 = 0
  BY <1>6, <1>8, <1>10, CarryDown, SMT
<1>12. S!Reverse(S!Thousandfold(bytes)) = <<c3, u3, u2, u1>>
  <2>1. S!Thousandfold(bytes) = <<u1, u2, u3, c3>>
    BY <1>9, <1>10, <1>11
  <2> QED
    BY <2>1, Reversed
<1>13. S!Divided(<<c3, u3, u2, u1>>, 1000) = Quotients(<<0, b3, b2, b1>>, 0)
  <2>1. PICK m1 : m1 = 256 * 0 + c3
    OBVIOUS
  <2>2. PICK m2, m3, m4 : m2 = 256 * c3 + u3 /\ m3 = 256 * c2 + u2 /\ m4 = 256 * c1 + u1
    OBVIOUS
  <2>3. /\ m1 \div 1000 = 0 /\ c3 = m1 % 1000 /\ m2 \div 1000 = b3 /\ c2 = m2 % 1000
        /\ m3 \div 1000 = b2 /\ c1 = m3 % 1000 /\ m4 \div 1000 = b1 /\ m4 % 1000 = 0
    BY <1>11, <2>1, <2>2
  <2>4. Rests(c3, u3, u2, u1, m1, m2, m3, m4, c3, c2, c1)
    BY <2>1, <2>2, <2>3, Zenon DEF Rests
  <2>5. S!Divided(<<c3, u3, u2, u1>>, 1000) =
          Quotients(<<m1 \div 1000, m2 \div 1000, m3 \div 1000, m4 \div 1000>>, m4 % 1000)
    BY <2>4, QuotientOfFour
  <2> QED
    BY <2>3, <2>5
<1>14. S!Reverse(bytes) = <<0, b3, b2, b1>>
  BY <1>7, Reversed
<1>15. Quotients(S!Reverse(bytes), 0) = [quotient |-> S!Reverse(bytes), rest |-> 0]
  BY DEF Quotients
<1> QED
  BY <1>12, <1>13, <1>14, <1>15

-----------------------------------------------------------------------------
(* What the host was told *)

\* A time that the device has, and the time it shows.
Valid(t) == t \in [1 .. 6 -> Int] /\ S!Takes(t)
Shown(t) == [k \in 1 .. 6 |-> IF k = 1 THEN t[1] + 1900 ELSE IF k = 2 THEN t[2] + 1 ELSE t[k]]

\* A call has a packet or a reply on the way, and the other one is not there.
Quiet ==
  /\ result # "waiting" => request = S!Nothing
  /\ result # "waiting" => reply = S!Nothing
  /\ reply # S!Nothing => request = S!Nothing

\* A packet stands for its call: what its handler reads is what the call is about.
\* Another program's packet that sets something counts as the call that does.
Stands(c, p) ==
  /\ p.payload \in Seq(Byte)
  /\ p.type = 1 /\ Len(p.payload) >= 7 => c.op = "set_time"
  /\ p.type = 3 /\ Len(p.payload) >= 8 => c.op = "set_base"
  /\ c.op = "set_time" => /\ p.type = 1 /\ Len(p.payload) >= 7
                          /\ S!TimeIn(p.payload) = c.value
  /\ c.op = "set_base" => /\ p.type = 3 /\ Len(p.payload) >= 8
                          /\ S!clamp_frequency(S!Value(SubSeq(p.payload, 1, 8))) = c.value
  /\ c.op = "get_time" => p.type = 2
  /\ c.op = "get_base" => p.type = 4
  /\ c.op = "test_signal" => p.type = 7 /\ p.payload = c.value /\ Len(p.payload) = 4

\* The request stands for the call that waits,
RequestStands == request # S!Nothing => Stands(call, request)

\* The signal that a call has asked for.
SignalFor(value) ==
  /\ signal.hz \in {f \div 100 : f \in told.freqs}
  /\ Short(value) =>
       S!Divided(S!Reverse(signal.us), 1000) = [quotient |-> S!Reverse(value), rest |-> 0]

\* A reply that is no refusal.
Granted == reply # S!Nothing /\ reply.type # S!NACK

\* and then the reply does: what was to be set is set, and what it tells was told.
ReplyStands ==
  Granted =>
    /\ call.op = "set_time" => rtc # S!NoTime /\ Shown(rtc) = call.value
    /\ call.op = "set_base" => base = call.value
    /\ call.op = "get_time" => Len(reply.payload) >= 7 /\ S!TimeIn(reply.payload) \in told.times
    /\ call.op = "get_base" => Len(reply.payload) >= 8 /\ S!Value(SubSeq(reply.payload, 1, 8)) \in told.freqs
    /\ call.op = "test_signal" => SignalFor(call.value)

\* What the device has is what the host was told it may have, but for a set whose
\* reply is on the way.
DeviceKnown ==
  /\ base \in Freq
  /\ base \in told.freqs \/ (Granted /\ call.op = "set_base")
  /\ \/ rtc = S!NoTime
     \/ /\ Valid(rtc)
        /\ Shown(rtc) \in told.times \/ (Granted /\ call.op = "set_time")

\* What the last call returned.
Answered ==
  /\ result = "ok" /\ call.op = "get_time" => answer \in told.times
  /\ result = "ok" /\ call.op = "get_base" => answer[1] \in told.freqs
  /\ result = "ok" /\ call.op = "test_signal" => SignalFor(call.value)

\* What the reference register holds.
Reg == 0 .. 2 ^ 11 - 1

\* The types that the rest needs; no reply of a device is too short for its call.
Sane ==
  /\ ref \in Reg /\ txActive \in BOOLEAN /\ Len(signal.us) = 4
  /\ result \in {"waiting", "ok", "nack", "timeout", "invalid argument"}
  /\ told = [times |-> told.times, freqs |-> told.freqs]

\* The invariant.
SettingsInv == Sane /\ Quiet /\ RequestStands /\ ReplyStands /\ DeviceKnown /\ Answered

\* Packets that are there, and refusals.
LEMMA Packets ==
  /\ S!Nothing.type = 0
  /\ S!ACK # S!NACK /\ 2 # S!NACK /\ 4 # S!NACK
  /\ \A type, payload : S!Packet(type, payload).type = type /\ S!Packet(type, payload).payload = payload
  /\ \A type, payload : type # 0 => S!Packet(type, payload) # S!Nothing
<1>1. \A type, payload : S!Packet(type, payload).type = type /\ S!Packet(type, payload).payload = payload
  BY DEF S!Packet
<1>2. S!Nothing.type = 0
  BY <1>1, Zenon DEF S!Nothing
<1>3. S!ACK # S!NACK /\ 2 # S!NACK /\ 4 # S!NACK
  BY DEF S!ACK, S!NACK
<1> QED
  BY <1>1, <1>2, <1>3, Zenon

\* The reference has room in its register.
LEMMA RefInRegister == ASSUME NEW t \in Int PROVE S!Ref(t) \in Reg
<1>1. ASSUME NEW n \in Int PROVE n % 2048 \in Reg
  <2>1. 2 ^ 11 - 1 = 2047
    BY SMT
  <2>2. n % 2048 \in Nat /\ n % 2048 <= 2047
    BY SMT
  <2> QED
    BY <2>1, <2>2, SMT DEF Reg
<1>2. PICK v \in Int : S!Ref(t) = (((v - 45000) * 10) \div 5645) % 2048
  <2>1. (t * 5000000) \div 187 \in Int
    BY SMT
  <2> QED
    BY <2>1, SMT DEF S!Ref
<1>3. ((v - 45000) * 10) \div 5645 \in Int
  BY SMT
<1> QED
  BY <1>1, <1>2, <1>3, SMT

\* The signal at boot has a length of four bytes.
LEMMA NoSignalLength == Len(S!NoSignal.us) = 4
<1>1. S!NoSignal.us = S!LE(0, 4)
  BY DEF S!NoSignal
<1>2. PICK f : f = S!LE(0, 4)
  OBVIOUS
<1>3. f = [k \in 1 .. 4 |-> IF k <= 4 THEN (0 \div 256 ^ (k - 1)) % 256 ELSE 0]
  BY <1>2 DEF S!LE
<1>4. Len(f) = 4
  BY <1>3
<1> QED
  BY <1>1, <1>2, <1>4

\* The invariant holds at the start.
LEMMA SettingsInit == S!Init => SettingsInv
<1> SUFFICES ASSUME S!Init PROVE SettingsInv
  OBVIOUS
<1>1. /\ base = S!Default /\ txActive = FALSE /\ signal = S!NoSignal /\ rtc = S!NoTime
      /\ (ref = S!Ref(12) \/ ref = S!PowerUpRef) /\ call = [op |-> "none"] /\ request = S!Nothing /\ reply = S!Nothing
      /\ result = "ok" /\ told = [times |-> {}, freqs |-> {S!Default}]
  BY Zenon DEF S!Init
<1>2. ref \in Reg
  <2>1. 12 \in Int
    OBVIOUS
  <2>2. S!PowerUpRef \in Reg
    BY SMT DEF S!PowerUpRef, Reg
  <2> QED
    BY <1>1, <2>1, <2>2, RefInRegister, Zenon
<1>3. Len(signal.us) = 4
  BY <1>1, NoSignalLength, Zenon
<1>4. call.op = "none"
  BY <1>1
<1>5. S!Default \in Freq /\ told.freqs = {S!Default}
  <2>1. S!Default \in Freq
    BY SMT DEF Freq, S!Default, S!BandMin, S!BandMax
  <2> QED
    BY <1>1, <2>1
<1>6. Sane /\ Quiet /\ RequestStands
  <2>1. Sane
    <3>1. told = [times |-> told.times, freqs |-> told.freqs]
      BY <1>1
    <3>2. txActive \in BOOLEAN
      BY <1>1, Zenon
    <3> QED
      BY <1>1, <1>2, <1>3, <3>1, <3>2, Zenon DEF Sane
  <2> QED
    BY <1>1, <2>1, Zenon DEF Quiet, RequestStands
<1>7. ReplyStands
  BY <1>1, Zenon DEF ReplyStands, Granted
<1>8. DeviceKnown
  BY <1>1, <1>5, Zenon DEF DeviceKnown
<1>9. Answered
  BY <1>4 DEF Answered
<1> QED
  BY <1>6, <1>7, <1>8, <1>9, Zenon DEF SettingsInv

\* Nothing of the device is on its way to be known while no call is made.
LEMMA Idle ==
  ASSUME SettingsInv, result # "waiting"
  PROVE  request = S!Nothing /\ reply = S!Nothing /\ ~ Granted
BY Zenon DEF SettingsInv, Quiet, Granted

\* A call is made with a packet that stands for it.
LEMMA CallStep ==
  ASSUME SettingsInv, NEW c, NEW type, NEW payload, S!Call(c, type, payload),
         Stands(c, S!Packet(type, payload))
  PROVE  SettingsInv'
<1>1. /\ result # "waiting" /\ result' = "waiting" /\ call' = c /\ request' = S!Packet(type, payload)
      /\ UNCHANGED <<base, rtc, ref, txActive, signal, reply, told>>
  BY Zenon DEF S!Call, S!device
<1>2. request = S!Nothing /\ reply = S!Nothing /\ ~ Granted
  BY <1>1, Idle, Zenon
<1>3. ~ Granted'
  BY <1>1, <1>2, Zenon DEF Granted
<1>4. Sane' /\ Quiet' /\ RequestStands'
  <2>1. Sane'
    BY <1>1, Zenon DEF SettingsInv, Sane
  <2>2. Quiet'
    BY <1>1, <1>2, Zenon DEF Quiet
  <2>3. RequestStands'
    BY <1>1, <1>2, Zenon DEF RequestStands
  <2> QED
    BY <2>1, <2>2, <2>3, Zenon
<1>5. ReplyStands'
  BY <1>3, Zenon DEF ReplyStands
<1>6. DeviceKnown'
  BY <1>1, <1>2, Zenon DEF SettingsInv, DeviceKnown
<1>7. Answered'
  BY <1>1, Zenon DEF Answered
<1> QED
  BY <1>4, <1>5, <1>6, <1>7, Zenon DEF SettingsInv

\* A call that the library refuses.
LEMMA InvalidStep ==
  ASSUME SettingsInv, NEW c, S!Invalid(c)
  PROVE  SettingsInv'
<1>1. /\ result # "waiting" /\ result' = "invalid argument" /\ call' = c
      /\ UNCHANGED <<base, rtc, ref, txActive, signal, request, reply, told>>
  BY Zenon DEF S!Invalid, S!device
<1>2. request = S!Nothing /\ reply = S!Nothing /\ ~ Granted
  BY <1>1, Idle, Zenon
<1>3. ~ Granted'
  BY <1>1, <1>2, Zenon DEF Granted
<1>4. Sane' /\ Quiet' /\ RequestStands'
  <2>1. Sane'
    BY <1>1, Zenon DEF SettingsInv, Sane
  <2>2. Quiet'
    BY <1>1, <1>2, Zenon DEF Quiet
  <2>3. RequestStands'
    BY <1>1, <1>2, Zenon DEF RequestStands
  <2> QED
    BY <2>1, <2>2, <2>3, Zenon
<1>5. ReplyStands'
  BY <1>3, Zenon DEF ReplyStands
<1>6. DeviceKnown'
  BY <1>1, <1>2, Zenon DEF SettingsInv, DeviceKnown
<1>7. Answered'
  BY <1>1, Zenon DEF Answered
<1> QED
  BY <1>4, <1>5, <1>6, <1>7, Zenon DEF SettingsInv

-----------------------------------------------------------------------------
(* The calls *)

\* Every call's packet stands for it.
LEMMA TimeStands ==
  ASSUME NEW t \in Times
  PROVE  Stands([op |-> "set_time", value |-> t], S!Packet(1, S!LE(t[1], 2) \o SubSeq(t, 2, 6)))
<1>1. t \in Seq(Nat) /\ Len(t) = 6 /\ t[1] < 2 ^ 16 /\ \A k \in 2 .. 6 : t[k] < 2 ^ 8
  BY ArgumentsAssumption
<1>2. \A k \in 1 .. 6 : t[k] \in Nat
  BY <1>1, ElementOfSeq
<1>3. t[1] \div 256 \in Byte
  <2>1. 2 ^ 16 = 256 * 256
    BY SMT
  <2>2. t[1] \in Nat /\ t[1] < 256 * 256
    BY <1>1, <1>2, <2>1, SMT
  <2> QED
    BY <2>2, SMT DEF Byte
<1>4. \A k \in 2 .. 6 : t[k] \in Byte
  <2>1. 2 ^ 8 = 256
    BY SMT
  <2>2. ASSUME NEW k \in 2 .. 6 PROVE t[k] \in Byte
    <3>1. PICK v \in Nat : v = t[k]
      BY <1>2
    <3>2. v < 256
      BY <1>1, <2>1, <3>1, SMT
    <3>3. v \in Byte
      BY <3>2, SMT DEF Byte
    <3> QED
      BY <3>1, <3>3
  <2> QED
    BY <2>2
<1>5. PICK p : p = S!LE(t[1], 2) \o SubSeq(t, 2, 6)
  OBVIOUS
<1>6. p \in Seq(Byte) /\ Len(p) = 7 /\ S!TimeIn(p) = t
  BY <1>1, <1>3, <1>4, <1>5, TimeSent
<1>7. PICK c : c = [op |-> "set_time", value |-> t]
  OBVIOUS
<1>8. c.op = "set_time" /\ c.value = t
  BY <1>7
<1>9. PICK q : q = S!Packet(1, p)
  OBVIOUS
<1>10. q.type = 1 /\ q.payload = p
  BY <1>9, Packets
<1>11. Stands(c, q)
  <2>1. q.type # 3 /\ Len(q.payload) >= 7 /\ q.payload \in Seq(Byte) /\ S!TimeIn(q.payload) = c.value
    <3>1. 1 # 3 /\ 7 >= 7
      OBVIOUS
    <3> QED
      BY <1>6, <1>8, <1>10, <3>1, Zenon
  <2>2. c.op # "set_base" /\ c.op # "get_time" /\ c.op # "get_base" /\ c.op # "test_signal"
    BY <1>8, Zenon
  <2> QED
    BY <1>8, <1>10, <2>1, <2>2, Zenon DEF Stands
<1> QED
  BY <1>5, <1>7, <1>9, <1>11, Zenon

\* So does the packet of a frequency.
LEMMA FreqStands ==
  ASSUME NEW n \in Freq
  PROVE  Stands([op |-> "set_base", value |-> n], S!Packet(3, S!LE(n, 8)))
<1>1. PICK p : p = S!LE(n, 8)
  OBVIOUS
<1>2. p \in Seq(Byte) /\ Len(p) = 8 /\ S!clamp_frequency(S!Value(SubSeq(p, 1, 8))) = n
  <2>1. SubSeq(p, 1, 8) = p
    BY <1>1, FreqSent, Zenon
  <2> QED
    BY <1>1, <2>1, FreqBytes, FreqSent
<1>3. PICK c : c = [op |-> "set_base", value |-> n]
  OBVIOUS
<1>4. c.op = "set_base" /\ c.value = n
  BY <1>3
<1>5. PICK q : q = S!Packet(3, p)
  OBVIOUS
<1>6. q.type = 3 /\ q.payload = p
  BY <1>5, Packets
<1>7. Stands(c, q)
  <2>1. q.type # 1 /\ Len(q.payload) >= 8 /\ q.payload \in Seq(Byte)
        /\ S!clamp_frequency(S!Value(SubSeq(q.payload, 1, 8))) = c.value
    <3>1. 3 # 1 /\ 8 >= 8
      OBVIOUS
    <3> QED
      BY <1>2, <1>4, <1>6, <3>1, Zenon
  <2>2. c.op # "set_time" /\ c.op # "get_time" /\ c.op # "get_base" /\ c.op # "test_signal"
    BY <1>4, Zenon
  <2> QED
    BY <1>4, <1>6, <2>1, <2>2, Zenon DEF Stands
<1> QED
  BY <1>1, <1>3, <1>5, <1>7, Zenon

\* The other calls need no more than their types.
LEMMA OtherStands ==
  ASSUME NEW c, NEW type, NEW payload \in Seq(Byte), type # 1 \/ Len(payload) < 7,
         type # 3 \/ Len(payload) < 8, c.op # "set_time", c.op # "set_base",
         c.op = "get_time" => type = 2, c.op = "get_base" => type = 4,
         c.op = "test_signal" => type = 7 /\ payload = c.value /\ Len(payload) = 4
  PROVE  Stands(c, S!Packet(type, payload))
<1>1. PICK q : q = S!Packet(type, payload)
  OBVIOUS
<1>2. q.type = type /\ q.payload = payload
  BY <1>1, Packets
<1>3. Len(payload) \in Nat
  BY LenProperties
<1>4. Stands(c, q)
  BY <1>2, <1>3 DEF Stands
<1> QED
  BY <1>1, <1>4, Zenon

\* What another program's packet is taken for.
LEMMA PacketStands ==
  ASSUME NEW type, NEW payload \in Seq(Byte)
  PROVE  Stands(S!Meant(type, payload), S!Packet(type, payload))
<1>1. PICK c : c = S!Meant(type, payload)
  OBVIOUS
<1>2. Len(payload) \in Nat
  BY LenProperties
<1>3. PICK q : q = S!Packet(type, payload)
  OBVIOUS
<1>4. q.type = type /\ q.payload = payload
  BY <1>3, Packets
<1>5. CASE type = 1 /\ Len(payload) >= 7
  <2>1. c = [op |-> "set_time", value |-> S!TimeIn(payload)]
    BY <1>1, <1>5, SMT DEF S!Meant
  <2>2. c.op = "set_time" /\ c.value = S!TimeIn(payload)
    BY <2>1
  <2>3. Stands(c, q)
    BY <1>4, <1>5, <2>2 DEF Stands
  <2> QED
    BY <1>1, <1>3, <2>3, Zenon
<1>6. CASE type = 3 /\ Len(payload) >= 8
  <2>1. c = [op |-> "set_base", value |-> S!clamp_frequency(S!Value(SubSeq(payload, 1, 8)))]
    BY <1>1, <1>6, SMT DEF S!Meant
  <2>2. c.op = "set_base" /\ c.value = S!clamp_frequency(S!Value(SubSeq(payload, 1, 8)))
    BY <2>1
  <2>3. Stands(c, q)
    BY <1>4, <1>6, <2>2 DEF Stands
  <2> QED
    BY <1>1, <1>3, <2>3, Zenon
<1>7. CASE ~ (type = 1 /\ Len(payload) >= 7) /\ ~ (type = 3 /\ Len(payload) >= 8)
  <2>1. c = [op |-> "other"]
    BY <1>1, <1>7, SMT DEF S!Meant
  <2>2. c.op = "other"
    BY <2>1
  <2>3. Stands(c, q)
    BY <1>2, <1>4, <1>7, <2>2 DEF Stands
  <2> QED
    BY <1>1, <1>3, <2>3, Zenon
<1> QED
  BY <1>5, <1>6, <1>7, Zenon

\* What a frequency is clamped to is in the band.
LEMMA Clamped == ASSUME NEW n \in Int PROVE S!clamp_frequency(n) \in Freq
BY SMT DEF S!clamp_frequency, Freq, S!BandMin, S!BandMax

\* The host asks for a frequency in the band.
LEMMA AskedInBand == ASSUME NEW f \in Int PROVE S!Asked(f) \in Freq
<1>1. (f + 1) \div 2 \in Int
  BY SMT
<1> QED
  BY <1>1, Clamped DEF S!Asked

\* The invariant is kept by every call, and by what another program sends.
LEMMA CallsSettings ==
  ASSUME SettingsInv, Call
  PROVE  SettingsInv'
<1>0. ASSUME NEW c, NEW type, type # 1, type # 3, c.op # "set_time", c.op # "set_base",
             c.op # "test_signal", c.op = "get_time" => type = 2, c.op = "get_base" => type = 4
      PROVE  Stands(c, S!Packet(type, <<>>))
  <2>1. PICK p \in Seq(Byte) : p = <<>>
    BY EmptySeq, Zenon
  <2>3. (type # 1 \/ Len(p) < 7) /\ (type # 3 \/ Len(p) < 8)
    BY <1>0, Zenon
  <2>4. c.op = "test_signal" => type = 7 /\ p = c.value /\ Len(p) = 4
    BY <1>0, Zenon
  <2>2. Stands(c, S!Packet(type, p))
    BY <1>0, <2>3, <2>4, OtherStands
  <2> QED
    BY <2>1, <2>2, Zenon
<1>1. ASSUME NEW t \in Times, S!SetRtcTime(t) PROVE SettingsInv'
  BY <1>1, TimeStands, CallStep, Zenon DEF S!SetRtcTime
<1>2. CASE S!GetRtcTime
  <2>1. PICK c : c = [op |-> "get_time"]
    OBVIOUS
  <2>2. c.op = "get_time"
    BY <2>1
  <2>3. Stands(c, S!Packet(2, <<>>))
    BY <1>0, <2>2
  <2>4. S!Call(c, 2, <<>>)
    BY <1>2, <2>1, Zenon DEF S!GetRtcTime
  <2> QED
    BY <2>3, <2>4, CallStep, Zenon
<1>3. ASSUME NEW f \in Freqs, S!SetBaseFreq(f) PROVE SettingsInv'
  <2>1. CASE f < 0
    <3>1. S!Invalid([op |-> "set_base", value |-> f])
      BY <1>3, <2>1, Zenon DEF S!SetBaseFreq
    <3> QED
      BY <3>1, InvalidStep, Zenon
  <2>2. CASE ~ (f < 0)
    <3>1. S!Call([op |-> "set_base", value |-> S!Asked(f)], 3, S!LE(S!Asked(f), 8))
      BY <1>3, <2>2, Zenon DEF S!SetBaseFreq
    <3>2. S!Asked(f) \in Freq
      BY DevicesAssumption, AskedInBand
    <3> QED
      BY <3>1, <3>2, FreqStands, CallStep, Zenon
  <2> QED
    BY <2>1, <2>2
<1>4. CASE S!GetBaseFreq
  <2>1. PICK c : c = [op |-> "get_base"]
    OBVIOUS
  <2>2. c.op = "get_base"
    BY <2>1
  <2>3. Stands(c, S!Packet(4, <<>>))
    BY <1>0, <2>2
  <2>4. S!Call(c, 4, <<>>)
    BY <1>4, <2>1, Zenon DEF S!GetBaseFreq
  <2> QED
    BY <2>3, <2>4, CallStep, Zenon
<1>5. ASSUME NEW duration \in Durations, S!TxTestSignal(duration) PROVE SettingsInv'
  <2>1. PICK c : c = [op |-> "test_signal", value |-> duration]
    OBVIOUS
  <2>2. c.op = "test_signal" /\ c.value = duration
    BY <2>1
  <2>3. S!Invalid(c) \/ S!Call(c, 7, duration)
    BY <1>5, <2>1, Zenon DEF S!TxTestSignal
  <2>4. duration \in Seq(Byte) /\ Len(duration) = 4
    BY ArgumentsAssumption DEF Byte
  <2>5. Stands(c, S!Packet(7, duration))
    BY <2>2, <2>4, OtherStands
  <2> QED
    BY <2>3, <2>5, CallStep, InvalidStep, Zenon
<1>6. ASSUME NEW tx \in BOOLEAN, S!SetTrSwitch(tx) PROVE SettingsInv'
  <2>1. PICK c : c = [op |-> "set_tr"]
    OBVIOUS
  <2>2. c.op = "set_tr"
    BY <2>1
  <2>3. PICK p : p = <<IF tx THEN 1 ELSE 0>>
    OBVIOUS
  <2>4. p \in Seq(Byte) /\ Len(p) = 1
    BY <2>3 DEF Byte
  <2>5. Stands(c, S!Packet(8, p))
    BY <2>2, <2>4, OtherStands
  <2>6. S!Call(c, 8, p)
    BY <1>6, <2>1, <2>3, Zenon DEF S!SetTrSwitch
  <2> QED
    BY <2>5, <2>6, CallStep, Zenon
<1>7. ASSUME NEW enabled \in BOOLEAN, NEW level \in Levels, S!SetBuckBoostRegulator(enabled, level)
      PROVE  SettingsInv'
  <2>1. PICK c : c = [op |-> "set_regulator"]
    OBVIOUS
  <2>2. c.op = "set_regulator"
    BY <2>1
  <2>3. PICK p : p = <<(IF enabled THEN 128 ELSE 0) + level>>
    OBVIOUS
  <2>4. CASE level > 18
    <3>1. S!Invalid(c)
      BY <1>7, <2>1, <2>4, Zenon DEF S!SetBuckBoostRegulator
    <3> QED
      BY <3>1, InvalidStep, Zenon
  <2>5. CASE ~ (level > 18)
    <3>1. level \in 0 .. 18
      BY <2>5, DevicesAssumption
    <3>2. p \in Seq(Byte) /\ Len(p) = 1
      <4>1. (IF enabled THEN 128 ELSE 0) + level \in Byte
        BY <3>1 DEF Byte
      <4> QED
        BY <2>3, <4>1
    <3>3. Stands(c, S!Packet(5, p))
      BY <2>2, <3>2, OtherStands
    <3>4. S!Call(c, 5, p)
      BY <1>7, <2>1, <2>3, <2>5, Zenon DEF S!SetBuckBoostRegulator
    <3> QED
      BY <3>3, <3>4, CallStep, Zenon
  <2> QED
    BY <2>4, <2>5
<1>8. CASE S!GetBuckBoostRegulator
  <2>1. PICK c : c = [op |-> "get_regulator"]
    OBVIOUS
  <2>2. c.op = "get_regulator"
    BY <2>1
  <2>3. Stands(c, S!Packet(6, <<>>))
    BY <1>0, <2>2
  <2>4. S!Call(c, 6, <<>>)
    BY <1>8, <2>1, Zenon DEF S!GetBuckBoostRegulator
  <2> QED
    BY <2>3, <2>4, CallStep, Zenon
<1>9. ASSUME NEW packet \in Requests, S!Send(packet) PROVE SettingsInv'
  <2>1. packet.payload \in Seq(Byte)
    BY DevicesAssumption DEF Byte
  <2>2. S!Call(S!Meant(packet.type, packet.payload), packet.type, packet.payload)
    BY <1>9, Zenon DEF S!Send
  <2> QED
    BY <2>1, <2>2, PacketStands, CallStep, Zenon
<1>10. CASE S!TimeCalls
  BY <1>1, <1>2, <1>10, Zenon DEF S!TimeCalls
<1>11. CASE S!SignalCalls
  BY <1>3, <1>4, <1>5, <1>6, <1>11, Zenon DEF S!SignalCalls
<1>12. CASE S!RegulatorCalls
  BY <1>7, <1>8, <1>12, Zenon DEF S!RegulatorCalls
<1> QED
  BY <1>9, <1>10, <1>11, <1>12, Zenon DEF Call, Send

-----------------------------------------------------------------------------
(* The handlers *)

\* A handler runs while the call waits, and leaves the host alone.
LEMMA Serves ==
  ASSUME SettingsInv, NEW type, type # 0, S!Serving(type)
  PROVE  /\ request # S!Nothing /\ request.type = type /\ request' = S!Nothing
         /\ result = "waiting" /\ ~ Granted /\ Stands(call, request)
         /\ UNCHANGED <<call, result, answer, told>>
<1>1. /\ request.type = type /\ request' = S!Nothing
      /\ UNCHANGED <<call, result, answer, told>>
  BY Zenon DEF S!Serving, S!host
<1>2. request # S!Nothing
  <2>1. S!Nothing.type = 0
    BY Packets, Zenon
  <2> QED
    BY <1>1, <2>1, Zenon
<1>3. result = "waiting" /\ ~ Granted /\ Stands(call, request)
  BY <1>2, Zenon DEF SettingsInv, Quiet, Granted, RequestStands
<1> QED
  BY <1>1, <1>2, <1>3, Zenon

\* A handler keeps the invariant when the settings it leaves and its reply agree.
LEMMA Handled ==
  ASSUME SettingsInv, NEW type, type # 0, S!Serving(type), Sane', ReplyStands', DeviceKnown'
  PROVE  SettingsInv'
<1>1. request' = S!Nothing /\ result = "waiting" /\ UNCHANGED <<call, result, answer, told>>
  BY Serves, Zenon
<1>2. Quiet' /\ RequestStands'
  BY <1>1, Zenon DEF Quiet, RequestStands
<1>3. Answered'
  <2>1. result' # "ok"
    BY <1>1, Zenon
  <2> QED
    BY <2>1, Zenon DEF Answered
<1> QED
  BY <1>2, <1>3, Zenon DEF SettingsInv

\* A base frequency and a time that are left alone stay known.
LEMMA BaseKnown ==
  ASSUME SettingsInv, ~ Granted, UNCHANGED <<base, told>>
  PROVE  base' \in Freq /\ base' \in told'.freqs
BY Zenon DEF SettingsInv, DeviceKnown

\* The time.
LEMMA TimeKnown ==
  ASSUME SettingsInv, ~ Granted, UNCHANGED <<rtc, told>>
  PROVE  rtc' = S!NoTime \/ (Valid(rtc') /\ Shown(rtc') \in told'.times)
BY Zenon DEF SettingsInv, DeviceKnown

\* A device that is left alone stays known.
LEMMA LeftAlone ==
  ASSUME SettingsInv, ~ Granted, UNCHANGED <<base, rtc, told>>
  PROVE  DeviceKnown'
<1>1. base' \in Freq /\ base' \in told'.freqs
  BY BaseKnown, Zenon
<1>2. rtc' = S!NoTime \/ (Valid(rtc') /\ Shown(rtc') \in told'.times)
  BY TimeKnown, Zenon
<1> QED
  BY <1>1, <1>2, Zenon DEF DeviceKnown

\* A refusal changes nothing and claims nothing.
LEMMA RefusedStep ==
  ASSUME SettingsInv, NEW type, type # 0, S!Serving(type), S!Reply(S!NACK, <<>>),
         UNCHANGED <<base, rtc, ref, txActive, signal>>
  PROVE  SettingsInv'
<1>1. ~ Granted /\ UNCHANGED <<call, result, answer, told>>
  BY Serves, Zenon
<1>2. ~ Granted'
  <2>1. reply' = S!Packet(S!NACK, <<>>)
    BY Zenon DEF S!Reply
  <2>2. reply'.type = S!NACK
    BY <2>1, Packets, Zenon
  <2> QED
    BY <2>2, Zenon DEF Granted
<1>3. Sane'
  BY <1>1, Zenon DEF SettingsInv, Sane
<1>4. ReplyStands'
  BY <1>2, Zenon DEF ReplyStands
<1>5. DeviceKnown'
  BY <1>1, LeftAlone, Zenon
<1> QED
  BY <1>3, <1>4, <1>5, Handled, Zenon

\* Refuse, for any handler.
LEMMA RefuseStep ==
  ASSUME SettingsInv, NEW type, type # 0, S!Serving(type), S!Refuse
  PROVE  SettingsInv'
<1>1. S!Reply(S!NACK, <<>>) /\ UNCHANGED <<base, rtc, ref, txActive, signal>>
  BY Zenon DEF S!Refuse, S!device
<1> QED
  BY <1>1, RefusedStep, Zenon

\* An answer to a call about which nothing is claimed.
LEMMA OtherReply ==
  ASSUME SettingsInv, NEW type, type # 0, S!Serving(type), Sane', UNCHANGED <<base, rtc>>,
         call.op # "set_time", call.op # "set_base", call.op # "get_time",
         call.op # "get_base", call.op # "test_signal"
  PROVE  SettingsInv'
<1>1. ~ Granted /\ UNCHANGED <<call, result, answer, told>>
  BY Serves, Zenon
<1>2. ReplyStands'
  BY <1>1, Zenon DEF ReplyStands
<1>3. DeviceKnown'
  BY <1>1, LeftAlone, Zenon
<1> QED
  BY <1>2, <1>3, Handled, Zenon

\* What a call is about, by the packet that stands for it.
LEMMA Elsewhere ==
  ASSUME NEW c, NEW p, Stands(c, p)
  PROVE  /\ c.op = "set_time" => p.type = 1
         /\ c.op = "set_base" => p.type = 3
         /\ c.op = "get_time" => p.type = 2
         /\ c.op = "get_base" => p.type = 4
         /\ c.op = "test_signal" => p.type = 7
BY Zenon DEF Stands

-----------------------------------------------------------------------------
(* The clock *)

\* A time that the driver takes has a year of two bytes, and is a byte otherwise.
LEMMA ValidTime ==
  ASSUME NEW t, Valid(t)
  PROVE  /\ t # S!NoTime
         /\ t[1] + 1900 \in Nat /\ (t[1] + 1900) \div 256 \in 7 .. 8 /\ t[2] + 1 \in Byte
         /\ t[3] \in Byte /\ t[4] \in Byte /\ t[5] \in Byte /\ t[6] \in Byte
<1>1. t \in [1 .. 6 -> Int]
  BY DEF Valid
<1>2. /\ t[1] + 1900 \in 2000 .. 2099 /\ t[2] \in 0 .. 11 /\ t[3] \in 1 .. 31
      /\ t[4] \in 0 .. 23 /\ t[5] \in 0 .. 59 /\ t[6] \in 0 .. 59
  BY DEF Valid, S!Takes
<1>3. t # S!NoTime
  <2>1. DOMAIN t = 1 .. 6
    BY <1>1
  <2>2. 1 \in DOMAIN t
    BY <2>1
  <2>3. ~ (1 \in DOMAIN S!NoTime)
    BY DEF S!NoTime
  <2> QED
    BY <2>2, <2>3, Zenon
<1>4. t[1] + 1900 \in Nat /\ (t[1] + 1900) \div 256 \in 7 .. 8
  <2>1. PICK y : y = t[1] + 1900
    OBVIOUS
  <2>2. y \in Int /\ 2000 <= y /\ y <= 2099
    BY <1>2, <2>1, SMT
  <2>3. y \in Nat /\ y \div 256 \in 7 .. 8
    BY <2>2, SMT
  <2> QED
    BY <2>1, <2>3
<1>5. t[2] + 1 \in Byte /\ t[3] \in Byte /\ t[4] \in Byte /\ t[5] \in Byte /\ t[6] \in Byte
  BY <1>2 DEF Byte
<1> QED
  BY <1>3, <1>4, <1>5

\* What the driver shows is what it was given.
LEMMA Shows ==
  ASSUME NEW t \in [1 .. 6 -> Int]
  PROVE  S!Kept(t) \in [1 .. 6 -> Int] /\ Shown(S!Kept(t)) = t
<1>1. PICK u : u = S!Kept(t)
  OBVIOUS
<1>2. /\ u[1] = t[1] - 1900 /\ u[2] = t[2] - 1
      /\ u[3] = t[3] /\ u[4] = t[4] /\ u[5] = t[5] /\ u[6] = t[6]
  BY <1>1, SMT DEF S!Kept
<1>3. u \in [1 .. 6 -> Int]
  <2>1. \A k \in 1 .. 6 : t[k] \in Int
    OBVIOUS
  <2>2. u = <<t[1] - 1900, t[2] - 1, t[3], t[4], t[5], t[6]>>
    BY <1>1, SMT DEF S!Kept
  <2>3. t[1] - 1900 \in Int /\ t[2] - 1 \in Int
    BY <2>1
  <2>5. PICK a \in Int : a = t[1] - 1900
    BY <2>3
  <2>6. PICK b \in Int : b = t[2] - 1
    BY <2>3
  <2>7. PICK c \in Int : c = t[3]
    BY <2>1
  <2>8. PICK d \in Int : d = t[4]
    BY <2>1
  <2>9. PICK e \in Int : e = t[5]
    BY <2>1
  <2>10. PICK f \in Int : f = t[6]
    BY <2>1
  <2>11. u = <<a, b, c, d, e, f>>
    BY <2>2, <2>5, <2>6, <2>7, <2>8, <2>9, <2>10, SMT
  <2> QED
    BY <2>11, SMT
<1>4. Shown(u) = [k \in 1 .. 6 |-> t[k]]
  <2>1. ASSUME NEW k \in 1 .. 6
        PROVE  (IF k = 1 THEN u[1] + 1900 ELSE IF k = 2 THEN u[2] + 1 ELSE u[k]) = t[k]
    <3>1. t[1] \in Int /\ t[2] \in Int
      OBVIOUS
    <3>2. u[1] = t[1] - 1900 /\ u[2] = t[2] - 1
      BY <1>2, SMT
    <3>3. u[1] + 1900 = t[1] /\ u[2] + 1 = t[2]
      BY <3>1, <3>2
    <3>4. k # 1 /\ k # 2 => u[k] = t[k]
      BY <1>2
    <3> QED
      BY <3>3, <3>4
  <2> QED
    BY <2>1 DEF Shown
<1>5. [k \in 1 .. 6 |-> t[k]] = t
  OBVIOUS
<1> QED
  BY <1>1, <1>3, <1>4, <1>5

\* rtc_set_time: the fields that are kept show the time of the packet, and so of the call.
LEMMA SetTimeStep ==
  ASSUME SettingsInv, S!HandleRtcSetTime
  PROVE  SettingsInv'
<1>1. PICK type : type = 1
  OBVIOUS
<1>2. type # 0 /\ S!Serving(type)
  <2>1. type # 0
    BY <1>1
  <2> QED
    BY <1>1, <2>1, Zenon DEF S!HandleRtcSetTime
<1>3. /\ request.type = type /\ ~ Granted /\ Stands(call, request)
      /\ UNCHANGED <<call, result, answer, told>>
  BY <1>2, Serves, Zenon
<1>4. CASE S!Refuse
  BY <1>2, <1>4, RefuseStep, Zenon
<1>5. CASE ~ S!Refuse
  <2>1. PICK tm : tm = S!Kept(S!TimeIn(request.payload))
    OBVIOUS
  <2>2. /\ ~ (Len(request.payload) < 7) /\ S!Takes(tm) /\ rtc' = tm /\ S!Reply(S!ACK, <<>>)
        /\ UNCHANGED <<base, ref, txActive, signal>>
    <3>1. /\ ~ (Len(request.payload) < 7) /\ S!Takes(S!Kept(S!TimeIn(request.payload)))
          /\ rtc' = S!Kept(S!TimeIn(request.payload)) /\ S!Reply(S!ACK, <<>>)
          /\ UNCHANGED <<base, ref, txActive, signal>>
      BY <1>5, Zenon DEF S!HandleRtcSetTime
    <3> QED
      BY <2>1, <3>1, Zenon
  <2>3. request.payload \in Seq(Byte)
    BY <1>3, Zenon DEF Stands
  <2>4. Len(request.payload) >= 7
    BY <2>2, <2>3, LenProperties
  <2>5. call.op = "set_time" /\ S!TimeIn(request.payload) = call.value
    BY <1>1, <1>3, <2>4, Zenon DEF Stands
  <2>6. S!TimeIn(request.payload) \in [1 .. 6 -> Int]
    <3>1. \A i \in 1 .. 7 : request.payload[i] \in Int
      <4>1. PICK p \in Seq(Byte) : p = request.payload
        BY <2>3
      <4>2. Len(p) \in Nat /\ Len(p) >= 7
        BY <2>4, <4>1, LenProperties
      <4>3. \A i \in 1 .. 7 : p[i] \in Byte
        BY <4>2, ElementOfSeq
      <4>4. \A i \in 1 .. 7 : p[i] \in Int
        <5>1. \A n \in Byte : n \in Int
          BY DEF Byte
        <5> QED
          BY <4>3, <5>1, Zenon
      <4> QED
        BY <4>1, <4>4, Zenon
    <3>2. PICK p : p = request.payload
      OBVIOUS
    <3>3. \A k \in 1 .. 6 : (IF k = 1 THEN 256 * p[2] + p[1] ELSE p[k + 1]) \in Int
      BY <3>1, <3>2
    <3>4. S!TimeIn(p) = [k \in 1 .. 6 |-> IF k = 1 THEN 256 * p[2] + p[1] ELSE p[k + 1]]
      BY <2>3, <2>4, <3>2, TimeInPayload
    <3> QED
      BY <3>2, <3>3, <3>4
  <2>7. Valid(tm) /\ Shown(tm) = call.value
    <3>1. tm \in [1 .. 6 -> Int] /\ Shown(tm) = S!TimeIn(request.payload)
      BY <2>1, <2>6, Shows
    <3> QED
      BY <2>2, <2>5, <3>1, Zenon DEF Valid
  <2>8. reply'.type = S!ACK /\ reply' # S!Nothing
    <3>1. reply' = S!Packet(S!ACK, <<>>)
      BY <2>2, Zenon DEF S!Reply
    <3>2. S!ACK # 0
      BY DEF S!ACK
    <3> QED
      BY <3>1, <3>2, Packets, Zenon
  <2>9. Granted'
    BY <2>8, Packets, Zenon DEF Granted
  <2>10. call'.op = "set_time"
    BY <1>3, <2>5, Zenon
  <2>11. Sane'
    BY <1>3, <2>2, Zenon DEF SettingsInv, Sane
  <2>12. ReplyStands'
    <3>1. rtc' # S!NoTime
      <4>1. tm # S!NoTime
        BY <2>7, ValidTime
      <4> QED
        BY <2>2, <4>1, Zenon
    <3>2. Shown(rtc') = call'.value
      BY <1>3, <2>2, <2>7, Zenon
    <3>3. call'.op # "set_base" /\ call'.op # "get_time" /\ call'.op # "get_base" /\ call'.op # "test_signal"
      BY <2>10, Zenon
    <3> QED
      BY <3>1, <3>2, <3>3, Zenon DEF ReplyStands
  <2>13. DeviceKnown'
    <3>1. base' \in Freq /\ base' \in told'.freqs
      BY <1>3, <2>2, BaseKnown, Zenon
    <3> QED
      BY <2>2, <2>7, <2>9, <2>10, <3>1, Zenon DEF DeviceKnown
  <2> QED
    BY <1>2, <2>11, <2>12, <2>13, Handled, Zenon
<1> QED
  BY <1>4, <1>5

\* rtc_get_time: the payload is the time the device shows.
LEMMA GetTimeStep ==
  ASSUME SettingsInv, S!HandleRtcGetTime
  PROVE  SettingsInv'
<1>1. PICK type : type = 2
  OBVIOUS
<1>2. type # 0 /\ S!Serving(type)
  <2>1. type # 0
    BY <1>1
  <2> QED
    BY <1>1, <2>1, Zenon DEF S!HandleRtcGetTime
<1>3. /\ request.type = type /\ ~ Granted /\ Stands(call, request)
      /\ UNCHANGED <<call, result, answer, told>>
  BY <1>2, Serves, Zenon
<1>4. CASE S!Refuse
  BY <1>2, <1>4, RefuseStep, Zenon
<1>5. CASE ~ S!Refuse
  <2>1. PICK writer : writer = S!TimeWriter(rtc)
    OBVIOUS
  <2>2. /\ rtc # S!NoTime
        /\ IF writer.error THEN S!Reply(S!NACK, <<>>) ELSE S!Reply(2, writer.bytes)
        /\ UNCHANGED <<base, rtc, ref, txActive, signal>>
    <3>1. /\ rtc # S!NoTime
          /\ IF S!TimeWriter(rtc).error
             THEN S!Reply(S!NACK, <<>>)
             ELSE S!Reply(2, S!TimeWriter(rtc).bytes)
          /\ UNCHANGED S!device
      BY <1>5, Zenon DEF S!HandleRtcGetTime
    <3> QED
      BY <2>1, <3>1, Zenon DEF S!device
  <2>3. Valid(rtc) /\ Shown(rtc) \in told.times
    BY <1>3, <2>2, Zenon DEF SettingsInv, DeviceKnown
  <2>4. PICK y : y = rtc[1] + 1900
    OBVIOUS
  <2>5. PICK m : m = rtc[2] + 1
    OBVIOUS
  <2>6. /\ y \in Nat /\ y \div 256 \in 7 .. 8 /\ m \in Byte
        /\ rtc[3] \in Byte /\ rtc[4] \in Byte /\ rtc[5] \in Byte /\ rtc[6] \in Byte
    BY <2>3, <2>4, <2>5, ValidTime
  <2>7. PICK lo : lo = y % 256
    OBVIOUS
  <2>8. PICK hi : hi = y \div 256
    OBVIOUS
  <2>9. hi \in Byte /\ 256 * hi + lo = y
    <3>1. hi \in 7 .. 8
      BY <2>6, <2>8
    <3> QED
      BY <2>6, <2>7, <2>8, <3>1 DEF Byte
  <2>10. ~ writer.error /\ TimeBytes(writer.bytes, lo, hi, m, rtc[3], rtc[4], rtc[5], rtc[6])
    <3>1. PICK d \in Byte : d = rtc[3]
      BY <2>6
    <3>2. PICK h \in Byte : h = rtc[4]
      BY <2>6
    <3>3. PICK i \in Byte : i = rtc[5]
      BY <2>6
    <3>4. PICK s \in Byte : s = rtc[6]
      BY <2>6
    <3>5. writer = S!Written(16, <<S!LE(y, 2), S!LE(m, 1), S!LE(d, 1), S!LE(h, 1), S!LE(i, 1), S!LE(s, 1)>>)
      BY <2>1, <2>4, <2>5, <3>1, <3>2, <3>3, <3>4, SMT DEF S!TimeWriter
    <3>6. y \div 256 \in Byte
      BY <2>8, <2>9
    <3>7. ~ writer.error /\ TimeBytes(writer.bytes, lo, hi, m, d, h, i, s)
      BY <2>6, <2>7, <2>8, <3>5, <3>6, TimeWritten
    <3> QED
      BY <3>1, <3>2, <3>3, <3>4, <3>7
  <2>11. S!TimeIn(writer.bytes) = <<y, m, rtc[3], rtc[4], rtc[5], rtc[6]>>
    BY <2>9, <2>10, TimeFromBytes
  <2>12. Shown(rtc) = <<y, m, rtc[3], rtc[4], rtc[5], rtc[6]>>
    BY <2>4, <2>5 DEF Shown
  <2>13. reply' = S!Packet(2, writer.bytes)
    BY <2>2, <2>10, Zenon DEF S!Reply
  <2>14. reply'.payload = writer.bytes
    BY <2>13, Packets, ZenonT(60)
  <2>15. Len(reply'.payload) >= 7 /\ S!TimeIn(reply'.payload) \in told'.times
    <3>1. Len(writer.bytes) >= 7
      <4>1. Len(writer.bytes) = 7
        BY <2>10, Zenon DEF TimeBytes
      <4> QED
        BY <4>1
    <3> QED
      BY <1>3, <2>3, <2>11, <2>12, <2>14, <3>1, Zenon
  <2>16. Sane'
    BY <1>3, <2>2, Zenon DEF SettingsInv, Sane
  <2>17. ReplyStands'
    <3>1. 2 # 1 /\ 2 # 3 /\ 2 # 4 /\ 2 # 7
      OBVIOUS
    <3>2. call'.op # "set_time" /\ call'.op # "set_base" /\ call'.op # "get_base" /\ call'.op # "test_signal"
      BY <1>1, <1>3, <3>1, Elsewhere, Zenon
    <3> QED
      BY <2>15, <3>2, Zenon DEF ReplyStands
  <2>18. DeviceKnown'
    BY <1>3, <2>2, LeftAlone, Zenon
  <2> QED
    BY <1>2, <2>16, <2>17, <2>18, Handled, Zenon
<1> QED
  BY <1>4, <1>5

-----------------------------------------------------------------------------
(* The frequency and the signal *)

\* A field that a payload has room for.
LEMMA ReadFirst ==
  ASSUME NEW payload \in Seq(Byte), NEW w \in Nat, w <= Len(payload)
  PROVE  LET cursor == S!Read(payload, <<w>>)
         IN ~ cursor.error /\ cursor.fields[1] = SubSeq(payload, 1, w)
<1>1. Start(payload) = Cursor(payload, 0, <<>>)
  <2>1. SubSeq(payload, 1, Len(payload)) = payload
    BY SubSeqFull
  <2>2. SubSeq(payload, 0 + 1, Len(payload)) = payload
    BY <2>1
  <2> QED
    BY <2>2, Zenon DEF Start, Cursor
<1>2. PICK off \in Nat : off = 0
  OBVIOUS
<1>3. PICK fields : fields = <<>>
  OBVIOUS
<1>4. off + w <= Len(payload) /\ off + 1 = 1 /\ off + w = w
  BY <1>2, LenProperties
<1>5. S!Get(Cursor(payload, off, fields), w) =
        Cursor(payload, off + w, Append(fields, SubSeq(payload, off + 1, off + w)))
  BY <1>4, GetField
<1>6. PICK f : f = SubSeq(payload, 1, w)
  OBVIOUS
<1>7. S!Read(payload, <<w>>) = Cursor(payload, w, Append(<<>>, f))
  BY <1>1, <1>2, <1>3, <1>4, <1>5, <1>6, ReadOne
<1>8. PICK cursor : cursor = S!Read(payload, <<w>>)
  OBVIOUS
<1>9. ~ cursor.error /\ cursor.fields = Append(<<>>, f)
  BY <1>7, <1>8 DEF Cursor
<1>10. Append(<<>>, f)[1] = f
  <2>1. Append(<<>>, f) = <<f>>
    OBVIOUS
  <2> QED
    BY <2>1
<1> QED
  BY <1>6, <1>8, <1>9, <1>10

\* Eight bytes are a number.
LEMMA ValueOfEight ==
  ASSUME NEW bytes \in Seq(Byte), Len(bytes) = 8
  PROVE  S!Value(bytes) \in Int
<1>1. ASSUME NEW n \in Nat, NEW b \in Byte PROVE S!Lengthened(n, b) \in Nat
  BY <1>1, SMT DEF S!Lengthened, S!Largest, Byte
<1>2. /\ bytes[1] \in Byte /\ bytes[2] \in Byte /\ bytes[3] \in Byte /\ bytes[4] \in Byte
      /\ bytes[5] \in Byte /\ bytes[6] \in Byte /\ bytes[7] \in Byte /\ bytes[8] \in Byte
  <2>1. \A i \in 1 .. 8 : bytes[i] \in Byte
    BY ElementOfSeq
  <2> QED
    BY <2>1
<1>12. PICK n9 \in Nat : n9 = 0
  OBVIOUS
<1>3. PICK n8 \in Nat : n8 = S!Lengthened(n9, bytes[8])
  BY <1>1, <1>2, Zenon
<1>4. PICK n7 \in Nat : n7 = S!Lengthened(n8, bytes[7])
  BY <1>1, <1>2, Zenon
<1>5. PICK n6 \in Nat : n6 = S!Lengthened(n7, bytes[6])
  BY <1>1, <1>2, Zenon
<1>6. PICK n5 \in Nat : n5 = S!Lengthened(n6, bytes[5])
  BY <1>1, <1>2, Zenon
<1>7. PICK n4 \in Nat : n4 = S!Lengthened(n5, bytes[4])
  BY <1>1, <1>2, Zenon
<1>8. PICK n3 \in Nat : n3 = S!Lengthened(n4, bytes[3])
  BY <1>1, <1>2, Zenon
<1>9. PICK n2 \in Nat : n2 = S!Lengthened(n3, bytes[2])
  BY <1>1, <1>2, Zenon
<1>10. PICK n1 \in Nat : n1 = S!Lengthened(n2, bytes[1])
  BY <1>1, <1>2, Zenon
<1>11. S!Value(bytes) = n1
  BY <1>3, <1>4, <1>5, <1>6, <1>7, <1>8, <1>9, <1>10, <1>12, ValueEight
<1> QED
  BY <1>11

\* set_base_freq: the frequency is that of the packet, in the band.
LEMMA SetBaseStep ==
  ASSUME SettingsInv, S!HandleSetBaseFreq
  PROVE  SettingsInv'
<1>1. PICK type : type = 3
  OBVIOUS
<1>2. type # 0 /\ S!Serving(type)
  <2>1. type # 0
    BY <1>1
  <2> QED
    BY <1>1, <2>1, Zenon DEF S!HandleSetBaseFreq
<1>3. /\ request.type = type /\ ~ Granted /\ Stands(call, request)
      /\ UNCHANGED <<call, result, answer, told>>
  BY <1>2, Serves, Zenon
<1>4. CASE S!Refuse
  BY <1>2, <1>4, RefuseStep, Zenon
<1>5. CASE ~ S!Refuse
  <2>1. PICK cursor : cursor = S!Read(request.payload, <<8>>)
    OBVIOUS
  <2>2. /\ ~ (Len(request.payload) < 8) /\ base' = S!clamp_frequency(S!Value(cursor.fields[1]))
        /\ S!Reply(IF cursor.error THEN S!NACK ELSE S!ACK, <<>>)
        /\ UNCHANGED <<rtc, ref, txActive, signal>>
    BY <1>5, <2>1, Zenon DEF S!HandleSetBaseFreq
  <2>3. PICK p \in Seq(Byte) : p = request.payload
    BY <1>3, Zenon DEF Stands
  <2>4. Len(p) \in Nat /\ Len(p) >= 8
    BY <2>2, <2>3, LenProperties
  <2>5. PICK w \in Nat : w = 8
    OBVIOUS
  <2>6. ~ cursor.error /\ cursor.fields[1] = SubSeq(p, 1, 8)
    <3>1. w <= Len(p)
      BY <2>4, <2>5
    <3> QED
      BY <2>1, <2>3, <2>5, <3>1, ReadFirst
  <2>7. call.op = "set_base" /\ S!clamp_frequency(S!Value(SubSeq(p, 1, 8))) = call.value
    BY <1>1, <1>3, <2>3, <2>4, Zenon DEF Stands
  <2>8. base' = call.value
    BY <2>2, <2>6, <2>7, Zenon
  <2>9. base' \in Freq
    <3>1. PICK a, b \in Nat : a = 1 /\ b = 8
      OBVIOUS
    <3>2. 1 <= a /\ a <= b /\ b <= Len(p) /\ b - a + 1 = 8
      BY <2>4, <3>1
    <3>3. SubSeq(p, a, b) \in Seq(Byte) /\ Len(SubSeq(p, a, b)) = b - a + 1
      BY <3>2, PartOf
    <3>4. S!Value(SubSeq(p, 1, 8)) \in Int
      BY <3>1, <3>2, <3>3, ValueOfEight
    <3> QED
      BY <2>2, <2>6, <3>4, Clamped
  <2>10. reply' = S!Packet(S!ACK, <<>>)
    BY <2>2, <2>6, Zenon DEF S!Reply
  <2>11. Granted'
    <3>1. S!ACK # 0
      BY DEF S!ACK
    <3> QED
      BY <2>10, <3>1, Packets, Zenon DEF Granted
  <2>12. call'.op = "set_base" /\ call'.value = call.value
    BY <1>3, <2>7, Zenon
  <2>13. Sane'
    BY <1>3, <2>2, Zenon DEF SettingsInv, Sane
  <2>14. ReplyStands'
    <3>1. call'.op # "set_time" /\ call'.op # "get_time" /\ call'.op # "get_base" /\ call'.op # "test_signal"
      BY <2>12, Zenon
    <3> QED
      BY <2>8, <2>12, <3>1, Zenon DEF ReplyStands
  <2>15. DeviceKnown'
    <3>1. rtc' = S!NoTime \/ (Valid(rtc') /\ Shown(rtc') \in told'.times)
      BY <1>3, <2>2, TimeKnown, Zenon
    <3> QED
      BY <2>9, <2>11, <2>12, <3>1, Zenon DEF DeviceKnown
  <2> QED
    BY <1>2, <2>13, <2>14, <2>15, Handled, Zenon
<1> QED
  BY <1>4, <1>5

\* get_base_freq: the payload is the base frequency.
LEMMA GetBaseStep ==
  ASSUME SettingsInv, S!HandleGetBaseFreq
  PROVE  SettingsInv'
<1>1. PICK type : type = 4
  OBVIOUS
<1>2. type # 0 /\ S!Serving(type)
  <2>1. type # 0
    BY <1>1
  <2> QED
    BY <1>1, <2>1, Zenon DEF S!HandleGetBaseFreq
<1>3. /\ request.type = type /\ ~ Granted /\ Stands(call, request)
      /\ UNCHANGED <<call, result, answer, told>>
  BY <1>2, Serves, Zenon
<1>4. PICK writer : writer = S!Written(8, <<S!LE(base, 8)>>)
  OBVIOUS
<1>5. /\ IF writer.error THEN S!Reply(S!NACK, <<>>) ELSE S!Reply(4, writer.bytes)
      /\ UNCHANGED <<base, rtc, ref, txActive, signal>>
  BY <1>4, Zenon DEF S!HandleGetBaseFreq, S!device
<1>6. base \in Freq /\ base \in told.freqs
  BY <1>3, Zenon DEF SettingsInv, DeviceKnown
<1>7. ~ writer.error /\ writer.bytes = S!LE(base, 8)
  BY <1>4, <1>6, FreqWritten, Zenon
<1>8. reply'.payload = S!LE(base, 8)
  <2>1. reply' = S!Packet(4, writer.bytes)
    BY <1>5, <1>7, Zenon DEF S!Reply
  <2> QED
    BY <1>7, <2>1, Packets, Zenon
<1>9. Len(reply'.payload) >= 8 /\ S!Value(SubSeq(reply'.payload, 1, 8)) \in told'.freqs
  <2>1. Len(S!LE(base, 8)) = 8
    BY <1>6, FreqBytes
  <2>2. Len(reply'.payload) >= 8
    <3>1. Len(reply'.payload) = 8
      BY <1>8, <2>1, Zenon
    <3> QED
      BY <3>1
  <2>3. S!Value(SubSeq(S!LE(base, 8), 1, 8)) = base
    <3>1. S!Value(S!LE(base, 8)) = base
      BY <1>6, FreqBytes
    <3>2. SubSeq(S!LE(base, 8), 1, 8) = S!LE(base, 8)
      BY <1>6, FreqSent
    <3> QED
      BY <3>1, <3>2, Zenon
  <2> QED
    BY <1>3, <1>6, <1>8, <2>2, <2>3, Zenon
<1>10. Sane'
  BY <1>3, <1>5, Zenon DEF SettingsInv, Sane
<1>11. ReplyStands'
  <2>1. 4 # 1 /\ 4 # 3 /\ 4 # 2 /\ 4 # 7
    OBVIOUS
  <2>2. call'.op # "set_time" /\ call'.op # "set_base" /\ call'.op # "get_time" /\ call'.op # "test_signal"
    BY <1>1, <1>3, <2>1, Elsewhere, Zenon
  <2> QED
    BY <1>9, <2>2, Zenon DEF ReplyStands
<1>12. DeviceKnown'
  BY <1>3, <1>5, LeftAlone, Zenon
<1> QED
  BY <1>2, <1>10, <1>11, <1>12, Handled, Zenon

\* tx_test_signal: the base frequency, and a thousand times the length.
LEMMA SignalStep ==
  ASSUME SettingsInv, S!HandleTxTestSignal
  PROVE  SettingsInv'
<1>1. PICK type : type = 7
  OBVIOUS
<1>2. type # 0 /\ S!Serving(type)
  <2>1. type # 0
    BY <1>1
  <2> QED
    BY <1>1, <2>1, Zenon DEF S!HandleTxTestSignal
<1>3. /\ request.type = type /\ ~ Granted /\ Stands(call, request)
      /\ UNCHANGED <<call, result, answer, told>>
  BY <1>2, Serves, Zenon
<1>4. CASE S!Refuse
  BY <1>2, <1>4, RefuseStep, Zenon
<1>5. CASE ~ S!Refuse
  <2>1. PICK bytes : bytes = S!Read(request.payload, <<4>>).fields[1]
    OBVIOUS
  <2>2. PICK hundredth : hundredth = S!clamp_frequency(base) \div 100
    OBVIOUS
  <2>3. /\ ~ (Len(request.payload) < 4)
        /\ signal' = [us |-> S!Thousandfold(bytes), hz |-> hundredth]
        /\ S!Reply(S!ACK, <<>>) /\ UNCHANGED <<base, rtc, ref, txActive>>
    BY <1>5, <2>1, <2>2, Zenon DEF S!HandleTxTestSignal
  <2>4. PICK p \in Seq(Byte) : p = request.payload
    BY <1>3, Zenon DEF Stands
  <2>5. Len(p) \in Nat /\ Len(p) >= 4
    BY <2>3, <2>4, LenProperties
  <2>6. PICK w \in Nat : w = 4
    OBVIOUS
  <2>7. bytes = SubSeq(p, 1, 4)
    <3>1. w <= Len(p)
      BY <2>5, <2>6
    <3> QED
      BY <2>1, <2>4, <2>6, <3>1, ReadFirst
  <2>8. bytes \in Seq(Byte) /\ Len(bytes) = 4
    <3>1. PICK a, b \in Nat : a = 1 /\ b = 4
      OBVIOUS
    <3>2. 1 <= a /\ a <= b /\ b <= Len(p) /\ b - a + 1 = 4
      BY <2>5, <3>1
    <3>3. SubSeq(p, a, b) \in Seq(Byte) /\ Len(SubSeq(p, a, b)) = b - a + 1
      BY <3>2, PartOf
    <3> QED
      BY <2>7, <3>1, <3>2, <3>3
  <2>9. signal'.us = S!Thousandfold(bytes) /\ signal'.hz = hundredth
    BY <2>3
  <2>10. Sane'
    <3>1. Len(signal'.us) = 4
      BY <2>8, <2>9, LengthOfSignal, Zenon
    <3> QED
      BY <1>3, <2>3, <3>1, Zenon DEF SettingsInv, Sane
  <2>11. base \in Freq /\ base \in told.freqs
    BY <1>3, Zenon DEF SettingsInv, DeviceKnown
  <2>12. signal'.hz \in {f \div 100 : f \in told.freqs}
    <3>1. signal'.hz = base \div 100
      BY <2>2, <2>9, <2>11, FreqSent
    <3> QED
      BY <2>11, <3>1
  <2>13. ASSUME call.op = "test_signal" PROVE SignalFor(call.value)'
    <3>1. p = call.value /\ Len(p) = 4
      BY <1>3, <2>4, <2>13, Zenon DEF Stands
    <3>2. bytes = call.value
      <4>1. SubSeq(p, 1, Len(p)) = p
        BY SubSeqFull
      <4> QED
        BY <2>7, <3>1, <4>1, Zenon
    <3>3. Short(bytes) => S!Divided(S!Reverse(signal'.us), 1000) = [quotient |-> S!Reverse(bytes), rest |-> 0]
      BY <2>8, <2>9, SignalLength
    <3>4. call'.value = bytes /\ told' = told
      BY <1>3, <3>2, Zenon
    <3>5. signal'.hz \in {f \div 100 : f \in told'.freqs}
      BY <2>12, <3>4
    <3>6. Short(call'.value) =>
            S!Divided(S!Reverse(signal'.us), 1000) = [quotient |-> S!Reverse(call'.value), rest |-> 0]
      BY <3>3, <3>4
    <3> QED
      BY <3>5, <3>6 DEF SignalFor
  <2>14. ReplyStands'
    <3>1. 7 # 1 /\ 7 # 3 /\ 7 # 2 /\ 7 # 4
      OBVIOUS
    <3>2. call'.op # "set_time" /\ call'.op # "set_base" /\ call'.op # "get_time" /\ call'.op # "get_base"
      BY <1>1, <1>3, <3>1, Elsewhere, Zenon
    <3>3. call' = call
      BY <1>3, Zenon
    <3> QED
      BY <2>13, <3>2, <3>3, Zenon DEF ReplyStands
  <2>15. DeviceKnown'
    BY <1>3, <2>3, LeftAlone, Zenon
  <2> QED
    BY <1>2, <2>10, <2>14, <2>15, Handled, Zenon
<1> QED
  BY <1>4, <1>5

-----------------------------------------------------------------------------
(* The other handlers, and the end of a call *)

\* What no type but its own can be about.
LEMMA OtherTypes ==
  ASSUME NEW c, NEW p, Stands(c, p), p.type # 1, p.type # 2, p.type # 3, p.type # 4, p.type # 7
  PROVE  /\ c.op # "set_time" /\ c.op # "set_base" /\ c.op # "get_time"
         /\ c.op # "get_base" /\ c.op # "test_signal"
BY Elsewhere, Zenon

\* set_buck_boost_regulator touches neither the time nor the frequency.
LEMMA VoltageStep ==
  ASSUME SettingsInv, S!HandleSetBuckBoostRegulator
  PROVE  SettingsInv'
<1>1. PICK type : type = 5
  OBVIOUS
<1>2. /\ type # 0 /\ type # 1 /\ type # 2 /\ type # 3 /\ type # 4 /\ type # 7
      /\ S!Serving(type)
  <2>1. type # 0 /\ type # 1 /\ type # 2 /\ type # 3 /\ type # 4 /\ type # 7
    BY <1>1
  <2> QED
    BY <1>1, <2>1, Zenon DEF S!HandleSetBuckBoostRegulator
<1>3. /\ request.type = type /\ ~ Granted /\ Stands(call, request)
      /\ UNCHANGED <<call, result, answer, told>>
  BY <1>2, Serves, Zenon
<1>4. CASE request.payload = <<>>
  <2>1. S!Refuse
    BY <1>4, Zenon DEF S!HandleSetBuckBoostRegulator
  <2> QED
    BY <1>2, <2>1, RefuseStep, Zenon
<1>5. CASE request.payload # <<>>
  <2>1. S!SetVoltage(10 * (request.payload[1] % 32)) /\ UNCHANGED <<base, rtc, txActive, signal>>
    BY <1>5, Zenon DEF S!HandleSetBuckBoostRegulator
  <2>2. PICK t \in Int : t = 10 * (request.payload[1] % 32)
    <3>1. request.payload \in Seq(Byte)
      BY <1>3, Zenon DEF Stands
    <3>2. PICK n \in Byte : n = request.payload[1]
      <4>1. Len(request.payload) \in Nat \ {0}
        BY <1>5, <3>1, EmptySeq
      <4>2. request.payload[1] \in Byte
        BY <3>1, <4>1, ElementOfSeq
      <4> QED
        BY <4>2
    <3>3. 10 * (n % 32) \in Int
      BY SMT DEF Byte
    <3> QED
      BY <3>2, <3>3
  <2>3. ref' \in Reg
    <3>1. ref' = S!Ref(t) \/ ref' = ref
      BY <2>1, <2>2, Zenon DEF S!SetVoltage
    <3> QED
      BY <2>2, <3>1, RefInRegister, Zenon DEF SettingsInv, Sane
  <2>4. Sane'
    BY <1>3, <2>1, <2>3, Zenon DEF SettingsInv, Sane
  <2> QED
    BY <1>2, <1>3, <2>1, <2>4, OtherTypes, OtherReply, Zenon
<1> QED
  BY <1>4, <1>5

\* tr_switch touches neither of them.
LEMMA SwitchStep ==
  ASSUME SettingsInv, S!HandleTrSwitch
  PROVE  SettingsInv'
<1>1. PICK type : type = 8
  OBVIOUS
<1>2. /\ type # 0 /\ type # 1 /\ type # 2 /\ type # 3 /\ type # 4 /\ type # 7
      /\ S!Serving(type)
  <2>1. type # 0 /\ type # 1 /\ type # 2 /\ type # 3 /\ type # 4 /\ type # 7
    BY <1>1
  <2> QED
    BY <1>1, <2>1, Zenon DEF S!HandleTrSwitch
<1>3. /\ request.type = type /\ ~ Granted /\ Stands(call, request)
      /\ UNCHANGED <<call, result, answer, told>>
  BY <1>2, Serves, Zenon
<1>4. CASE S!Refuse
  BY <1>2, <1>4, RefuseStep, Zenon
<1>5. CASE ~ S!Refuse
  <2>1. txActive' = (request.payload[1] = 1) /\ UNCHANGED <<base, rtc, ref, signal>>
    BY <1>5, Zenon DEF S!HandleTrSwitch
  <2>2. txActive' \in BOOLEAN
    BY <2>1, Zenon
  <2>3. Sane'
    BY <1>3, <2>1, <2>2, Zenon DEF SettingsInv, Sane
  <2> QED
    BY <1>2, <1>3, <2>1, <2>3, OtherTypes, OtherReply, Zenon
<1> QED
  BY <1>4, <1>5

\* A reset leaves the time, and the host knows the frequency it leaves.
LEMMA DeviceReset ==
  ASSUME SettingsInv, S!HandleReset
  PROVE  SettingsInv'
<1>1. /\ result # "waiting" /\ result' = "ok" /\ call' = [op |-> "reset"]
      /\ base' = S!Default /\ txActive' = FALSE /\ signal' = S!NoSignal
      /\ S!SetVoltage(12) /\ told' = [told EXCEPT !.freqs = {S!Default}]
      /\ UNCHANGED <<rtc, request, reply>>
  BY Zenon DEF S!HandleReset
<1>2. request = S!Nothing /\ reply = S!Nothing /\ ~ Granted
  BY <1>1, Idle, Zenon
<1>3. ~ Granted'
  BY <1>1, <1>2, Zenon DEF Granted
<1>4. call'.op = "reset"
  BY <1>1
<1>5. told' = [times |-> told'.times, freqs |-> told'.freqs] /\ told'.times = told.times /\ told'.freqs = {S!Default}
  <2>1. told = [times |-> told.times, freqs |-> told.freqs]
    BY Zenon DEF SettingsInv, Sane
  <2> QED
    BY <1>1, <2>1
<1>6. Sane'
  <2>1. ref' \in Reg
    <3>1. PICK t \in Int : t = 12
      OBVIOUS
    <3>2. ref' = S!Ref(t) \/ ref' = ref
      BY <1>1, <3>1, Zenon DEF S!SetVoltage
    <3> QED
      BY <3>1, <3>2, RefInRegister, Zenon DEF SettingsInv, Sane
  <2>2. Len(signal'.us) = 4
    BY <1>1, NoSignalLength, Zenon
  <2>3. txActive' \in BOOLEAN
    BY <1>1, Zenon
  <2> QED
    BY <1>1, <1>5, <2>1, <2>2, <2>3, Zenon DEF Sane
<1>7. Quiet' /\ RequestStands'
  BY <1>1, <1>2, Zenon DEF Quiet, RequestStands
<1>8. ReplyStands'
  BY <1>3, Zenon DEF ReplyStands
<1>9. DeviceKnown'
  <2>1. base' \in Freq
    BY <1>1, SMT DEF Freq, S!Default, S!BandMin, S!BandMax
  <2>2. base' \in told'.freqs
    BY <1>1, <1>5
  <2>3. rtc' = S!NoTime \/ (Valid(rtc') /\ Shown(rtc') \in told'.times)
    BY <1>1, <1>2, <1>5, Zenon DEF SettingsInv, DeviceKnown
  <2> QED
    BY <2>1, <2>2, <2>3, Zenon DEF DeviceKnown
<1>10. Answered'
  BY <1>4 DEF Answered
<1> QED
  BY <1>6, <1>7, <1>8, <1>9, <1>10, Zenon DEF SettingsInv

\* What the host may take the device to have after a call.
LEMMA ToldAfter ==
  ASSUME SettingsInv, NEW ok \in BOOLEAN
  PROVE  /\ call.op = "set_time" => S!Told(ok) = [times |-> S!Learn(told.times, ok), freqs |-> told.freqs]
         /\ call.op = "set_base" => S!Told(ok) = [times |-> told.times, freqs |-> S!Learn(told.freqs, ok)]
         /\ call.op # "set_time" /\ call.op # "set_base" => S!Told(ok) = told
<1>1. told = [times |-> told.times, freqs |-> told.freqs]
  BY Zenon DEF SettingsInv, Sane
<1>2. ASSUME call.op = "set_time"
      PROVE  S!Told(ok) = [times |-> S!Learn(told.times, ok), freqs |-> told.freqs]
  <2>1. S!Told(ok) = [told EXCEPT !.times = S!Learn(told.times, ok)]
    BY <1>2, SMT DEF S!Told
  <2> QED
    BY <1>1, <2>1
<1>3. ASSUME call.op = "set_base"
      PROVE  S!Told(ok) = [times |-> told.times, freqs |-> S!Learn(told.freqs, ok)]
  <2>1. S!Told(ok) = [told EXCEPT !.freqs = S!Learn(told.freqs, ok)]
    BY <1>3, SMT DEF S!Told
  <2> QED
    BY <1>1, <2>1
<1>4. ASSUME call.op # "set_time" /\ call.op # "set_base" PROVE S!Told(ok) = told
  BY <1>4, SMT DEF S!Told
<1> QED
  BY <1>2, <1>3, <1>4, Zenon

\* The device is known when a call has ended with a reply or in its timeout.
LEMMA KnownAfter ==
  ASSUME SettingsInv, NEW ok \in BOOLEAN, ok => Granted, told' = S!Told(ok), reply' = S!Nothing,
         UNCHANGED <<base, rtc>>
  PROVE  DeviceKnown' /\ told' = [times |-> told'.times, freqs |-> told'.freqs]
<1>1. /\ base \in Freq
      /\ base \in told.freqs \/ (Granted /\ call.op = "set_base")
      /\ \/ rtc = S!NoTime
         \/ Valid(rtc) /\ (Shown(rtc) \in told.times \/ (Granted /\ call.op = "set_time"))
  BY Zenon DEF SettingsInv, DeviceKnown
<1>2. /\ Granted /\ call.op = "set_time" => rtc # S!NoTime /\ Shown(rtc) = call.value
      /\ Granted /\ call.op = "set_base" => base = call.value
  BY Zenon DEF SettingsInv, ReplyStands
<1>3. ASSUME NEW values, NEW v, v \in values, ok => v = call.value PROVE v \in S!Learn(values, ok)
  BY <1>3, Zenon DEF S!Learn
<1>4. ASSUME NEW values PROVE call.value \in S!Learn(values, ok)
  BY Zenon DEF S!Learn
<1>5. CASE call.op = "set_time"
  <2>1. told' = [times |-> S!Learn(told.times, ok), freqs |-> told.freqs]
    BY <1>5, ToldAfter, Zenon
  <2>2. PICK times : times = S!Learn(told.times, ok)
    OBVIOUS
  <2>3. told'.times = times /\ told'.freqs = told.freqs
        /\ told' = [times |-> told'.times, freqs |-> told'.freqs]
    BY <2>1, <2>2
  <2>4. base \in told.freqs
    <3>1. call.op # "set_base"
      BY <1>5, Zenon
    <3> QED
      BY <1>1, <3>1, Zenon
  <2>5. rtc = S!NoTime \/ (Valid(rtc) /\ Shown(rtc) \in times)
    BY <1>1, <1>2, <1>3, <1>4, <1>5, <2>2, Zenon
  <2> QED
    BY <1>1, <2>3, <2>4, <2>5, Zenon DEF DeviceKnown
<1>6. CASE call.op = "set_base"
  <2>1. told' = [times |-> told.times, freqs |-> S!Learn(told.freqs, ok)]
    BY <1>6, ToldAfter, Zenon
  <2>2. PICK freqs : freqs = S!Learn(told.freqs, ok)
    OBVIOUS
  <2>3. told'.times = told.times /\ told'.freqs = freqs
        /\ told' = [times |-> told'.times, freqs |-> told'.freqs]
    BY <2>1, <2>2
  <2>4. base \in freqs
    BY <1>1, <1>2, <1>3, <1>4, <1>6, <2>2, Zenon
  <2>5. rtc = S!NoTime \/ (Valid(rtc) /\ Shown(rtc) \in told.times)
    <3>1. call.op # "set_time"
      BY <1>6, Zenon
    <3> QED
      BY <1>1, <3>1, Zenon
  <2> QED
    BY <1>1, <2>3, <2>4, <2>5, Zenon DEF DeviceKnown
<1>7. CASE call.op # "set_time" /\ call.op # "set_base"
  <2>1. told' = told
    BY <1>7, ToldAfter, Zenon
  <2>2. told' = [times |-> told'.times, freqs |-> told'.freqs]
    BY <2>1, Zenon DEF SettingsInv, Sane
  <2> QED
    BY <1>1, <1>7, <2>1, <2>2, Zenon DEF DeviceKnown
<1> QED
  BY <1>5, <1>6, <1>7

\* A call whose packet or reply was lost: the device may or may not have been told.
LEMMA TimeoutStep ==
  ASSUME SettingsInv, S!Timeout
  PROVE  SettingsInv'
<1>1. /\ result' = "timeout" /\ request' = S!Nothing /\ reply' = S!Nothing /\ told' = S!Told(FALSE)
      /\ UNCHANGED <<base, rtc, ref, txActive, signal, call, answer>>
  BY Zenon DEF S!Timeout, S!device
<1>2. DeviceKnown' /\ told' = [times |-> told'.times, freqs |-> told'.freqs]
  <2>1. PICK ok \in BOOLEAN : ok = FALSE
    OBVIOUS
  <2> QED
    BY <1>1, <2>1, KnownAfter, Zenon
<1>3. Sane'
  BY <1>1, <1>2, Zenon DEF SettingsInv, Sane
<1>4. Quiet' /\ RequestStands' /\ ReplyStands'
  BY <1>1, Zenon DEF Quiet, RequestStands, ReplyStands, Granted
<1>5. Answered'
  <2>1. result' # "ok"
    BY <1>1, Zenon
  <2> QED
    BY <2>1, Zenon DEF Answered
<1> QED
  BY <1>2, <1>3, <1>4, <1>5, Zenon DEF SettingsInv

\* What the library returns for a reply to a get.
LEMMA AnswerOf ==
  ASSUME NEW payload
  PROVE  /\ call.op = "get_time" /\ Len(payload) >= 7 => S!Answer(payload) = S!TimeIn(payload)
         /\ call.op = "get_base" /\ Len(payload) >= 8 =>
              S!Answer(payload) = <<S!Value(SubSeq(payload, 1, 8))>>
<1>1. ASSUME call.op = "get_time" /\ Len(payload) >= 7 PROVE S!Answer(payload) = S!TimeIn(payload)
  BY <1>1, SMT DEF S!Answer
<1>2. ASSUME call.op = "get_base" /\ Len(payload) >= 8
      PROVE  S!Answer(payload) = <<S!Value(SubSeq(payload, 1, 8))>>
  BY <1>2, SMT DEF S!Answer
<1> QED
  BY <1>1, <1>2, Zenon

\* A time is not the answer that stands for none.
LEMMA SomeTime == ASSUME NEW payload PROVE S!TimeIn(payload) # S!NoTime
<1>1. 1 \in DOMAIN S!TimeIn(payload)
  BY DEF S!TimeIn
<1>2. ~ (1 \in DOMAIN S!NoTime)
  BY DEF S!NoTime
<1> QED
  BY <1>1, <1>2, Zenon

\* A reply arrives.
LEMMA ReturnStep ==
  ASSUME SettingsInv, S!Return
  PROVE  SettingsInv'
<1>1. /\ reply # S!Nothing /\ reply' = S!Nothing
      /\ UNCHANGED <<base, rtc, ref, txActive, signal, request, call>>
  BY Zenon DEF S!Return, S!device
<1>2. request = S!Nothing
  BY <1>1, Zenon DEF SettingsInv, Quiet
<1>3. ~ Granted'
  BY <1>1, Zenon DEF Granted
<1>4. ReplyStands' /\ RequestStands'
  BY <1>1, <1>2, <1>3, Zenon DEF ReplyStands, RequestStands
<1>5. Quiet'
  BY <1>1, <1>2, Zenon DEF Quiet
<1>6. CASE reply.type = S!NACK
  <2>1. result' = "nack" /\ UNCHANGED <<answer, told>>
    BY <1>6, Zenon DEF S!Return
  <2>2. ~ Granted
    BY <1>6, Zenon DEF Granted
  <2>3. DeviceKnown'
    BY <1>1, <2>1, <2>2, LeftAlone, Zenon
  <2>4. Sane'
    BY <1>1, <2>1, Zenon DEF SettingsInv, Sane
  <2>5. Answered'
    <3>1. result' # "ok"
      BY <2>1, Zenon
    <3> QED
      BY <3>1, Zenon DEF Answered
  <2> QED
    BY <1>4, <1>5, <2>3, <2>4, <2>5, Zenon DEF SettingsInv
<1>7. CASE reply.type # S!NACK
  <2>1. /\ answer' = S!Answer(reply.payload) /\ told' = S!Told(TRUE)
        /\ result' = IF call.op \in {"get_time", "get_base"} /\ answer' = S!NoTime
                     THEN "invalid packet" ELSE "ok"
    BY <1>7, Zenon DEF S!Return
  <2>2. Granted
    BY <1>1, <1>7, Zenon DEF Granted
  <2>3. DeviceKnown' /\ told' = [times |-> told'.times, freqs |-> told'.freqs]
    <3>1. PICK ok \in BOOLEAN : ok = TRUE
      OBVIOUS
    <3> QED
      BY <1>1, <2>1, <2>2, <3>1, KnownAfter, Zenon
  <2>4. call.op # "set_time" /\ call.op # "set_base" => told' = told
    <3>1. PICK ok \in BOOLEAN : ok = TRUE
      OBVIOUS
    <3> QED
      BY <2>1, <3>1, ToldAfter, Zenon
  <2>5. /\ call.op = "get_time" => Len(reply.payload) >= 7 /\ S!TimeIn(reply.payload) \in told.times
        /\ call.op = "get_base" => Len(reply.payload) >= 8
                                   /\ S!Value(SubSeq(reply.payload, 1, 8)) \in told.freqs
        /\ call.op = "test_signal" => SignalFor(call.value)
    BY <2>2, Zenon DEF SettingsInv, ReplyStands
  <2>6. call.op = "get_time" => answer' # S!NoTime /\ answer' \in told'.times
    <3>1. SUFFICES ASSUME call.op = "get_time" PROVE answer' # S!NoTime /\ answer' \in told'.times
      OBVIOUS
    <3>2. call.op # "set_time" /\ call.op # "set_base"
      BY <3>1, Zenon
    <3>3. answer' = S!TimeIn(reply.payload)
      BY <2>1, <2>5, <3>1, AnswerOf, Zenon
    <3> QED
      BY <2>4, <2>5, <3>1, <3>2, <3>3, SomeTime, Zenon
  <2>7. call.op = "get_base" => answer' # S!NoTime /\ answer'[1] \in told'.freqs
    <3>1. SUFFICES ASSUME call.op = "get_base" PROVE answer' # S!NoTime /\ answer'[1] \in told'.freqs
      OBVIOUS
    <3>2. call.op # "set_time" /\ call.op # "set_base"
      BY <3>1, Zenon
    <3>3. PICK v : v = S!Value(SubSeq(reply.payload, 1, 8))
      OBVIOUS
    <3>4. answer' = <<v>>
      BY <2>1, <2>5, <3>1, <3>3, AnswerOf, Zenon
    <3>5. answer' # S!NoTime /\ answer'[1] = v
      BY <3>4 DEF S!NoTime
    <3> QED
      BY <2>4, <2>5, <3>1, <3>2, <3>3, <3>5, Zenon
  <2>8. result' = "ok"
    <3>1. ~ (call.op \in {"get_time", "get_base"} /\ answer' = S!NoTime)
      BY <2>6, <2>7, Zenon
    <3> QED
      BY <2>1, <3>1, Zenon
  <2>9. Sane'
    BY <1>1, <2>3, <2>8, Zenon DEF SettingsInv, Sane
  <2>10. call.op = "test_signal" => SignalFor(call.value)'
    <3>1. SUFFICES ASSUME call.op = "test_signal" PROVE SignalFor(call.value)'
      OBVIOUS
    <3>2. told' = told
      <4>1. call.op # "set_time" /\ call.op # "set_base"
        BY <3>1, Zenon
      <4> QED
        BY <2>4, <4>1, Zenon
    <3>3. SignalFor(call.value)
      BY <2>5, <3>1, Zenon
    <3> QED
      BY <1>1, <3>2, <3>3 DEF SignalFor
  <2>11. Answered'
    BY <1>1, <2>6, <2>7, <2>10, Zenon DEF Answered
  <2> QED
    BY <1>4, <1>5, <2>3, <2>9, <2>11, Zenon DEF SettingsInv
<1> QED
  BY <1>6, <1>7

-----------------------------------------------------------------------------
\* The invariant is inductive,
LEMMA SettingsInductive == SettingsInv /\ [Next]_vars => SettingsInv'
<1> SUFFICES ASSUME SettingsInv, [Next]_vars PROVE SettingsInv'
  OBVIOUS
<1>1. CASE UNCHANGED settings
  <2>1. UNCHANGED <<base, rtc, ref, txActive, signal, call, request, reply, result, answer, told>>
    BY <1>1, Zenon DEF settings
  <2>2. Granted' = Granted
    BY <2>1, Zenon DEF Granted
  <2>4. Sane' /\ Quiet' /\ RequestStands'
    BY <2>1, Zenon DEF SettingsInv, Sane, Quiet, RequestStands
  <2>5. SignalFor(call.value)' = SignalFor(call.value)
    BY <2>1 DEF SignalFor
  <2>6. ReplyStands'
    BY <2>1, <2>2, <2>5, Zenon DEF SettingsInv, ReplyStands
  <2>7. DeviceKnown'
    BY <2>1, <2>2, Zenon DEF SettingsInv, DeviceKnown
  <2>8. Answered'
    BY <2>1, <2>5, Zenon DEF SettingsInv, Answered
  <2> QED
    BY <2>4, <2>6, <2>7, <2>8, Zenon DEF SettingsInv
<1>2. CASE Call
  BY <1>2, CallsSettings, Zenon
<1>3. CASE S!Handle
  <2>1. CASE S!HandleGetBuckBoostRegulator
    <3>1. S!Serving(6) /\ S!Refuse
      BY <2>1, Zenon DEF S!HandleGetBuckBoostRegulator
    <3>2. 6 # 0
      OBVIOUS
    <3> QED
      BY <3>1, <3>2, RefuseStep, Zenon
  <2> QED
    BY <1>3, <2>1, SetTimeStep, GetTimeStep, SetBaseStep, GetBaseStep, VoltageStep, SignalStep, SwitchStep,
       DeviceReset, Zenon DEF S!Handle
<1>4. CASE S!Return
  BY <1>4, ReturnStep, Zenon
<1>5. CASE S!Timeout
  BY <1>5, TimeoutStep, Zenon
<1> QED
  BY <1>1, <1>2, <1>3, <1>4, <1>5, Zenon DEF Next, ClockStep, CommandStep, vars

\* and says what the two properties say.
LEMMA SettingsShow == SettingsInv => RoundTrip /\ SignalAsAsked
<1> SUFFICES ASSUME SettingsInv PROVE RoundTrip /\ SignalAsAsked
  OBVIOUS
<1>1. base \in S!BandMin .. S!BandMax
  <2>1. S!BandMin \in Int /\ S!BandMax \in Int
    BY SMT DEF S!BandMin, S!BandMax
  <2>2. base \in Nat /\ S!BandMin <= base /\ base <= S!BandMax
    BY Zenon DEF SettingsInv, DeviceKnown, Freq
  <2> QED
    BY <2>1, <2>2
<1>2. rtc \in Seq(Int)
  <2>1. CASE rtc = S!NoTime
    <3>1. S!NoTime = <<>>
      BY DEF S!NoTime
    <3> QED
      BY <2>1, <3>1, EmptySeq
  <2>2. CASE rtc # S!NoTime
    <3>1. rtc \in [1 .. 6 -> Int]
      BY <2>2, Zenon DEF SettingsInv, DeviceKnown, Valid
    <3>2. PICK n \in Nat : n = 6
      OBVIOUS
    <3> QED
      BY <3>1, <3>2, SeqDef
  <2> QED
    BY <2>1, <2>2
<1>3. ref \in 0 .. 2 ^ 11 - 1
  BY Zenon DEF SettingsInv, Sane, Reg
<1>4. /\ txActive \in BOOLEAN /\ Len(signal.us) = 4
      /\ result \in {"waiting", "ok", "nack", "timeout", "invalid argument"}
  BY Zenon DEF SettingsInv, Sane
<1>5. S!TypeOK
  <2>1. result \in {"waiting", "ok", "nack", "timeout", "invalid argument", "invalid packet"}
    BY <1>4, Zenon
  <2> QED
    BY <1>1, <1>2, <1>3, <1>4, <2>1, Zenon DEF S!TypeOK
<1>6. result # "invalid packet"
  BY <1>4, Zenon
<1>7. S!RoundTrip
  BY <1>6, Zenon DEF SettingsInv, Answered, S!RoundTrip
<1>8. S!SignalAsAsked
  <2>1. SUFFICES ASSUME result = "ok", call.op = "test_signal"
                 PROVE  /\ signal.hz \in {f \div 100 : f \in told.freqs}
                        /\ S!Value(call.value) <= 4294967 =>
                             S!Divided(S!Reverse(signal.us), 1000) =
                               [quotient |-> S!Reverse(call.value), rest |-> 0]
    BY SMT DEF S!SignalAsAsked
  <2>2. SignalFor(call.value)
    BY <2>1, Zenon DEF SettingsInv, Answered
  <2> QED
    BY <2>2, SMT DEF SignalFor, Short
<1> QED
  BY <1>5, <1>7, <1>8, Zenon DEF RoundTrip, SignalAsAsked

\* A get returns what the device was told by the last set that succeeded, or by one
\* since of which the host does not know: for all times, frequencies and requests, and
\* whatever is lost, refused or reset.
THEOREM RoundTripCorrect == Spec => []RoundTrip
<1>1. Init => SettingsInv
  BY SettingsInit, Zenon DEF Init
<1> QED
  BY <1>1, SettingsInductive, SettingsShow, PTL DEF Spec

\* A test signal that was accepted is on the base frequency and as long as asked, for
\* every length that has a number of microseconds.
THEOREM SignalCorrect == Spec => []SignalAsAsked
<1>1. Init => SettingsInv
  BY SettingsInit, Zenon DEF Init
<1> QED
  BY <1>1, SettingsInductive, SettingsShow, PTL DEF Spec
=============================================================================
