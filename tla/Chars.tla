---------------------------------- MODULE Chars ----------------------------------
(* Characters, bits and bytes, as the encoders of WSPR and FTX and the commands  *)
(* use them.  A string is a sequence of characters, a bit is 0 or 1.             *)
EXTENDS Integers, Sequences, SequencesExt

Digits  == <<"0", "1", "2", "3", "4", "5", "6", "7", "8", "9">>
Letters == <<"A", "B", "C", "D", "E", "F", "G", "H", "I", "J", "K", "L", "M",
             "N", "O", "P", "Q", "R", "S", "T", "U", "V", "W", "X", "Y", "Z">>

\* The place of c in an alphabet, from 0.
Place(alphabet, c) == (CHOOSE k \in DOMAIN alphabet : alphabet[k] = c) - 1

Digit(c)  == c \in ToSet(Digits)
Letter(c) == c \in ToSet(Letters)

\* The lowest w bits of n, the highest first.
Bits(n, w) == [k \in 1 .. w |-> (n \div 2 ^ (w - k)) % 2]

\* The number that digits to a base stand for, the highest first.
Number(base, digits) == FoldLeft(LAMBDA n, d : base * n + d, 0, digits)

\* Division of a number in bytes, the highest first, and its step.
DividedOn(acc, byte, by) ==
  LET n == 256 * acc.rest + byte
  IN [quotient |-> Append(acc.quotient, n \div by), rest |-> n % by]

Divided(bytes, by) ==
  LET acc[k \in 0 .. Len(bytes)] ==
        IF k = 0 THEN [quotient |-> <<>>, rest |-> 0] ELSE DividedOn(acc[k - 1], bytes[k], by)
  IN acc[Len(bytes)]
=============================================================================
