--------------------------------- MODULE Ita2 ---------------------------------
(* The tables of ITA2 (src/modes/encoders/rtty.c).  Characters are in upper case *)
(* and named when they do not print.                                            *)
EXTENDS Naturals, Sequences, SequencesExt

SP    == " "
COMMA == ","

ITA2_LTRS ==
  <<"NUL", "E", "LF", "A", SP, "S", "I", "U", "CR", "D", "R", "J", "N", "F", "C", "K",
    "T", "Z", "L", "W", "H", "Y", "P", "Q", "O", "B", "G", "NUL", "M", "X", "V", "NUL">>

ITA2_FIGS ==
  <<"NUL", "3", "LF", "-", SP, "'", "8", "7", "CR", "ENQ", "4", "BEL", COMMA, "!", ":", "(",
    "5", "+", ")", "2", "#", "6", "0", "1", "9", "?", "&", "NUL", ".", "/", "=", "NUL">>

LtrsShift == 31
FigsShift == 27

\* The code of a character in a table, counted from 0.
CodeIn(table, c) == CHOOSE k \in 0 .. 31 : table[k + 1] = c

Letters == ToSet(ITA2_LTRS) \ {"NUL"}
Figures == ToSet(ITA2_FIGS) \ {"NUL"}
AnyShift == {SP, "CR", "LF"}

Encodable == Letters \cup Figures

\* ascii_to_ita2: the code, and the shift a character needs, "any" for none.
Needs(c) ==
  IF c \in AnyShift THEN "any" ELSE IF c \in Letters THEN "ltrs" ELSE "figs"

Code(c) == CodeIn(IF c \in Letters THEN ITA2_LTRS ELSE ITA2_FIGS, c)
=============================================================================
