------------------------------- MODULE EncodersMC -------------------------------
(* Small instances of Encoders. *)
EXTENDS Encoders, SequencesExt, FtxCode

AlphaNumeric ==
  {"A", "B", "C", "D", "E", "F", "G", "H", "I", "J", "K", "L", "M", "N", "O", "P", "Q", "R",
   "S", "T", "U", "V", "W", "X", "Y", "Z", "0", "1", "2", "3", "4", "5", "6", "7", "8", "9"}

Punctuation ==
  {"LF", "CR", "-", "'", "ENQ", "BEL", ",", "!", ":", "(", "+", ")", "#", "?", "&", ".", "/", "="}

\* Every pair of characters, and every longer text over a few.
MCCwTexts ==
  BoundedSeq(AlphaNumeric \cup {" ", "?"}, 2) \cup BoundedSeq({"E", "N", "T", " ", "?"}, 5)

MCRttyTexts ==
  BoundedSeq(AlphaNumeric \cup Punctuation \cup {" ", "~"}, 2)
    \cup BoundedSeq({"E", "3", " ", "-", "~"}, 5)

\* Callsigns that are moved and that are not, the first and the last number of each
\* place; one with a digit where letters go, one too long when it is moved and one with
\* two digits, for which there is no number; and refused ones.
MCWsprMessages ==
  [callsign : {<<"K", "1", "A">>, <<"G", "0", "X", "Y", "Z">>, <<"Z", "Z", "9", "Z", "Z", "Z">>,
               <<"9", "A", "1", "B">>, <<"A", "0">>, <<"0", "0", "0", "A", "A", "A">>,
               <<"G", "0", "B", "1">>, <<"K", "1", "A", "B", "C", "D">>, <<"A", "7", "1", "A">>,
               <<"K">>, <<"K", "?">>},
   grid     : {<<"A", "A", "0", "0">>, <<"R", "R", "9", "9">>, <<"S", "A", "0", "0">>},
   power    : {0, 37, 60, 5}]

\* Every kind of callsign field at its limits: each end of the numbers of three
\* digits and of letters, of the hashes and of the places of a callsign; two
\* digits among the first three characters; lower case.
Callers ==
  [type : {"CQ", "DE", "QRZ"}]
    \cup [type : {"CQ_MOD"}, modifier : {<<"0", "0", "0">>, <<"9", "9", "9">>, <<"A">>,
                                        <<"D", "X">>, <<"p", "o", "t", "a">>, <<"Z", "Z", "Z", "Z">>}]
    \cup [type : {"HASH_22"}, hash : {0, 4194303}]
    \cup [type : {"CALLSIGN"}, callsign : {<<"K", "1">>, <<"A", "0", "A">>, <<"9", "A", "1", "b">>,
                                           <<"3", "D", "2", "A", "G">>, <<"Z", "Z", "9", "Z", "Z", "Z">>}]

AFew == {[type |-> "QRZ"], [type |-> "CALLSIGN", callsign |-> <<"W", "9", "X", "Y", "Z">>]}

Answers ==
  [type : {"BLANK", "RRR", "RR73", "73"}] \cup [type : {"REPORT"}, report : {-30, 0, 32}]
    \cup [type : {"GRID"}, grid : {<<"A", "A", "0", "0">>, <<"R", "R", "7", "3">>, <<"R", "R", "9", "9">>}]

FreeTexts ==
  [type : {"FREE_TEXT"},
   text : {<<>>, <<"A">>, <<"c", "q", " ", "?">>, [k \in 1 .. 13 |-> "?"]}]

\* What encode_t71 makes of no digits, one, all and too high ones.
Telemetry ==
  [type : {"TELEMETRY"},
   data : {T71(hex) : hex \in {<<>>, <<"1">>, <<"c", "A", "f", "E">>, [k \in 1 .. 18 |-> "F"]}}]

NineBytes == FreeTexts \cup Telemetry

MCFtxMessages ==
  NineBytes
  \cup [type : {"DXPEDITION"}, c28_0 : Callers, c28_1 : AFew, h10 : {0, 1023}, r5 : {-30, 0, 32}]
  \cup [type : {"FIELD_DAY"}, c28_0 : AFew, c28_1 : Callers, R1 : {TRUE}, n4 : {0, 15},
        k3 : {"A", "F"}, S7 : {"AB", "NLI", "DX"}, transmitter_count : {16, 17}]
  \cup [type : {"TELEMETRY"}, data : {[k \in 1 .. 9 |-> 255]}]
  \cup [type : {"STD", "EU_VHF_2"}, c28_0 : Callers, suffix_0 : BOOLEAN, c28_1 : AFew,
        suffix_1 : {FALSE}, R1 : {TRUE}, g15 : Answers]
  \cup [type : {"RTTY_RU"}, t1 : BOOLEAN, c28_0 : AFew, c28_1 : Callers, R1 : {FALSE}, r3 : {2, 9},
        s13 : [type : {"SERIAL"}, serial : {0, 7999}] \cup [type : {"STATE"}, state : {"AL", "DC"}]]
  \cup [type : {"NONSTD"}, h12 : {0, 4095}, h1 : BOOLEAN, r2 : {"BLANK", "RRR", "RR73", "73"},
        c1 : BOOLEAN, c58 : {<<"A">>, [k \in 1 .. 11 |-> "/"], <<"k", "1", "/", "0", "Z">>}]
  \cup [type : {"EU_VHF_5"}, h12 : {4095}, h22 : {0, 4194303}, R1 : BOOLEAN, r3 : {2, 9},
        s11 : {0, 2047}, g25 : {<<"A", "A", "0", "0", "A", "A">>, <<"R", "R", "9", "9", "X", "X">>,
                                <<"J", "O", "6", "2", "Q", "M">>}]
=============================================================================
