--------------------------------- MODULE Devices ---------------------------------
(***************************************************************************)
(* What the radio's chips are set to: the clock generator by its driver's   *)
(* callers (Clock), and the settings that the host's commands reach         *)
(* (Settings).  The parts share neither state nor code; of the commands,    *)
(* those of one part are sent at a time.                                    *)
(***************************************************************************)
EXTENDS Integers, Sequences

CONSTANTS
  Outputs, PllFreqs, MsFreqs,                    \* of Clock
  Xtal, VcoMin, VcoMax, Milli, Denominator, Word,
  Times, Freqs, Levels, Durations, Requests,     \* of Settings
  Bus                                            \* how an access can end

ASSUME DevicesAssumption ==
  /\ Outputs \subseteq 0 .. 7 /\ PllFreqs \cup MsFreqs \subseteq Nat
  /\ Freqs \subseteq Int /\ Levels \subseteq 0 .. 255 /\ Bus \subseteq BOOLEAN
  /\ Requests \subseteq [type : 0 .. 255, payload : Seq(0 .. 255)]

\* The types of the library: a year is a u16 and the other fields of a time are u8; the
\* length of a signal is the four bytes of a u32.
ASSUME ArgumentsAssumption ==
  /\ \A t \in Times : t \in Seq(Nat) /\ Len(t) = 6 /\ t[1] < 2 ^ 16 /\ \A k \in 2 .. 6 : t[k] < 2 ^ 8
  /\ \A duration \in Durations : duration \in Seq(0 .. 255) /\ Len(duration) = 4

\* The denominator, a million in the code, has room in 20 bits; and nobody asks for
\* a frequency so low (0.21 Hz) that the divider does not fit in a word.
ASSUME ClockAssumption ==
  /\ Xtal \in Nat \ {0} /\ Milli \in Nat \ {0}
  /\ VcoMin \in Nat /\ VcoMax \in Nat
  /\ Denominator \in 1 .. 2 ^ 20 - 1 /\ Word \in Nat
  /\ \A freq \in MsFreqs : freq = 0 \/ VcoMax * Milli < Word * freq

VARIABLES
  mode,                                     \* "clock", "time", "signal" or "regulator"
  known, pll, ms, ctrl, disabled, enabling, asked, \* of Clock
  base, rtc, ref, txActive, signal, call, request, reply, result, answer,
  told                                      \* of Settings

K == INSTANCE Clock WITH Plls <- {"A", "B"}
S == INSTANCE Settings

clock    == <<known, pll, ms, ctrl, disabled, enabling, asked>>
settings == <<base, rtc, ref, txActive, signal, call, request, reply, result, answer, told>>
vars     == <<mode, clock, settings>>

Init == mode \in {"clock", "time", "signal", "regulator"} /\ K!Init /\ S!Init

ClockStep == mode = "clock" /\ K!Next /\ UNCHANGED <<mode, settings>>

\* The packets of other programs that have the types of a part.
Send(types) == \E packet \in Requests : packet.type \in types /\ S!Send(packet)

Call ==
  \/ mode = "time"      /\ (S!TimeCalls \/ Send({1, 2}))
  \/ mode = "signal"    /\ (S!SignalCalls \/ Send({3, 4, 7, 8}))
  \/ mode = "regulator" /\ (S!RegulatorCalls \/ Send({5, 6}))

CommandStep ==
  /\ mode # "clock"
  /\ Call \/ S!Handle \/ S!Return \/ S!Timeout
  /\ UNCHANGED <<mode, clock>>

Next == ClockStep \/ CommandStep

Spec == Init /\ [][Next]_vars
-----------------------------------------------------------------------------
\* What the driver takes a PLL to run at, and divides by, is what it runs at, after
\* any calls, failures and resets; or it does not know.
PllKnown == K!TypeOK /\ K!PllKnown

\* A clock output runs at what the last successful call asked for, whatever failed
\* before it and whatever other outputs were set to.
OutputAsAsked == K!OutputAsAsked

\* What a get returns is what the device was told by the last set that succeeded,
\* or by one since of which the host does not know.
RoundTrip == S!TypeOK /\ S!RoundTrip

\* A command that is refused has changed nothing.
RefusedChangesNothing ==
  [][reply = S!Nothing /\ reply'.type = S!NACK =>
       UNCHANGED <<base, rtc, ref, txActive, signal>>]_settings

\* A test signal that was accepted is on the base frequency and as long as asked,
\* up to the longest that has a number of microseconds.
SignalAsAsked == S!SignalAsAsked
=============================================================================
