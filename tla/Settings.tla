-------------------------------- MODULE Settings --------------------------------
(***************************************************************************)
(* What the host asks for and what the device has: a call of the host      *)
(* library (src/minihf_api/src/lib.rs), the payload it sends, the handler  *)
(* that reads it (src/src/radio/radio_cmd.c), the drivers of the real-time *)
(* clock and the regulator, the reply, and what the library returns.  One  *)
(* call at a time; its packet or the reply may be lost.  HostApi has the   *)
(* concurrency of calls, and Radio and TxEngine what a signal does.        *)
(*                                                                         *)
(* Frequencies are in hundredths of a Hz as in the code, and in halves of  *)
(* that where the library takes them, so that its rounding shows.  A time  *)
(* is <<year, month, day, hour, minute, second>>.                          *)
(***************************************************************************)
EXTENDS Integers, Sequences, SequencesExt, Payload

CONSTANTS
  Times,     \* times to be set
  Freqs,     \* frequencies, in halves of a hundredth of a Hz
  Levels,    \* voltages
  Durations, \* lengths of test signals, as 4 bytes
  Requests,  \* packets of other programs: [type, payload]
  Bus        \* how an access of a chip can end: a set of BOOLEANs

VARIABLES
  base,     \* base_frequency
  rtc,      \* the real-time clock, in the fields of struct rtc_time
  ref,      \* the regulator's reference register
  txActive, \* tx_active
  signal,   \* test_signal_symbol and test_signal_seq: [us : 4 bytes, hz]
  call,     \* the host's call: [op, value]
  request,  \* its packet, on the way
  reply,    \* the reply, on the way
  result,   \* "waiting", or how the last call ended
  answer,   \* what it returned
  told      \* history: the times and base frequencies the device may have, as
            \* far as the host can tell from how its calls ended

device == <<base, rtc, ref, txActive, signal>>
host   == <<call, result, answer, told>>
vars   == <<device, host, request, reply>>

Packet(type, payload) == [type |-> type, payload |-> payload]

Nothing == Packet(0, <<>>)
ACK     == 255
NACK    == 254

BandMin  == 1010000000
BandMax  == 1015000000
Default  == 1013600000
NoTime   == <<>>
NoSignal == [us |-> LE(0, 4), hz |-> 0]
-----------------------------------------------------------------------------
(* tps55289_set_voltage, in tenths of a volt: the board's divider is 274 kOhm over *)
(* 100 kOhm.  The register has 11 bits.                                            *)

Ref(t) ==
  LET feedback == (t * 5000000) \div 187
      vref == IF feedback < 45000 THEN 45000 ELSE IF feedback > 1200000 THEN 1200000 ELSE feedback
  IN (((vref - 45000) * 10) \div 5645) % 2048

\* What the register holds when the chip has been switched on.
PowerUpRef == 420

\* regulator_set_voltage, which may also refuse, at any voltage: the driver's
\* configuration does not begin with the limits that Zephyr looks for there.
SetVoltage(t) ==
  \E done \in Bus \cup {FALSE} : ref' = IF done THEN Ref(t) ELSE ref

clamp_frequency(f) == IF f < BandMin THEN BandMin ELSE IF f > BandMax THEN BandMax ELSE f

Init ==
  /\ base = Default /\ txActive = FALSE /\ signal = NoSignal /\ rtc = NoTime
  /\ ref = PowerUpRef \/ (TRUE \in Bus /\ ref = Ref(12))
  /\ call = [op |-> "none"] /\ request = Nothing /\ reply = Nothing /\ result = "ok" /\ answer = NoTime
  /\ told = [times |-> {}, freqs |-> {Default}]
-----------------------------------------------------------------------------
(* The host's calls *)

Call(c, type, payload) ==
  /\ result # "waiting" /\ result' = "waiting"
  /\ call' = c /\ request' = Packet(type, payload) /\ answer' = NoTime
  /\ UNCHANGED <<device, reply, told>>

Invalid(c) ==
  /\ result # "waiting" /\ result' = "invalid argument"
  /\ call' = c /\ answer' = NoTime /\ UNCHANGED <<device, request, reply, told>>

SetRtcTime(t) == Call([op |-> "set_time", value |-> t], 1, LE(t[1], 2) \o SubSeq(t, 2, 6))
GetRtcTime    == Call([op |-> "get_time"], 2, <<>>)

\* The frequency in hundredths, in the band, half a hundredth rounded up.
Asked(f) == clamp_frequency((f + 1) \div 2)

SetBaseFreq(f) ==
  IF f < 0 THEN Invalid([op |-> "set_base", value |-> f])
  ELSE Call([op |-> "set_base", value |-> Asked(f)], 3, LE(Asked(f), 8))

GetBaseFreq == Call([op |-> "get_base"], 4, <<>>)

SetBuckBoostRegulator(enabled, level) ==
  IF level > 18 THEN Invalid([op |-> "set_regulator"])
  ELSE Call([op |-> "set_regulator"], 5, <<(IF enabled THEN 128 ELSE 0) + level>>)

GetBuckBoostRegulator == Call([op |-> "get_regulator"], 6, <<>>)

TxTestSignal(ms) ==
  IF ms = LE(0, 4) THEN Invalid([op |-> "test_signal", value |-> ms])
  ELSE Call([op |-> "test_signal", value |-> ms], 7, ms)

SetTrSwitch(tx) == Call([op |-> "set_tr"], 8, <<IF tx THEN 1 ELSE 0>>)

\* The fields of a time in a payload.
TimeIn(payload) ==
  LET fields == Read(payload, <<2, 1, 1, 1, 1, 1>>).fields IN [k \in 1 .. 6 |-> Value(fields[k])]

\* Another program on the port.  Of a base frequency it is told the one in the band.
Meant(type, payload) ==
  CASE type = 1 /\ Len(payload) >= 7 -> [op |-> "set_time", value |-> TimeIn(payload)]
    [] type = 3 /\ Len(payload) >= 8 ->
         [op |-> "set_base", value |-> clamp_frequency(Value(SubSeq(payload, 1, 8)))]
    [] OTHER -> [op |-> "other"]

Send(packet) == Call(Meant(packet.type, packet.payload), packet.type, packet.payload)
-----------------------------------------------------------------------------
(* The handlers *)

Serving(type) == request.type = type /\ request' = Nothing /\ UNCHANGED host

Reply(type, payload) == reply' = Packet(type, payload)
Refuse == Reply(NACK, <<>>) /\ UNCHANGED device

\* The driver of the real-time clock: whether it takes a time.
Takes(t) ==
  /\ t[1] + 1900 \in 2000 .. 2099 /\ t[2] \in 0 .. 11 /\ t[3] \in 1 .. 31
  /\ t[4] \in 0 .. 23 /\ t[5] \in 0 .. 59 /\ t[6] \in 0 .. 59

\* A time in the fields of struct rtc_time, and the payload that tells it.
Kept(t) == <<t[1] - 1900, t[2] - 1, t[3], t[4], t[5], t[6]>>

TimeWriter(tm) == Written(16, <<LE(tm[1] + 1900, 2), LE(tm[2] + 1, 1), LE(tm[3], 1),
                                LE(tm[4], 1), LE(tm[5], 1), LE(tm[6], 1)>>)

HandleRtcSetTime ==
  /\ Serving(1)
  /\ IF Len(request.payload) < 7 THEN Refuse
     ELSE LET tm == Kept(TimeIn(request.payload))
          IN \/ /\ Takes(tm) /\ TRUE \in Bus
                /\ rtc' = tm /\ Reply(ACK, <<>>) /\ UNCHANGED <<base, ref, txActive, signal>>
             \/ ~ (Takes(tm) /\ Bus = {TRUE}) /\ Refuse

\* Mutant: the month is sent as the driver counts it.
HandleRtcGetTimeMonth ==
  /\ Serving(2)
  /\ \/ /\ rtc # NoTime /\ TRUE \in Bus
        /\ Reply(2, Written(16, <<LE(rtc[1] + 1900, 2), <<rtc[2]>>, <<rtc[3]>>, <<rtc[4]>>,
                                  <<rtc[5]>>, <<rtc[6]>> >>).bytes)
        /\ UNCHANGED device
     \/ ~ (rtc # NoTime /\ Bus = {TRUE}) /\ Refuse

HandleRtcGetTime ==
  /\ Serving(2)
  /\ \/ /\ rtc # NoTime /\ TRUE \in Bus
        /\ LET writer == TimeWriter(rtc)
           IN IF writer.error THEN Reply(NACK, <<>>) ELSE Reply(2, writer.bytes)
        /\ UNCHANGED device
     \/ ~ (rtc # NoTime /\ Bus = {TRUE}) /\ Refuse

\* Mutant: the length is not looked at first.
HandleSetBaseFreqUnchecked ==
  /\ Serving(3)
  /\ LET cursor == Read(request.payload, <<8>>)
     IN /\ base' = clamp_frequency(Value(cursor.fields[1]))
        /\ Reply(IF cursor.error THEN NACK ELSE ACK, <<>>)
  /\ UNCHANGED <<rtc, ref, txActive, signal>>

HandleSetBaseFreq ==
  /\ Serving(3)
  /\ IF Len(request.payload) < 8 THEN Refuse
     ELSE LET cursor == Read(request.payload, <<8>>)
          IN /\ base' = clamp_frequency(Value(cursor.fields[1]))
             /\ Reply(IF cursor.error THEN NACK ELSE ACK, <<>>)
             /\ UNCHANGED <<rtc, ref, txActive, signal>>

HandleGetBaseFreq ==
  /\ Serving(4)
  /\ LET writer == Written(8, <<LE(base, 8)>>)
     IN IF writer.error THEN Reply(NACK, <<>>) ELSE Reply(4, writer.bytes)
  /\ UNCHANGED device

\* The results of both accesses are ignored.
HandleSetBuckBoostRegulator ==
  /\ Serving(5)
  /\ IF request.payload = <<>> THEN Refuse
     ELSE /\ SetVoltage(10 * (request.payload[1] % 32)) /\ Reply(ACK, <<>>)
          /\ UNCHANGED <<base, rtc, txActive, signal>>

\* regulator_get_voltage: the driver has no function for it.
HandleGetBuckBoostRegulator == Serving(6) /\ Refuse

\* An unsigned product of 32 bits.
ThousandfoldOn(acc, byte) ==
  LET n == 1000 * byte + acc.carry IN [bytes |-> Append(acc.bytes, n % 256), carry |-> n \div 256]

Thousandfold(bytes) ==
  LET acc[k \in 0 .. Len(bytes)] ==
        IF k = 0 THEN [bytes |-> <<>>, carry |-> 0] ELSE ThousandfoldOn(acc[k - 1], bytes[k])
  IN acc[Len(bytes)].bytes

\* Mutant: the frequency is not divided.
HandleTxTestSignalHundredths ==
  /\ Serving(7)
  /\ IF ~ txActive \/ Len(request.payload) < 4 THEN Refuse
     ELSE LET ms == Read(request.payload, <<4>>).fields[1]
          IN IF ms = LE(0, 4) THEN Refuse
             ELSE /\ signal' = [us |-> Thousandfold(ms), hz |-> clamp_frequency(base)]
                  /\ Reply(ACK, <<>>) /\ UNCHANGED <<base, rtc, ref, txActive>>

HandleTxTestSignal ==
  /\ Serving(7)
  /\ IF ~ txActive \/ Len(request.payload) < 4 THEN Refuse
     ELSE LET ms == Read(request.payload, <<4>>).fields[1]
          IN IF ms = LE(0, 4) THEN Refuse
             ELSE /\ signal' = [us |-> Thousandfold(ms), hz |-> clamp_frequency(base) \div 100]
                  /\ Reply(ACK, <<>>) /\ UNCHANGED <<base, rtc, ref, txActive>>

HandleTrSwitch ==
  /\ Serving(8)
  /\ IF request.payload = <<>> \/ ~ request.payload[1] \in {0, 1} THEN Refuse
     ELSE /\ txActive' = (request.payload[1] = 1) /\ Reply(ACK, <<>>)
          /\ UNCHANGED <<base, rtc, ref, signal>>

\* handle_reset, and the boot after it, which asks for 1.2 V.  The clock keeps its time.
HandleReset ==
  /\ result # "waiting" /\ result' = "ok" /\ call' = [op |-> "reset"] /\ answer' = NoTime
  /\ base' = Default /\ txActive' = FALSE /\ signal' = NoSignal
  /\ SetVoltage(12)
  /\ told' = [told EXCEPT !.freqs = {Default}]
  /\ UNCHANGED <<rtc, request, reply>>
-----------------------------------------------------------------------------
(* The end of a call *)

\* What the library makes of a payload, and whether it is long enough.
Answer(payload) ==
  CASE call.op = "get_time" /\ Len(payload) >= 7 -> TimeIn(payload)
    [] call.op = "get_base" /\ Len(payload) >= 8 -> <<Value(SubSeq(payload, 1, 8))>>
    [] OTHER -> NoTime

Learn(values, ok) == IF ok THEN {call.value} ELSE values \cup {call.value}

Told(ok) ==
  CASE call.op = "set_time" -> [told EXCEPT !.times = Learn(@, ok)]
    [] call.op = "set_base" -> [told EXCEPT !.freqs = Learn(@, ok)]
    [] OTHER -> told

Return ==
  /\ reply # Nothing /\ reply' = Nothing
  /\ IF reply.type = NACK THEN result' = "nack" /\ UNCHANGED <<answer, told>>
     ELSE /\ answer' = Answer(reply.payload) /\ told' = Told(TRUE)
          /\ result' = IF call.op \in {"get_time", "get_base"} /\ answer' = NoTime
                       THEN "invalid packet" ELSE "ok"
  /\ UNCHANGED <<device, request, call>>

\* The packet or the reply was lost.
Timeout ==
  /\ result = "waiting" /\ result' = "timeout"
  /\ request' = Nothing /\ reply' = Nothing /\ told' = Told(FALSE)
  /\ UNCHANGED <<device, call, answer>>

TimeCalls      == (\E t \in Times : SetRtcTime(t)) \/ GetRtcTime
SignalCalls    == \/ \E f \in Freqs : SetBaseFreq(f)
                  \/ GetBaseFreq
                  \/ \E ms \in Durations : TxTestSignal(ms)
                  \/ \E tx \in BOOLEAN : SetTrSwitch(tx)
RegulatorCalls == \/ \E enabled \in BOOLEAN, level \in Levels : SetBuckBoostRegulator(enabled, level)
                  \/ GetBuckBoostRegulator
Calls  == TimeCalls \/ SignalCalls \/ RegulatorCalls \/ \E packet \in Requests : Send(packet)
Handle == \/ HandleRtcSetTime \/ HandleRtcGetTime \/ HandleSetBaseFreq \/ HandleGetBaseFreq
          \/ HandleSetBuckBoostRegulator \/ HandleGetBuckBoostRegulator
          \/ HandleTxTestSignal \/ HandleTrSwitch \/ HandleReset

Next == Calls \/ Handle \/ Return \/ Timeout

Spec == Init /\ [][Next]_vars
-----------------------------------------------------------------------------
TypeOK ==
  /\ base \in BandMin .. BandMax /\ rtc \in Seq(Int) /\ ref \in 0 .. 2 ^ 11 - 1
  /\ txActive \in BOOLEAN /\ Len(signal.us) = 4
  /\ result \in {"waiting", "ok", "nack", "timeout", "invalid argument", "invalid packet"}

\* What a get returns is what the device was told by the last set that succeeded,
\* or by one since of which the host does not know: through both conversions, the
\* bytes of the payload and the driver's way to count, there and back.
RoundTrip ==
  /\ result # "invalid packet"
  /\ result = "ok" /\ call.op = "get_time" => answer \in told.times
  /\ result = "ok" /\ call.op = "get_base" => answer[1] \in told.freqs

\* A test signal that was accepted is on the base frequency and as long as asked,
\* up to 4294967 ms, the longest that has a number of microseconds.
SignalAsAsked ==
  result = "ok" /\ call.op = "test_signal" =>
    /\ signal.hz \in {f \div 100 : f \in told.freqs}
    /\ Value(call.value) <= 4294967 =>
         Divided(Reverse(signal.us), 1000) = [quotient |-> Reverse(call.value), rest |-> 0]
=============================================================================
