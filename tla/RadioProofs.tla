------------------------------ MODULE RadioProofs ------------------------------
(***************************************************************************)
(* The commanded transmitter, for every outcome of the bus and every order *)
(* of commands, resets, timer interrupts and steps of the main thread: the *)
(* antenna pins agree with tx_active, the amplifier's output follows the   *)
(* signal, it is powered with the antenna on transmit, and the engine      *)
(* still plays in order.  The engine's own part is that of TxEngineProofs. *)
(***************************************************************************)
EXTENDS Radio, TxEngineProofs

\* Until main is in its loop the engine has nothing to do, if it was not started
\* too early.
BootInv ==
  ~early /\ main # "loop" =>
    pc = "idle" /\ arg = NoSeq /\ ~active /\ ~timer /\ ~txWork

\* An engine that was not started too early is in order.
EngineSound == ~early => WakeupInv /\ EngineInv /\ PowerInv

\* On a bus that works the chip's output is enabled while the use count is not 0.
OutputInv == tidy => (oe <=> refcnt > 0)

\* tr_switch_init sets the pins one after the other and tx_active last.  From then
\* on an active transmitter has the antenna, raced or not.
PinsInv ==
  /\ ~raced =>
       /\ main = "tr_bwd" => ~fwd
       /\ main = "tr_flag" => ~fwd /\ bwd
       /\ main \in {"engine", "loop"} => (fwd <=> txActive) /\ (bwd <=> ~txActive)
  /\ main \in {"engine", "loop"} /\ txActive => fwd /\ ~bwd

\* The antenna is on transmit from the test that starts a signal to its last symbol.
Starting == {"stop_timer", "cancel_work", "stop_off", "clear", "begin", "apply", "arm"}

TransmitInv == ~early /\ pc \in Starting => txActive

\* tx_engine_stop leaves nothing pending and the amplifier off, whatever an engine
\* that was started too early has left: what begins after it is in order.
RestartInv ==
  /\ pc \in {"cancel_work", "stop_off", "clear", "begin"} => ~timer
  /\ pc \in {"stop_off", "clear", "begin"} => ~txWork
  /\ pc = "begin" => arg = TestSignal /\ ~elapsed
  /\ tidy => refcnt \in {0, 1}
  /\ tidy /\ pc \in {"clear", "begin", "apply"} => refcnt = 0

RadioInv == /\ RadioTypeOK /\ BootInv /\ EngineSound /\ OutputInv
            /\ PinsInv /\ TransmitInv /\ RestartInv
-----------------------------------------------------------------------------
\* Only these steps touch the engine's state in a way the engine does not.
Outside == \/ InitClock \/ InitRegulator \/ InitEngine \/ SetRegulator \/ Reset
           \/ (TimerExpires /\ main # "loop")

LEMMA EngineSteps == [RadioNext]_all => [Next]_vars \/ Outside
<1> SUFFICES ASSUME [RadioNext]_all, ~Outside PROVE [Next]_vars
  OBVIOUS
<1>1. CASE InitRtc \/ InitPins \/ InitForward \/ InitBackward \/ InitFlag
  BY <1>1 DEF InitRtc, InitPins, InitForward, InitBackward, InitFlag, vars
<1>2. ASSUME NEW tx \in BOOLEAN, SwitchAntenna(tx) PROVE UNCHANGED vars
  BY <1>2 DEF SwitchAntenna, vars
<1>3. CASE StartTestSignal
  BY <1>3, RadioAssumption DEF StartTestSignal, Next
<1>4. CASE RefuseTestSignal \/ RejectCommand
  BY <1>4 DEF RefuseTestSignal, RejectCommand, vars
<1>5. CASE EngineRuns
  BY <1>5 DEF EngineRuns, Next
<1>6. CASE TimerExpires
  <2>1. main = "loop"
    BY <1>6 DEF Outside
  <2>2. QED  BY <1>6, <2>1 DEF TimerExpires, Next
<1>7. CASE UNCHANGED all
  BY <1>7 DEF all, vars
<1>8. QED
  BY <1>1, <1>2, <1>3, <1>4, <1>5, <1>6, <1>7 DEF RadioNext, Main, Command, Outside

\* The use count stays a natural number that the chip's output follows.
LEMMA CountOf ==
  ASSUME TypeOK, NEW ok \in BOOLEAN
  PROVE  Released(ok) \in Nat /\ (refcnt = 0 => Released(ok) = 0)
BY DEF TypeOK, Released

LEMMA BusOutcomes == I2c \subseteq BOOLEAN
BY EngineAssumption

LEMMA OutsideTypes ==
  ASSUME RadioTypeOK, Outside
  PROVE  TypeOK'
<1>0. TypeOK /\ I2c \subseteq BOOLEAN
  BY BusOutcomes DEF RadioTypeOK
<1>1. CASE InitClock
  BY <1>0, <1>1 DEF InitClock, TypeOK, engine, wakeup
<1>2. CASE InitRegulator
  <2>1. refcnt' \in Nat /\ tidy' \in BOOLEAN
    BY <1>0, <1>2, CountOf DEF InitRegulator, PaDisable, TypeOK
  <2>2. QED  BY <1>0, <1>2, <2>1 DEF InitRegulator, TypeOK, engine, wakeup
<1>3. CASE InitEngine
  BY <1>0, <1>3 DEF InitEngine, TypeOK, power
<1>4. CASE SetRegulator
  <2>1. refcnt' \in Nat
    BY <1>0, <1>4, CountOf DEF SetRegulator, TypeOK
  <2>2. QED  BY <1>0, <1>4, <2>1 DEF SetRegulator, TypeOK, engine, wakeup
<1>5. CASE Reset
  BY <1>0, <1>5 DEF Reset, ClockDriver, RegulatorDriver, TypeOK
<1>6. CASE TimerExpires /\ main # "loop"
  BY <1>0, <1>6 DEF TimerExpires, TypeOK, engine, power
<1>7. QED  BY <1>1, <1>2, <1>3, <1>4, <1>5, <1>6 DEF Outside

LEMMA RadioTypeStep ==
  ASSUME RadioTypeOK, [RadioNext]_all
  PROVE  RadioTypeOK'
<1>0. TypeOK /\ I2c \subseteq BOOLEAN
  BY BusOutcomes DEF RadioTypeOK
<1>1. TypeOK'
  BY <1>0, EngineSteps, OutsideTypes, TypeStep
<1>2. CASE Main
  BY <1>0, <1>1, <1>2, ZenonT(60)
     DEF Main, InitClock, InitRegulator, InitRtc, InitPins, InitForward, InitBackward,
         InitFlag, InitEngine, OutputFollowsCount, RadioTypeOK, Boot, antenna
<1>3. CASE Command
  <2>1. CASE \E tx \in BOOLEAN : SwitchAntenna(tx)
    <3>1. PICK tx \in BOOLEAN : SwitchAntenna(tx)
      BY <2>1
    <3>2. fwd' \in BOOLEAN /\ bwd' \in BOOLEAN /\ txActive' \in BOOLEAN
      BY <3>1 DEF SwitchAntenna
    <3>3. raced' \in BOOLEAN /\ answer' = "ack" /\ UNCHANGED <<main, oe, early>>
      BY <3>1 DEF SwitchAntenna
    <3>4. QED  BY <1>1, <3>2, <3>3 DEF RadioTypeOK
  <2>2. CASE StartTestSignal \/ RefuseTestSignal \/ RejectCommand
    BY <1>1, <2>2 DEF StartTestSignal, RefuseTestSignal, RejectCommand, RadioTypeOK, antenna
  <2>3. CASE SetRegulator
    BY <1>1, <2>3 DEF SetRegulator, OutputFollowsCount, RadioTypeOK, antenna
  <2>4. CASE Reset
    BY <1>0, <1>1, <2>4 DEF Reset, ClockDriver, RegulatorDriver, RadioTypeOK, Boot
  <2>5. QED  BY <1>3, <2>1, <2>2, <2>3, <2>4 DEF Command
<1>4. CASE EngineRuns
  BY <1>1, <1>4 DEF EngineRuns, OutputFollowsCount, RadioTypeOK, antenna
<1>5. CASE TimerExpires \/ UNCHANGED all
  BY <1>1, <1>5 DEF TimerExpires, RadioTypeOK, board, all
<1>6. QED  BY <1>2, <1>3, <1>4, <1>5 DEF RadioNext

LEMMA BootStep ==
  ASSUME RadioTypeOK, BootInv, EngineSound, [RadioNext]_all
  PROVE  BootInv'
<1>1. CASE InitClock \/ InitRegulator
  BY <1>1 DEF InitClock, InitRegulator, BootInv, engine, wakeup
<1>2. CASE InitRtc \/ InitPins \/ InitForward \/ InitBackward \/ InitFlag
  BY <1>2 DEF InitRtc, InitPins, InitForward, InitBackward, InitFlag, BootInv, vars
<1>3. CASE InitEngine
  BY <1>3 DEF InitEngine, BootInv
<1>4. CASE Command
  BY <1>4
     DEF Command, SwitchAntenna, StartTestSignal, RefuseTestSignal, RejectCommand,
         SetRegulator, Reset, ClockDriver, BootInv, engine, wakeup, vars
<1>5. CASE EngineRuns
  <2>1. main' = main /\ (main # "loop" => (~early' => ~early))
    BY <1>5 DEF EngineRuns
  <2>2. ASSUME ~early, main # "loop" PROVE FALSE
    BY <1>5, <2>2
       DEF EngineRuns, BootInv, Continue, Work, StopTimer, CancelWork, StopOff, Clear,
           Begin, Apply, Arm, CompleteOff, Complete
  <2>3. QED  BY <2>1, <2>2 DEF BootInv
<1>6. CASE TimerExpires
  BY <1>6 DEF TimerExpires, BootInv, board
<1>7. CASE UNCHANGED all
  BY <1>7 DEF all, BootInv
<1>8. QED
  BY <1>1, <1>2, <1>3, <1>4, <1>5, <1>6, <1>7 DEF RadioNext, Main

\* A signal that begins is in order whatever went before.
LEMMA BeginSound ==
  ASSUME TypeOK, RestartInv, Begin
  PROVE  WakeupInv' /\ EngineInv' /\ PowerInv'
<1>1. /\ pc = "begin" /\ pc' = "apply"
      /\ seq' = TestSignal /\ index' = 0 /\ active' /\ arg' = NoSeq
      /\ ~timer' /\ ~txWork' /\ ~elapsed'
      /\ refcnt' = refcnt /\ tidy' = tidy
  BY DEF Begin, RestartInv, wakeup, power
<1>2. /\ TestSignal \in Sequences /\ TestSignal # NoSeq
      /\ Len(TestSignal.on) = 1 /\ ~TestSignal.repeat
  BY RadioAssumption, SequenceData DEF TestSignal
<1>3. WakeupInv'
  BY <1>1 DEF WakeupInv
<1>4. EngineInv'
  BY <1>1, <1>2 DEF EngineInv, Ending, Stopping
<1>5. PowerInv'
  <2>1. Keyed(TestSignal)
    BY DEF Keyed, TestSignal
  <2>2. tidy => refcnt = 0
    BY <1>1 DEF RestartInv
  <2>3. QED  BY <1>1, <2>1, <2>2 DEF PowerInv
<1>6. QED  BY <1>3, <1>4, <1>5

LEMMA SoundStep ==
  ASSUME RadioTypeOK, BootInv, EngineSound, RestartInv, [RadioNext]_all
  PROVE  EngineSound'
<1>0. TypeOK /\ I2c \subseteq BOOLEAN
  BY BusOutcomes DEF RadioTypeOK
<1>1. early => early' \/ Reset \/ Begin
  <2>1. CASE EngineRuns
    BY <2>1
       DEF EngineRuns, Continue, Work, StopTimer, CancelWork, StopOff, Clear, Apply, Arm,
           CompleteOff, Complete
  <2>2. CASE ~EngineRuns
    BY <2>2
       DEF RadioNext, Main, InitClock, InitRegulator, InitRtc, InitPins, InitForward,
           InitBackward, InitFlag, InitEngine, Command, SwitchAntenna, StartTestSignal,
           RefuseTestSignal, RejectCommand, SetRegulator, TimerExpires, board, all
  <2>3. QED  BY <2>1, <2>2
<1>2. CASE Reset
  BY <1>0, <1>2 DEF Reset, EngineSound, WakeupInv, EngineInv, PowerInv, Stopping, Ending
<1>3. ASSUME ~early, [Next]_vars PROVE WakeupInv' /\ EngineInv' /\ PowerInv'
  BY <1>0, <1>3, WakeupStep, EngineStep, PowerStep DEF EngineSound
<1>4. ASSUME ~early, Outside, ~Reset PROVE WakeupInv' /\ EngineInv' /\ PowerInv'
  <2>0. WakeupInv /\ EngineInv /\ PowerInv
    BY <1>4 DEF EngineSound
  <2>1. CASE InitClock
    BY <2>0, <2>1
       DEF InitClock, WakeupInv, EngineInv, PowerInv, Stopping, Ending, engine, wakeup
  <2>2. CASE InitRegulator
    <3>1. pc = "idle" /\ ~active /\ (tidy => refcnt = 0)
      BY <1>4, <2>0, <2>2 DEF InitRegulator, BootInv, PowerInv
    <3>2. tidy' => tidy /\ refcnt' = 0
      BY <1>0, <2>2, <3>1, CountOf DEF InitRegulator, PaDisable
    <3>3. WakeupInv' /\ EngineInv'
      BY <2>0, <2>2
         DEF InitRegulator, WakeupInv, EngineInv, Stopping, Ending, engine, wakeup
    <3>4. PowerInv'
      BY <2>0, <2>2, <3>1, <3>2 DEF InitRegulator, PowerInv, engine, wakeup
    <3>5. QED  BY <3>3, <3>4
  <2>3. CASE InitEngine
    <3>1. /\ pc = "idle" /\ arg = NoSeq /\ ~active /\ ~timer /\ ~txWork
          /\ seq = NoSeq /\ index = 0 /\ ~elapsed
      BY <1>4, <2>0, <2>3 DEF InitEngine, BootInv, EngineInv
    <3>2. UNCHANGED <<pc, arg, seq, index, refcnt, tidy>>
      BY <2>3, <3>1 DEF InitEngine, power
    <3>3. ~active' /\ ~timer' /\ ~txWork' /\ ~elapsed'
      <4>1. timer = FALSE /\ txWork = FALSE
        BY <1>0, <3>1 DEF TypeOK
      <4>2. timer' = FALSE /\ txWork' = FALSE /\ active' = FALSE /\ elapsed' = FALSE
        BY <2>3, <4>1 DEF InitEngine
      <4>3. QED  BY <4>2
    <3>4. QED
      BY <2>0, <3>1, <3>2, <3>3 DEF WakeupInv, EngineInv, PowerInv, Stopping, Ending
  <2>4. CASE SetRegulator
    <3>1. WakeupInv' /\ EngineInv' /\ ~tidy'
      BY <2>0, <2>4
         DEF SetRegulator, WakeupInv, EngineInv, Stopping, Ending, engine, wakeup
    <3>2. QED  BY <3>1 DEF PowerInv
  <2>5. CASE TimerExpires /\ main # "loop"
    BY <1>4, <2>5 DEF TimerExpires, BootInv
  <2>6. QED  BY <1>4, <2>1, <2>2, <2>3, <2>4, <2>5 DEF Outside
<1>5. CASE Begin
  BY <1>0, <1>5, BeginSound DEF EngineSound
<1>6. QED
  BY <1>1, <1>2, <1>3, <1>4, <1>5, EngineSteps DEF EngineSound

LEMMA OutputStep ==
  ASSUME RadioTypeOK, OutputInv, [RadioNext]_all
  PROVE  OutputInv'
<1>0. TypeOK /\ oe \in BOOLEAN /\ refcnt \in Nat /\ I2c \subseteq BOOLEAN
  BY BusOutcomes DEF RadioTypeOK, TypeOK
<1>1. ASSUME OutputFollowsCount, tidy' => tidy, refcnt' \in Nat PROVE OutputInv'
  <2>1. ASSUME tidy' PROVE oe' <=> refcnt' > 0
    <3>1. oe <=> refcnt > 0
      BY <1>1, <2>1 DEF OutputInv
    <3>2. oe' = IF refcnt = 0 /\ refcnt' > 0 THEN TRUE
                ELSE IF refcnt > 0 /\ refcnt' = 0 THEN FALSE ELSE oe
      BY <1>1 DEF OutputFollowsCount
    <3>3. CASE refcnt' > 0
      BY <1>0, <3>1, <3>2, <3>3
    <3>4. CASE refcnt' = 0
      BY <1>0, <3>1, <3>2, <3>4
    <3>5. QED  BY <1>1, <3>3, <3>4
  <2>2. QED  BY <2>1 DEF OutputInv
<1>2. ASSUME UNCHANGED <<refcnt, oe>>, tidy' => tidy PROVE OutputInv'
  BY <1>2 DEF OutputInv
<1>3. refcnt' \in Nat
  BY RadioTypeStep DEF RadioTypeOK, TypeOK
<1>4. CASE InitClock \/ InitEngine
  BY <1>2, <1>4 DEF InitClock, InitEngine, power
<1>5. CASE InitRegulator
  <2>1. tidy' => tidy
    BY <1>5 DEF InitRegulator, PaDisable
  <2>2. OutputFollowsCount
    BY <1>5 DEF InitRegulator
  <2>3. QED  BY <1>1, <1>3, <2>1, <2>2
<1>6. CASE InitRtc \/ InitPins \/ InitForward \/ InitBackward \/ InitFlag
  BY <1>2, <1>6 DEF InitRtc, InitPins, InitForward, InitBackward, InitFlag, vars, antenna
<1>7. CASE SetRegulator
  BY <1>7 DEF SetRegulator, OutputInv
<1>8. CASE Reset
  <2>1. refcnt' = 0 /\ \E ok \in I2c : oe' = (oe /\ ~ok) /\ tidy' = ok
    BY <1>8 DEF Reset, RegulatorDriver
  <2>2. PICK ok \in BOOLEAN : oe' = (oe /\ ~ok) /\ tidy' = ok
    BY <1>0, <2>1
  <2>3. tidy' => ~oe'
    BY <2>2
  <2>4. ~(refcnt' > 0)
    BY <2>1
  <2>5. QED  BY <2>3, <2>4 DEF OutputInv
<1>9. CASE StartTestSignal
  <2>1. refcnt' = refcnt /\ oe' = oe /\ tidy' = (tidy /\ Keyed(TestSignal))
    BY <1>9 DEF StartTestSignal, Start
  <2>2. QED  BY <1>2, <2>1
<1>10. CASE RefuseTestSignal \/ RejectCommand \/ \E tx \in BOOLEAN : SwitchAntenna(tx)
  BY <1>2, <1>10 DEF RefuseTestSignal, RejectCommand, SwitchAntenna, vars
<1>11. CASE EngineRuns
  <2>1. OutputFollowsCount /\ (Continue \/ Work)
    BY <1>11 DEF EngineRuns
  <2>2. tidy' => tidy
    BY <2>1 DEF Continue, StopTimer, CancelWork, StopOff, Clear, Begin, Apply, Arm,
                CompleteOff, Complete, Work, TxOff, PaEnable, power
  <2>3. QED  BY <1>1, <1>3, <2>1, <2>2
<1>12. CASE TimerExpires
  BY <1>2, <1>12 DEF TimerExpires, Expire, power
<1>13. CASE UNCHANGED all
  BY <1>2, <1>13 DEF all
<1>14. QED
  BY <1>4, <1>5, <1>6, <1>7, <1>8, <1>9, <1>10, <1>11, <1>12, <1>13
     DEF RadioNext, Main, Command

LEMMA PinsStep ==
  ASSUME RadioTypeOK, PinsInv, [RadioNext]_all
  PROVE  PinsInv'
<1>0. fwd \in BOOLEAN /\ bwd \in BOOLEAN /\ txActive \in BOOLEAN /\ raced \in BOOLEAN
  BY DEF RadioTypeOK
<1>1. ASSUME UNCHANGED <<main, fwd, bwd, txActive, raced>> PROVE PinsInv'
  BY <1>1 DEF PinsInv
<1>2. CASE InitClock
  BY <1>2 DEF InitClock, PinsInv, antenna
<1>3. CASE InitRegulator \/ InitRtc
  BY <1>3 DEF InitRegulator, InitRtc, PinsInv, antenna
<1>4. CASE InitPins
  BY <1>4 DEF InitPins, PinsInv
<1>5. CASE InitForward
  BY <1>5 DEF InitForward, PinsInv
<1>6. CASE InitBackward
  BY <1>6 DEF InitBackward, PinsInv
<1>7. CASE InitFlag
  BY <1>0, <1>7 DEF InitFlag, PinsInv
<1>8. CASE InitEngine
  BY <1>8 DEF InitEngine, PinsInv, antenna
<1>9. ASSUME NEW tx \in BOOLEAN, SwitchAntenna(tx) PROVE PinsInv'
  <2>1. /\ fwd' = tx /\ bwd' = ~tx /\ txActive' = tx /\ main' = main
        /\ raced' = (main \in {"tr_bwd", "tr_flag"})
    BY <1>9 DEF SwitchAntenna
  <2>2. QED  BY <1>0, <2>1 DEF PinsInv
<1>10. CASE Reset
  BY <1>10 DEF Reset, ClockDriver, PinsInv
<1>11. CASE StartTestSignal \/ RefuseTestSignal \/ RejectCommand \/ SetRegulator
  BY <1>1, <1>11 DEF StartTestSignal, RefuseTestSignal, RejectCommand, SetRegulator, antenna
<1>12. CASE EngineRuns \/ TimerExpires \/ UNCHANGED all
  BY <1>1, <1>12 DEF EngineRuns, TimerExpires, antenna, board, all
<1>13. QED
  BY <1>2, <1>3, <1>4, <1>5, <1>6, <1>7, <1>8, <1>9, <1>10, <1>11, <1>12
     DEF RadioNext, Main, Command

\* A test signal has one symbol and is not repeated.
LEMMA OneSymbol ==
  ASSUME TypeOK, Work
  PROVE  pc' \notin Starting
<1>1. CASE seq = NoSeq
  BY <1>1 DEF Work, Starting
<1>2. CASE seq # NoSeq
  <2>1. seq = TestSignal /\ index \in Nat
    BY <1>2, RadioAssumption DEF TypeOK
  <2>2. Len(seq.on) = 1 /\ ~seq.repeat
    BY <2>1 DEF TestSignal
  <2>3. ~(index + 1 < Len(seq.on) \/ seq.repeat)
    BY <2>1, <2>2
  <2>4. SequenceOver
    BY <1>2, <2>3 DEF Work
  <2>5. QED  BY <2>4 DEF SequenceOver, Starting
<1>3. QED  BY <1>1, <1>2

LEMMA TransmitStep ==
  ASSUME RadioTypeOK, BootInv, EngineSound, TransmitInv, [RadioNext]_all
  PROVE  TransmitInv'
<1>1. ASSUME UNCHANGED <<pc, txActive, early>> PROVE TransmitInv'
  BY <1>1 DEF TransmitInv
<1>2. CASE InitFlag
  BY <1>2 DEF InitFlag, TransmitInv, BootInv, vars, Starting
<1>3. CASE Main /\ ~InitFlag
  BY <1>1, <1>3
     DEF Main, InitClock, InitRegulator, InitRtc, InitPins, InitForward, InitBackward,
         InitEngine, antenna, vars
<1>4. ASSUME NEW tx \in BOOLEAN, SwitchAntenna(tx) PROVE TransmitInv'
  BY <1>4 DEF SwitchAntenna, TransmitInv, Starting, vars
<1>5. CASE StartTestSignal
  BY <1>5 DEF StartTestSignal, TransmitInv, antenna
<1>6. CASE RefuseTestSignal \/ RejectCommand \/ SetRegulator
  BY <1>1, <1>6 DEF RefuseTestSignal, RejectCommand, SetRegulator, vars, antenna
<1>7. CASE Reset
  BY <1>7 DEF Reset, TransmitInv, Starting
<1>8. CASE EngineRuns
  <2>1. txActive' = txActive /\ (~early' => ~early \/ txActive)
    BY <1>8 DEF EngineRuns, antenna
  <2>2. CASE Continue
    <3>1. pc' \in Starting => pc \in Starting
      BY <2>2 DEF Continue, StopTimer, CancelWork, StopOff, Clear, Begin, Apply, Arm,
                  CompleteOff, Complete, Starting
    <3>2. QED  BY <2>1, <3>1 DEF TransmitInv
  <2>3. CASE Work
    BY <2>1, <2>3, OneSymbol DEF TransmitInv, RadioTypeOK
  <2>4. QED  BY <1>8, <2>2, <2>3 DEF EngineRuns
<1>9. CASE TimerExpires \/ UNCHANGED all
  BY <1>1, <1>9 DEF TimerExpires, Expire, board, all
<1>10. QED
  BY <1>2, <1>3, <1>4, <1>5, <1>6, <1>7, <1>8, <1>9 DEF RadioNext, Command

LEMMA RestartStep ==
  ASSUME RadioTypeOK, RestartInv, [RadioNext]_all
  PROVE  RestartInv'
<1>0. TypeOK /\ refcnt \in Nat /\ I2c \subseteq BOOLEAN
  BY BusOutcomes DEF RadioTypeOK, TypeOK
<1>1. ASSUME UNCHANGED <<pc, arg, timer, txWork, elapsed, refcnt, tidy>> PROVE RestartInv'
  BY <1>1 DEF RestartInv
<1>2. CASE InitClock
  BY <1>1, <1>2, <1>0 DEF InitClock, RestartInv, engine, wakeup
<1>3. CASE InitRegulator
  <2>1. UNCHANGED <<pc, arg, timer, txWork, elapsed>>
    BY <1>3 DEF InitRegulator, wakeup
  <2>2. /\ tidy' => tidy
        /\ refcnt \in {0, 1} => refcnt' \in {0, 1}
        /\ refcnt = 0 => refcnt' = 0
    <3>1. CASE PaDisable
      <4>1. PICK ok \in I2c : refcnt' = Released(ok) /\ (tidy' => tidy)
        BY <3>1 DEF PaDisable
      <4>2. QED  BY <1>0, <4>1 DEF Released
    <3>2. CASE UNCHANGED <<refcnt, tidy>>
      BY <3>2
    <3>3. QED  BY <1>3, <3>1, <3>2 DEF InitRegulator
  <2>3. QED  BY <2>1, <2>2 DEF RestartInv
<1>4. CASE InitRtc \/ InitPins \/ InitForward \/ InitBackward \/ InitFlag
  BY <1>1, <1>4
     DEF InitRtc, InitPins, InitForward, InitBackward, InitFlag, vars, wakeup, power
<1>5. CASE InitEngine
  <2>1. UNCHANGED <<pc, arg, refcnt, tidy>> /\ ~elapsed'
    BY <1>5 DEF InitEngine, power
  <2>2. (timer' => timer) /\ (txWork' => txWork)
    <3>1. timer \in BOOLEAN /\ txWork \in BOOLEAN
      BY <1>0 DEF TypeOK
    <3>2. timer = FALSE => timer' = FALSE
      BY <1>5 DEF InitEngine
    <3>3. txWork = FALSE => txWork' = FALSE
      BY <1>5 DEF InitEngine
    <3>4. QED  BY <3>1, <3>2, <3>3
  <2>3. QED  BY <2>1, <2>2 DEF RestartInv
<1>6. CASE StartTestSignal
  BY <1>6 DEF StartTestSignal, Start, RestartInv
<1>7. CASE RefuseTestSignal \/ RejectCommand \/ \E tx \in BOOLEAN : SwitchAntenna(tx)
  BY <1>1, <1>7 DEF RefuseTestSignal, RejectCommand, SwitchAntenna, vars, wakeup, power
<1>8. CASE SetRegulator
  BY <1>8 DEF SetRegulator, RestartInv
<1>9. CASE Reset
  BY <1>9 DEF Reset, RestartInv
<1>10. CASE Continue
  <2>1. CASE StopTimer
    BY <2>1 DEF StopTimer, RestartInv, power
  <2>2. CASE CancelWork
    BY <2>2 DEF CancelWork, RestartInv, power
  <2>3. CASE StopOff
    <3>1. pc' = "clear" /\ pc = "stop_off" /\ UNCHANGED <<arg, timer, txWork, elapsed>>
      BY <2>3 DEF StopOff, wakeup
    <3>2. tidy' => refcnt' = 0
      BY <1>0, <2>3, TxOffCount DEF StopOff, RestartInv
    <3>3. QED  BY <3>1, <3>2 DEF RestartInv
  <2>4. CASE Clear
    <3>1. /\ pc = "clear" /\ ~elapsed' /\ UNCHANGED <<arg, timer, txWork, refcnt, tidy>>
          /\ pc' = "idle" \/ (pc' = "begin" /\ arg # NoSeq)
      BY <2>4 DEF Clear, wakeup, power
    <3>2. arg # NoSeq => arg = TestSignal
      BY <1>0, RadioAssumption DEF TypeOK
    <3>3. QED  BY <3>1, <3>2 DEF RestartInv
  <2>5. CASE Begin
    BY <2>5 DEF Begin, RestartInv, wakeup, power
  <2>6. CASE Apply
    <3>1. pc = "apply" /\ pc' = "arm" /\ (TxOff \/ PaEnable)
      BY <2>6 DEF Apply
    <3>2. tidy' => refcnt' \in {0, 1}
      BY <1>0, <3>1, TxOffCount, PaEnableCount DEF RestartInv
    <3>3. QED  BY <3>1, <3>2 DEF RestartInv
  <2>7. CASE Arm
    BY <2>7 DEF Arm, RestartInv, power
  <2>8. CASE CompleteOff
    <3>1. pc' = "complete"
      BY <2>8 DEF CompleteOff
    <3>2. tidy' => refcnt' \in {0, 1}
      BY <1>0, <2>8, TxOffCount DEF CompleteOff, RestartInv
    <3>3. QED  BY <3>1, <3>2 DEF RestartInv
  <2>9. CASE Complete
    BY <2>9 DEF Complete, RestartInv, power
  <2>10. QED
    BY <1>10, <2>1, <2>2, <2>3, <2>4, <2>5, <2>6, <2>7, <2>8, <2>9 DEF Continue
<1>11. CASE Work
  <2>1. pc' \notin Starting /\ UNCHANGED <<refcnt, tidy>>
    BY <1>0, <1>11, OneSymbol DEF Work, power
  <2>2. QED  BY <2>1 DEF RestartInv, Starting
<1>12. CASE TimerExpires
  <2>1. timer /\ ~timer' /\ UNCHANGED <<pc, arg, refcnt, tidy>>
    BY <1>0, <1>12 DEF TimerExpires, Expire, power
  <2>2. pc \notin {"cancel_work", "stop_off", "clear", "begin"}
    BY <2>1 DEF RestartInv
  <2>3. QED  BY <2>1, <2>2 DEF RestartInv
<1>13. CASE UNCHANGED all
  BY <1>1, <1>13 DEF all
<1>14. QED
  BY <1>2, <1>3, <1>4, <1>5, <1>6, <1>7, <1>8, <1>9, <1>10, <1>11, <1>12, <1>13
     DEF RadioNext, Main, Command, EngineRuns
-----------------------------------------------------------------------------
LEMMA InitRadio == RadioInit => RadioInv
<1> SUFFICES ASSUME RadioInit PROVE RadioInv
  OBVIOUS
<1>1. RadioTypeOK
  BY DEF RadioInit, RadioTypeOK, TypeOK, Steps, Boot
<1>2. BootInv /\ OutputInv /\ PinsInv /\ TransmitInv /\ RestartInv
  BY DEF RadioInit, BootInv, OutputInv, PinsInv, TransmitInv, RestartInv, Starting
<1>3. EngineSound
  BY DEF RadioInit, EngineSound, WakeupInv, EngineInv, PowerInv, Stopping, Ending
<1>4. QED  BY <1>1, <1>2, <1>3 DEF RadioInv

LEMMA RadioStep == RadioInv /\ [RadioNext]_all => RadioInv'
BY RadioTypeStep, BootStep, SoundStep, OutputStep, PinsStep, TransmitStep, RestartStep
   DEF RadioInv

LEMMA RadioInductive == RadioSpec => []RadioInv
BY InitRadio, RadioStep, PTL DEF RadioSpec

\* Once main is in its loop, an active transmitter has its antenna on transmit and an
\* inactive one on receive: the first always, the second unless the latest antenna
\* command came in the middle of tr_switch_init.
THEOREM AntennaCorrect == RadioSpec => []AntennaAgrees
<1>1. RadioInv => AntennaAgrees
  BY DEF RadioInv, RadioTypeOK, PinsInv, AntennaAgrees
<1>2. QED  BY <1>1, RadioInductive, PTL

\* On a bus that works, and unless the host took the regulator over or started the
\* engine before tx_engine_init, the amplifier's output is on between two calls
\* exactly while a signal is on the air, also after a reset of the microcontroller.
THEOREM AmplifierCorrect == RadioSpec => []AmplifierFollows
<1>1. RadioInv => AmplifierFollows
  <2> SUFFICES ASSUME RadioInv, pc = "idle", tidy, ~early
               PROVE  oe = (active /\ On(seq, index))
    BY DEF AmplifierFollows, RadioInv
  <2>1. /\ TypeOK /\ EngineInv /\ PowerInv /\ oe \in BOOLEAN
        /\ oe <=> refcnt > 0
    BY DEF RadioInv, RadioTypeOK, EngineSound, OutputInv
  <2>2. CASE ~active
    BY <2>1, <2>2 DEF TypeOK, PowerInv
  <2>3. CASE active
    <3>1. On(seq, index) \in BOOLEAN
      BY <2>1, <2>3, SequenceData DEF TypeOK, EngineInv, Ending
    <3>2. QED  BY <2>1, <2>3, <3>1 DEF TypeOK, PowerInv
  <2>4. QED  BY <2>1, <2>2, <2>3 DEF TypeOK
<1>2. QED  BY <1>1, RadioInductive, PTL

\* A use count that does not grow powers nothing up.
LEMMA NoMorePower ==
  ASSUME refcnt \in Nat, refcnt' \in Nat, refcnt' <= refcnt, OutputFollowsCount
  PROVE  oe' => oe
<1>1. ~(refcnt = 0 /\ refcnt' > 0)
  OBVIOUS
<1>2. QED  BY <1>1 DEF OutputFollowsCount

\* Boot, the other commands, a reset and the timer do not power the amplifier up.
LEMMA OthersPowerDown ==
  ASSUME RadioTypeOK, [RadioNext]_all, ~EngineRuns, ~SetRegulator
  PROVE  oe' => oe
<1>0. refcnt \in Nat
  BY DEF RadioTypeOK, TypeOK
<1>1. CASE InitRegulator
  <2>1. refcnt' = refcnt \/ \E ok \in I2c : refcnt' = Released(ok)
    BY <1>1 DEF InitRegulator, PaDisable
  <2>2. refcnt' \in Nat /\ refcnt' <= refcnt
    BY <1>0, <2>1 DEF Released
  <2>3. QED  BY <1>0, <1>1, <2>2, NoMorePower DEF InitRegulator
<1>2. CASE Main /\ ~InitRegulator
  BY <1>2 DEF Main, InitClock, InitRtc, InitPins, InitForward, InitBackward, InitFlag, InitEngine
<1>3. CASE Reset
  BY <1>3 DEF Reset, RegulatorDriver
<1>4. CASE \E tx \in BOOLEAN : SwitchAntenna(tx)
  BY <1>4 DEF SwitchAntenna
<1>5. CASE StartTestSignal \/ RefuseTestSignal \/ RejectCommand
  BY <1>5 DEF StartTestSignal, RefuseTestSignal, RejectCommand
<1>6. CASE TimerExpires \/ UNCHANGED all
  BY <1>6 DEF TimerExpires, all
<1>7. QED
  BY <1>1, <1>2, <1>3, <1>4, <1>5, <1>6 DEF RadioNext, Command

\* Nothing but the host's command to the regulator powers the amplifier up while
\* the antenna is on receive, unless the engine was started before tx_engine_init.
THEOREM PowerUpCorrect == RadioSpec => PowerUpInTransmit
<1>1. RadioInv /\ [RadioNext]_all =>
        [~oe /\ oe' => SetRegulator \/ early \/ (txActive /\ fwd /\ ~bwd)]_all
  <2> SUFFICES ASSUME RadioInv, [RadioNext]_all, ~oe, oe', ~SetRegulator, ~early
               PROVE  txActive /\ fwd /\ ~bwd
    OBVIOUS
  <2>1. /\ RadioTypeOK /\ BootInv /\ EngineSound /\ PinsInv /\ TransmitInv
        /\ TypeOK /\ refcnt \in Nat
    BY DEF RadioInv, RadioTypeOK, TypeOK
  <2>2. EngineRuns
    BY <2>1, OthersPowerDown
  <2>3. refcnt = 0 /\ refcnt' > 0
    BY <2>2 DEF EngineRuns, OutputFollowsCount
  <2>4. Apply
    <3>1. ~TxOff
      BY <2>3, BusOutcomes DEF TxOff, Released
    <3>2. refcnt' # refcnt
      BY <2>3
    <3>3. QED
      BY <2>2, <3>1, <3>2
         DEF EngineRuns, Continue, Work, StopTimer, CancelWork, StopOff, Clear, Begin, Arm,
             CompleteOff, Complete, power
  <2>5. pc = "apply" /\ txActive
    BY <2>1, <2>4 DEF Apply, TransmitInv, Starting
  <2>6. main = "loop"
    BY <2>1, <2>5 DEF BootInv
  <2>7. QED  BY <2>1, <2>5, <2>6 DEF PinsInv
<1>2. QED  BY <1>1, RadioInductive, PTL DEF RadioSpec, PowerUpInTransmit

\* Driven by commands, resets and a booting main thread, the engine still plays
\* the symbols of a sequence in order, each for its time.
THEOREM PlaysCorrect == RadioSpec => PlaysInOrderUnlessEarly
<1>1. RadioInv /\ [RadioNext]_all =>
        [early \/ early' \/ Playing!Next \/ UNCHANGED Playing!vars]_all
  <2> SUFFICES ASSUME RadioInv, [RadioNext]_all, ~early
               PROVE  Playing!Next \/ UNCHANGED Playing!vars
    OBVIOUS
  <2>1. /\ TypeOK /\ BootInv /\ WakeupInv /\ EngineInv
    BY DEF RadioInv, RadioTypeOK, EngineSound
  <2>2. CASE [Next]_vars
    BY <2>1, <2>2, StepRefines
  <2>3. CASE InitClock \/ InitRegulator \/ SetRegulator
    BY <2>3, SilentStep DEF InitClock, InitRegulator, SetRegulator, engine, Ending
  <2>4. CASE InitEngine
    <3>1. pc = "idle" /\ seq = NoSeq /\ index = 0 /\ elapsed = FALSE /\ pc' = pc
      BY <2>1, <2>4 DEF InitEngine, BootInv, EngineInv, TypeOK
    <3>2. UNCHANGED <<seq, index, elapsed>> /\ (Ending' <=> Ending)
      BY <2>4, <3>1 DEF InitEngine, Ending
    <3>3. QED  BY <3>2, SilentStep
  <2>5. CASE Reset
    <3>1. /\ pc = "idle" /\ pc' = pc
          /\ seq' = NoSeq /\ index' = 0 /\ elapsed' = FALSE
      BY <2>5 DEF Reset
    <3>2. CASE seq = NoSeq
      <4>1. index = 0 /\ elapsed = FALSE
        BY <2>1, <3>2 DEF EngineInv, TypeOK
      <4>2. QED  BY <3>1, <3>2, <4>1, SilentStep DEF Ending
    <3>3. CASE seq # NoSeq
      <4>1. Playing!Cut
        BY <3>1, <3>3 DEF Playing!Cut, Playing!Silence
      <4>2. QED  BY <4>1 DEF Playing!Next
    <3>4. QED  BY <3>2, <3>3
  <2>6. CASE TimerExpires /\ main # "loop"
    BY <2>1, <2>6 DEF TimerExpires, BootInv
  <2>7. QED
    BY <2>2, <2>3, <2>4, <2>5, <2>6, EngineSteps DEF Outside
<1>2. QED  BY <1>1, RadioInductive, PTL DEF RadioSpec, PlaysInOrderUnlessEarly
=============================================================================
