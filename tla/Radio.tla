--------------------------------- MODULE Radio ---------------------------------
(***************************************************************************)
(* The transmitter as the host commands it (src/radio/radio_cmd.c): the    *)
(* engine of TxEngine, the antenna switch (src/hardware/tr_switch.c), the  *)
(* amplifier's regulator, and the boot sequence of src/main.c, which runs  *)
(* in the main thread while commands are already served: the work queue    *)
(* preempts main at any point, main runs when the work queue has nothing   *)
(* to do or waits for the bus.  A reset restarts the microcontroller and   *)
(* not the chips on the bus.                                               *)
(*                                                                         *)
(* Each command handler runs to its end on the work queue; a test signal   *)
(* enters the engine, whose steps follow.                                  *)
(***************************************************************************)
EXTENDS TxEngine

VARIABLES
  main,      \* what the main thread does next
  fwd, bwd,  \* the pins of the antenna switch: forward is transmit
  txActive,  \* tx_active
  oe,        \* the regulator chip's output is enabled: the amplifier is powered
  answer,    \* the device's latest answer: "none", "ack", "nack" or "refused"
  early,     \* history: the engine was started before tx_engine_init, and no
             \* signal has begun after it since
  raced      \* history: the latest antenna command came in the middle of tr_switch_init

antenna == <<fwd, bwd, txActive>>
board   == <<main, fwd, bwd, txActive, answer, early, raced>>
all     == <<pc, arg, seq, index, active, timer, txWork, refcnt, clk, elapsed, tidy,
             main, fwd, bwd, txActive, oe, answer, early, raced>>

\* The one sequence a command can start.
TestSignal == [on |-> <<TRUE>>, repeat |-> FALSE]

ASSUME RadioAssumption == Sequences = {TestSignal}

Boot == {"clock", "regulator", "rtc", "tr_pins", "tr_fwd", "tr_bwd", "tr_flag", "engine"}

\* Power on: the clock chip's driver has come up, and main goes on to the
\* clock, or it has not, and main gives up; nobody gives up serving commands.
RadioInit ==
  /\ pc = "idle" /\ arg = NoSeq
  /\ seq = NoSeq /\ index = 0 /\ active = FALSE
  /\ timer = FALSE /\ txWork = FALSE
  /\ refcnt = 0 /\ clk = FALSE /\ elapsed = FALSE /\ tidy = TRUE
  /\ main \in {"clock", "aborted"}
  /\ fwd = FALSE /\ bwd = FALSE /\ txActive = FALSE
  /\ oe = FALSE /\ answer = "none" /\ early = FALSE /\ raced = FALSE

\* The chip's output follows the use count when that leaves or reaches 0.
OutputFollowsCount ==
  oe' = IF refcnt = 0 /\ refcnt' > 0 THEN TRUE
        ELSE IF refcnt > 0 /\ refcnt' = 0 THEN FALSE ELSE oe

PaDisable ==
  \E ok \in I2c :
    /\ refcnt' = Released(ok)
    /\ tidy' = (tidy /\ (refcnt = 1 => ok))
-----------------------------------------------------------------------------
(* The main thread *)

\* The work queue is idle or waits for the bus, at the end of the step before.
Waiting == pc \in {"idle", "clear", "arm", "complete"}

\* init_si5351a enables output 0; when an access fails main returns.
InitClock ==
  /\ Waiting /\ main = "clock"
  /\ \E ok \in I2c :
       /\ clk' = (clk \/ ok)
       /\ main' = IF ok THEN "regulator" ELSE "aborted"
  /\ UNCHANGED <<pc, arg, engine, wakeup, refcnt, elapsed, tidy>>
  /\ UNCHANGED <<antenna, oe, answer, early, raced>>

\* regulator_init disables the output; main goes on without a regulator.
InitRegulator ==
  /\ Waiting /\ main = "regulator" /\ main' = "rtc"
  /\ PaDisable \/ UNCHANGED <<refcnt, tidy>>
  /\ OutputFollowsCount
  /\ UNCHANGED <<pc, arg, engine, wakeup, clk, elapsed>>
  /\ UNCHANGED <<antenna, answer, early, raced>>

\* init_rtc, and the pins tr_switch_init looks at.
InitRtc ==
  /\ Waiting /\ main = "rtc"
  /\ main' \in {"tr_pins", "aborted"}
  /\ UNCHANGED <<vars, antenna, oe, answer, early, raced>>

\* tr_switch_init: the pins become outputs, and are set one after the other.
InitPins ==
  /\ Waiting /\ main = "tr_pins" /\ main' = "tr_fwd"
  /\ fwd' = FALSE /\ bwd' = FALSE
  /\ UNCHANGED <<vars, txActive, oe, answer, early, raced>>

InitForward ==
  /\ Waiting /\ main = "tr_fwd" /\ main' = "tr_bwd"
  /\ fwd' = FALSE
  /\ UNCHANGED <<vars, bwd, txActive, oe, answer, early, raced>>

InitBackward ==
  /\ Waiting /\ main = "tr_bwd" /\ main' = "tr_flag"
  /\ bwd' = TRUE
  /\ UNCHANGED <<vars, fwd, txActive, oe, answer, early, raced>>

\* Mutant: tr_switch_init leaves tx_active as it is.
InitFlagNot ==
  /\ Waiting /\ main = "tr_flag" /\ main' = "engine"
  /\ UNCHANGED <<vars, antenna, oe, answer, early, raced>>

InitFlag ==
  /\ Waiting /\ main = "tr_flag" /\ main' = "engine"
  /\ txActive' = FALSE
  /\ UNCHANGED <<vars, fwd, bwd, oe, answer, early, raced>>

\* tx_engine_init.  A timer or a work item that is in the kernel's lists when
\* it is initialised may be lost or not.
InitEngine ==
  /\ Waiting /\ main = "engine" /\ main' = "loop"
  /\ timer' \in {FALSE, timer} /\ txWork' \in {FALSE, txWork}
  /\ seq' = NoSeq /\ index' = 0 /\ active' = FALSE /\ elapsed' = FALSE
  /\ UNCHANGED <<pc, arg, power, antenna, oe, answer, early, raced>>

Main == \/ InitClock \/ InitRegulator \/ InitRtc
        \/ InitPins \/ InitForward \/ InitBackward \/ InitFlag \/ InitEngine
-----------------------------------------------------------------------------
(* The command handlers, on the work queue *)

\* handle_tr_switch: tr_set_tx or tr_set_rx.
SwitchAntenna(tx) ==
  /\ pc = "idle"
  /\ fwd' = tx /\ bwd' = ~tx /\ txActive' = tx
  /\ raced' = (main \in {"tr_bwd", "tr_flag"})
  /\ answer' = "ack"
  /\ UNCHANGED <<vars, main, oe, early>>

\* Mutant: the antenna is not looked at.
StartTestSignalAnyway ==
  /\ Start(TestSignal)
  /\ early' = (early \/ main # "loop")
  /\ answer' = "ack"
  /\ UNCHANGED <<main, antenna, oe, raced>>

\* handle_tx_test_signal, with a duration that is not 0.
StartTestSignal ==
  /\ txActive
  /\ Start(TestSignal)
  /\ early' = (early \/ main # "loop")
  /\ answer' = "ack"
  /\ UNCHANGED <<main, antenna, oe, raced>>

RefuseTestSignal ==
  /\ pc = "idle" /\ ~txActive
  /\ answer' = "refused"
  /\ UNCHANGED <<vars, main, antenna, oe, early, raced>>

\* A payload too short, a duration of 0, an antenna mode that is neither.
RejectCommand ==
  /\ pc = "idle"
  /\ answer' = "nack"
  /\ UNCHANGED <<vars, main, antenna, oe, early, raced>>

\* handle_set_buck_boost_regulator: after it the use count is no longer the
\* engine's alone.
SetRegulator ==
  /\ pc = "idle" /\ refcnt <= MaxRef
  /\ \/ \E ok \in I2c : refcnt' = IF refcnt = 0 /\ ~ok THEN 0 ELSE refcnt + 1
     \/ \E ok \in I2c : refcnt' = Released(ok)
  /\ OutputFollowsCount
  /\ tidy' = FALSE
  /\ answer' = "ack"
  /\ UNCHANGED <<pc, arg, engine, wakeup, clk, elapsed>>
  /\ UNCHANGED <<main, antenna, early, raced>>

\* si5351a_init disables the outputs; when it fails main finds no clock and gives up.
ClockDriver ==
  \E ok \in I2c :
    /\ clk' = (clk /\ ~ok)
    /\ main' = IF ok THEN "clock" ELSE "aborted"

\* Mutant: the regulator's driver leaves the chip's mode register alone.
RegulatorDriverNot == \E ok \in I2c : oe' = oe /\ tidy' = ok

\* tps55289_init writes the mode register and looks at no result.
RegulatorDriver == \E ok \in I2c : oe' = (oe /\ ~ok) /\ tidy' = ok

\* handle_reset: no answer is sent.
Reset ==
  /\ pc = "idle"
  /\ arg' = NoSeq /\ seq' = NoSeq /\ index' = 0 /\ active' = FALSE
  /\ timer' = FALSE /\ txWork' = FALSE /\ refcnt' = 0 /\ elapsed' = FALSE
  /\ ClockDriver /\ RegulatorDriver
  /\ fwd' = FALSE /\ bwd' = FALSE /\ txActive' = FALSE
  /\ answer' = "none" /\ early' = FALSE /\ raced' = FALSE
  /\ UNCHANGED pc

Command == \/ \E tx \in BOOLEAN : SwitchAntenna(tx)
           \/ StartTestSignal \/ RefuseTestSignal \/ RejectCommand
           \/ SetRegulator \/ Reset
-----------------------------------------------------------------------------
(* The engine's own steps *)

\* A signal that begins once main is in its loop, with the antenna on transmit, is
\* not early any more.
EngineRuns ==
  /\ Continue \/ Work
  /\ OutputFollowsCount
  /\ early' = (early /\ ~(pc = "begin" /\ main = "loop" /\ txActive))
  /\ UNCHANGED <<main, antenna, answer, raced>>

\* Mutant: the expiry handler submits nothing.
TimerExpiresUnheard ==
  /\ timer /\ timer' = FALSE /\ elapsed' = TRUE
  /\ UNCHANGED <<pc, arg, engine, txWork, power, board, oe>>

\* A timer that was never initialised has no expiry handler.
TimerExpires ==
  /\ IF main = "loop" THEN Expire
     ELSE /\ timer /\ timer' = FALSE /\ elapsed' = TRUE
          /\ UNCHANGED <<pc, arg, engine, txWork, power>>
  /\ UNCHANGED <<board, oe>>

RadioNext == Main \/ Command \/ EngineRuns \/ TimerExpires

RadioSpec == /\ RadioInit /\ [][RadioNext]_all
             /\ WF_all(EngineRuns) /\ WF_all(TimerExpires)
-----------------------------------------------------------------------------
RadioTypeOK ==
  /\ TypeOK
  /\ main \in Boot \cup {"loop", "aborted"}
  /\ fwd \in BOOLEAN /\ bwd \in BOOLEAN /\ txActive \in BOOLEAN /\ oe \in BOOLEAN
  /\ answer \in {"none", "ack", "nack", "refused"}
  /\ early \in BOOLEAN /\ raced \in BOOLEAN

\* Whatever the host commands, whenever it resets the device: on a bus that
\* works, and unless it took the regulator over or started the engine before
\* tx_engine_init, the amplifier is powered exactly while a signal is on the air.
AmplifierFollows ==
  /\ RadioTypeOK
  /\ pc = "idle" /\ tidy /\ ~early => oe = (active /\ On(seq, index))

\* Once main is in its loop, an active transmitter has its antenna on transmit,
\* however tr_switch_init and the antenna command got in each other's way, and an
\* inactive one has it on receive, but for a command in the middle of tr_switch_init:
\* then until the next antenna command.
AntennaAgrees ==
  main = "loop" => /\ txActive => fwd /\ ~bwd
                   /\ ~txActive => raced \/ (~fwd /\ bwd)

\* No step of the engine, of a command, of boot, of a timer or of a reset powers the
\* amplifier up unless the antenna is on transmit.  The host's own command to the
\* regulator does so whatever the antenna (radio_cmd.c:137), and an engine that was
\* started before tx_engine_init plays on after tr_switch_init went to receive.
PowerUpInTransmit ==
  [][~oe /\ oe' => SetRegulator \/ early \/ (txActive /\ fwd /\ ~bwd)]_all

\* Driven by commands and resets, the engine still plays in order.
PlaysInOrderUnlessEarly ==
  [][early \/ early' \/ Playing!Next \/ UNCHANGED Playing!vars]_all

\* A signal ends, unless the engine was started before tx_engine_init.
SignalEnds == (active /\ ~early) ~> ~active
=============================================================================
