------------------------------- MODULE TxEngine -------------------------------
(***************************************************************************)
(* The transmit engine (src/radio/tx_engine.c): a k_timer paces the symbols *)
(* of a sequence; its expiry handler, an interrupt, submits tx_work to the *)
(* system work queue, whose handler moves to the next symbol, keys the     *)
(* power amplifier and starts the timer again.                             *)
(*                                                                         *)
(* tx_engine_start, tx_engine_stop and tx_work_handler all run on the work *)
(* queue thread, one at a time (the only caller, handle_tx_test_signal,    *)
(* runs in the receive work item).  pc is that thread's place in them; the *)
(* timer may expire between any two of its steps.  NULL and empty          *)
(* sequences are refused by tx_engine_start and never get further.         *)
(***************************************************************************)
EXTENDS Naturals, Sequences

CONSTANTS Sequences, \* sequences a caller may start: [on : Seq(BOOLEAN), repeat : BOOLEAN]
          NoSeq,     \* NULL
          I2c,       \* outcomes a bus access may have: a subset of BOOLEAN, TRUE is success
          MaxRef     \* bound: no start once the regulator's use count passes it

ASSUME EngineAssumption ==
  /\ \A s \in Sequences : /\ s.on \in Seq(BOOLEAN) /\ s.on # <<>>
                          /\ s.repeat \in BOOLEAN
  /\ NoSeq \notin Sequences
  /\ I2c \in SUBSET BOOLEAN /\ I2c # {}
  /\ MaxRef \in Nat

VARIABLES
  pc,        \* what the work queue thread does next
  arg,       \* the sequence tx_engine_start was called with, NoSeq in tx_engine_stop
  seq,       \* active_seq
  index,     \* active_seq->current_index
  active,    \* engine_active
  timer,     \* tx_timer is running
  txWork,    \* tx_work is queued
  refcnt,    \* the regulator's use count: the amplifier is powered when it is not 0
  clk,       \* output 0 of the si5351a is enabled
  elapsed,   \* history: the current symbol's time has passed
  tidy       \* history: no bus access failed, every sequence started was keyed

engine == <<seq, index, active>>
wakeup == <<timer, txWork>>
power  == <<refcnt, clk, tidy>>
vars   == <<pc, arg, seq, index, active, timer, txWork, refcnt, clk, elapsed, tidy>>

\* tx_off is called from three places and returns to one of three.
Steps == {"idle", "stop_timer", "cancel_work", "stop_off", "clear", "begin",
          "complete_off", "complete", "apply", "arm"}

On(s, i) == s.on[i + 1]

\* An on symbol is followed by an off one, as in Morse or in a test signal.
Keyed(s) ==
  \A i, j \in DOMAIN s.on :
    (j = i + 1 \/ (s.repeat /\ i = Len(s.on) /\ j = 1)) => ~(s.on[i] /\ s.on[j])

Init ==
  /\ pc = "idle" /\ arg = NoSeq
  /\ seq = NoSeq /\ index = 0 /\ active = FALSE
  /\ timer = FALSE /\ txWork = FALSE
  /\ refcnt = 0 /\ clk = TRUE
  /\ elapsed = FALSE /\ tidy = TRUE
-----------------------------------------------------------------------------
(* The two devices.  The regulator is Zephyr's, counted: only the first    *)
(* enable and the last disable reach the bus, a failed access leaves the   *)
(* count as it was, and a count of 0 stays 0 (regulator_init disables a    *)
(* regulator nobody enabled).  The engine looks at no result.              *)

PaEnable ==
  \E ok \in I2c :
    /\ refcnt' = IF refcnt = 0 /\ ~ok THEN 0 ELSE refcnt + 1
    /\ tidy' = (tidy /\ (refcnt = 0 => ok))

Released(ok) == IF refcnt = 0 \/ (refcnt = 1 /\ ~ok) THEN refcnt ELSE refcnt - 1

TxOff ==
  \E clkOk, paOk \in I2c :
    /\ clk' = (clk /\ ~clkOk)
    /\ refcnt' = Released(paOk)
    /\ tidy' = (tidy /\ clkOk /\ (refcnt = 1 => paOk))
-----------------------------------------------------------------------------
(* tx_engine_start and tx_engine_stop *)

Start(s) ==
  /\ pc = "idle" /\ refcnt <= MaxRef
  /\ pc' = "stop_timer" /\ arg' = s
  /\ tidy' = (tidy /\ Keyed(s))
  /\ UNCHANGED <<engine, wakeup, refcnt, clk, elapsed>>

Stop ==
  /\ pc = "idle"
  /\ pc' = "stop_timer" /\ arg' = NoSeq
  /\ UNCHANGED <<engine, wakeup, power, elapsed>>

\* Mutant: the timer is left running.
StopTimerNot ==
  /\ pc = "stop_timer" /\ pc' = "cancel_work"
  /\ UNCHANGED <<arg, engine, wakeup, power, elapsed>>

StopTimer ==
  /\ pc = "stop_timer" /\ pc' = "cancel_work"
  /\ timer' = FALSE
  /\ UNCHANGED <<arg, engine, txWork, power, elapsed>>

\* Mutant: a work item already queued stays queued.
CancelWorkNot ==
  /\ pc = "cancel_work" /\ pc' = "stop_off"
  /\ UNCHANGED <<arg, engine, wakeup, power, elapsed>>

CancelWork ==
  /\ pc = "cancel_work" /\ pc' = "stop_off"
  /\ txWork' = FALSE
  /\ UNCHANGED <<arg, engine, timer, power, elapsed>>

StopOff ==
  /\ pc = "stop_off" /\ pc' = "clear"
  /\ TxOff
  /\ UNCHANGED <<arg, engine, wakeup, elapsed>>

Clear ==
  /\ pc = "clear" /\ pc' = IF arg = NoSeq THEN "idle" ELSE "begin"
  /\ active' = FALSE /\ seq' = NoSeq
  /\ index' = 0 /\ elapsed' = FALSE
  /\ UNCHANGED <<arg, wakeup, power>>

Begin ==
  /\ pc = "begin" /\ pc' = "apply"
  /\ seq' = arg /\ index' = 0 /\ active' = TRUE
  /\ arg' = NoSeq
  /\ UNCHANGED <<wakeup, power, elapsed>>
-----------------------------------------------------------------------------
(* apply_symbol and the k_timer_start that follows each of its calls *)

Apply ==
  /\ pc = "apply" /\ pc' = "arm"
  /\ IF On(seq, index) THEN PaEnable /\ UNCHANGED clk ELSE TxOff
  /\ UNCHANGED <<arg, engine, wakeup, elapsed>>

\* Mutant: the timer is armed for the first symbol only.
ArmOnce ==
  /\ pc = "arm" /\ pc' = "idle"
  /\ timer' = (index = 0)
  /\ UNCHANGED <<arg, engine, txWork, power, elapsed>>

Arm ==
  /\ pc = "arm" /\ pc' = "idle"
  /\ timer' = TRUE
  /\ UNCHANGED <<arg, engine, txWork, power, elapsed>>
-----------------------------------------------------------------------------
(* tx_timer_expiry, in interrupt context, and tx_work_handler *)

Expire ==
  /\ timer
  /\ timer' = FALSE /\ txWork' = TRUE
  /\ elapsed' = TRUE
  /\ UNCHANGED <<pc, arg, engine, power>>

NextSymbol ==
  /\ pc' = "apply" /\ elapsed' = FALSE
  /\ index' = IF index + 1 < Len(seq.on) THEN index + 1 ELSE 0
  /\ UNCHANGED active

SequenceOver ==
  /\ pc' = "complete_off"
  /\ index' = index + 1
  /\ UNCHANGED <<active, elapsed>>

\* A tx_work that outlived its sequence finds none.
Work ==
  /\ pc = "idle" /\ txWork
  /\ txWork' = FALSE
  /\ IF seq = NoSeq THEN active' = FALSE /\ UNCHANGED <<pc, index, elapsed>>
     ELSE IF index + 1 < Len(seq.on) \/ seq.repeat THEN NextSymbol
     ELSE SequenceOver
  /\ UNCHANGED <<arg, seq, timer, power>>

\* Mutant: the end of a sequence forgets tx_off.
CompleteOffNot ==
  /\ pc = "complete_off" /\ pc' = "complete"
  /\ UNCHANGED <<arg, engine, wakeup, power, elapsed>>

CompleteOff ==
  /\ pc = "complete_off" /\ pc' = "complete"
  /\ TxOff
  /\ UNCHANGED <<arg, engine, wakeup, elapsed>>

Complete ==
  /\ pc = "complete" /\ pc' = "idle"
  /\ active' = FALSE /\ seq' = NoSeq
  /\ index' = 0 /\ elapsed' = FALSE
  /\ UNCHANGED <<arg, wakeup, power>>
-----------------------------------------------------------------------------
\* The thread carries on with the function it is in.
Continue == \/ StopTimer \/ CancelWork \/ StopOff \/ Clear \/ Begin
            \/ Apply \/ Arm \/ CompleteOff \/ Complete

Next == (\E s \in Sequences : Start(s)) \/ Stop \/ Continue \/ Work \/ Expire

\* The work queue is a cooperative thread that nothing preempts for long and
\* that takes its items in order; the clock interrupt always comes.
Fairness == WF_vars(Continue) /\ WF_vars(Work) /\ WF_vars(Expire)

Spec == Init /\ [][Next]_vars

FairSpec == Spec /\ Fairness
-----------------------------------------------------------------------------
TypeOK ==
  /\ pc \in Steps
  /\ arg \in Sequences \cup {NoSeq} /\ seq \in Sequences \cup {NoSeq}
  /\ index \in Nat /\ refcnt \in Nat
  /\ active \in BOOLEAN /\ timer \in BOOLEAN /\ txWork \in BOOLEAN
  /\ clk \in BOOLEAN /\ elapsed \in BOOLEAN /\ tidy \in BOOLEAN

\* Between two calls the engine has exactly one wakeup coming while it plays
\* and none while it does not: an engine with none never ends its symbol, one
\* with two (a tx_work left over by the sequence before) cuts a symbol short.
OneWakeup ==
  /\ TypeOK
  /\ pc = "idle" => /\ active = (timer # txWork)
                    /\ ~(timer /\ txWork)
                    /\ active = (seq # NoSeq)

\* As long as the bus works and only keyed sequences are played, the amplifier
\* is powered between two calls exactly when an on symbol is on the air.
PaFollowsKeying ==
  pc = "idle" /\ tidy => (refcnt > 0) = (active /\ On(seq, index))

\* The engine implements its abstract specification: no symbol is skipped, cut
\* short or taken from another sequence.  tx_work_handler steps current_index
\* past the end before it turns the transmitter off.
Playing == INSTANCE Keying WITH
  playing <- seq,
  symbol  <- IF pc \in {"complete_off", "complete"} THEN index - 1 ELSE index

PlaysInOrder == Playing!Spec

\* A sequence that does not repeat ends, however the bus behaves.
SequenceEnds == (active /\ ~seq.repeat) ~> ~active

\* tx_engine.c:116 says "TX off" and :83 "sequence complete": the amplifier is
\* off once nothing plays, whatever was played, on a bus that works
\* (the run's I2c is {TRUE}).
PaOffWhenSilent == pc = "idle" /\ ~active => refcnt = 0
=============================================================================
