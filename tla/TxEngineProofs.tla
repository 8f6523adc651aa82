---------------------------- MODULE TxEngineProofs ----------------------------
(***************************************************************************)
(* Type correctness of TxEngine, its two invariants and the refinement of  *)
(* Keying, for every set of sequences, every outcome of the bus and every  *)
(* bound.                                                                  *)
(***************************************************************************)
EXTENDS TxEngine, TLAPS

Stopping == pc \in {"stop_timer", "cancel_work", "stop_off", "clear"}
Ending   == pc \in {"complete_off", "complete"}

\* Which wakeup is pending where: the timer from its start to its expiry or
\* k_timer_stop, the work item from the expiry to the handler or k_work_cancel.
WakeupInv ==
  /\ timer => active /\ ~elapsed /\ ~txWork /\ pc \in {"idle", "stop_timer"}
  /\ txWork => active /\ elapsed /\ pc \in {"idle", "stop_timer", "cancel_work"}
  /\ pc = "idle" /\ active => timer \/ txWork

\* The fields of the engine agree with each other and with the thread's place.
EngineInv ==
  /\ active <=> seq # NoSeq
  /\ ~active => index = 0 /\ ~elapsed
  /\ active /\ ~Ending => index < Len(seq.on)
  /\ Ending => active /\ elapsed /\ index = Len(seq.on) /\ ~seq.repeat
  /\ pc = "begin" => ~active /\ arg \in Sequences
  /\ pc \in {"apply", "arm"} => active /\ ~elapsed
  /\ arg # NoSeq => Stopping \/ pc = "begin"

\* While the history is tidy the use count is what the keying needs.
PowerInv ==
  tidy =>
    /\ seq # NoSeq => Keyed(seq)
    /\ arg # NoSeq => Keyed(arg)
    /\ refcnt \in {0, 1}
    /\ pc \in {"idle", "arm"} /\ active => (refcnt = 1 <=> On(seq, index))
    /\ pc = "idle" /\ ~active => refcnt = 0
    /\ pc \in {"clear", "begin", "complete"} => refcnt = 0
    /\ pc = "apply" /\ On(seq, index) => refcnt = 0

IInv == TypeOK /\ WakeupInv /\ EngineInv /\ PowerInv
-----------------------------------------------------------------------------
\* Turning the transmitter off lowers the use count by one at most and, when
\* no access of it fails, from 1 to 0.
LEMMA TxOffCount ==
  ASSUME TypeOK, TxOff
  PROVE  /\ refcnt' \in Nat /\ clk' \in BOOLEAN /\ tidy' \in BOOLEAN
         /\ tidy' => tidy
         /\ tidy' /\ refcnt \in {0, 1} => refcnt' = 0
BY EngineAssumption DEF TypeOK, TxOff, Released

LEMMA PaEnableCount ==
  ASSUME TypeOK, PaEnable
  PROVE  /\ refcnt' \in Nat /\ tidy' \in BOOLEAN
         /\ tidy' => tidy
         /\ tidy' /\ refcnt = 0 => refcnt' = 1
BY EngineAssumption DEF TypeOK, PaEnable

\* The data of a sequence.
LEMMA SequenceData ==
  ASSUME NEW s \in Sequences
  PROVE  /\ Len(s.on) \in Nat /\ Len(s.on) >= 1
         /\ s.repeat \in BOOLEAN
         /\ \A i \in Nat : i < Len(s.on) => i + 1 \in DOMAIN s.on /\ On(s, i) \in BOOLEAN
         /\ s # NoSeq
BY EngineAssumption DEF On

\* In a keyed sequence the symbol after an on symbol is off.
LEMMA NextKeyed ==
  ASSUME NEW s \in Sequences, Keyed(s),
         NEW i \in Nat, i < Len(s.on), i + 1 < Len(s.on) \/ s.repeat,
         NEW j, j = IF i + 1 < Len(s.on) THEN i + 1 ELSE 0,
         On(s, j)
  PROVE  ~On(s, i)
<1>1. DOMAIN s.on = 1 .. Len(s.on) /\ Len(s.on) \in Nat
  BY EngineAssumption
<1>2. CASE i + 1 < Len(s.on)
  BY <1>1, <1>2 DEF Keyed, On
<1>3. CASE ~(i + 1 < Len(s.on))
  BY <1>1, <1>3 DEF Keyed, On
<1>4. QED  BY <1>2, <1>3

LEMMA InitIInv == Init => IInv
<1> SUFFICES ASSUME Init PROVE IInv
  OBVIOUS
<1> USE DEF Init
<1>1. TypeOK     BY DEF TypeOK, Steps
<1>2. WakeupInv  BY DEF WakeupInv
<1>3. EngineInv  BY DEF EngineInv, Stopping, Ending
<1>4. PowerInv   BY DEF PowerInv
<1>5. QED        BY <1>1, <1>2, <1>3, <1>4 DEF IInv

LEMMA TypeStep ==
  ASSUME TypeOK, [Next]_vars
  PROVE  TypeOK'
<1> USE EngineAssumption DEF TypeOK, Steps
<1>1. ASSUME NEW s \in Sequences, Start(s) PROVE TypeOK'
  BY <1>1 DEF Start, engine, wakeup
<1>2. CASE Stop         BY <1>2 DEF Stop, engine, wakeup, power
<1>3. CASE StopTimer    BY <1>3 DEF StopTimer, engine, power
<1>4. CASE CancelWork   BY <1>4 DEF CancelWork, engine, power
<1>5. CASE StopOff      BY <1>5, TxOffCount DEF StopOff, engine, wakeup
<1>6. CASE Clear        BY <1>6 DEF Clear, wakeup, power
<1>7. CASE Begin        BY <1>7 DEF Begin, wakeup, power
<1>8. CASE Apply        BY <1>8, TxOffCount, PaEnableCount DEF Apply, engine, wakeup
<1>9. CASE Arm          BY <1>9 DEF Arm, engine, power
<1>10. CASE CompleteOff BY <1>10, TxOffCount DEF CompleteOff, engine, wakeup
<1>11. CASE Complete    BY <1>11 DEF Complete, wakeup, power
<1>12. CASE Work
  <2>0. /\ arg' = arg /\ seq' = seq /\ timer' = timer /\ txWork' = FALSE
        /\ refcnt' = refcnt /\ clk' = clk /\ tidy' = tidy
    BY <1>12 DEF Work, power
  <2>1. CASE NextSymbol
    <3>1. index' \in Nat  BY <2>1 DEF NextSymbol
    <3>2. active' = active /\ elapsed' = FALSE /\ pc' = "apply"
      BY <2>1 DEF NextSymbol
    <3>3. QED  BY <2>0, <3>1, <3>2
  <2>2. CASE SequenceOver
    <3>1. index' \in Nat  BY <2>2 DEF SequenceOver
    <3>2. active' = active /\ elapsed' = elapsed /\ pc' = "complete_off"
      BY <2>2 DEF SequenceOver
    <3>3. QED  BY <2>0, <3>1, <3>2
  <2>3. CASE seq = NoSeq  BY <1>12, <2>3 DEF Work, power
  <2>4. QED  BY <1>12, <2>1, <2>2, <2>3 DEF Work
<1>13. CASE Expire      BY <1>13 DEF Expire, engine, power
<1>14. CASE UNCHANGED vars BY <1>14 DEF vars
<1>15. QED
  BY <1>1, <1>2, <1>3, <1>4, <1>5, <1>6, <1>7, <1>8, <1>9, <1>10, <1>11, <1>12,
     <1>13, <1>14 DEF Next, Continue

LEMMA WakeupStep ==
  ASSUME TypeOK, WakeupInv, EngineInv, [Next]_vars
  PROVE  WakeupInv'
<1> USE DEF TypeOK, WakeupInv, EngineInv
<1>1. ASSUME NEW s \in Sequences, Start(s) PROVE WakeupInv'
  BY <1>1 DEF Start, engine, wakeup
<1>2. CASE Stop         BY <1>2 DEF Stop, engine, wakeup, power
<1>3. CASE StopTimer    BY <1>3 DEF StopTimer, engine, power
<1>4. CASE CancelWork   BY <1>4 DEF CancelWork, engine, power
<1>5. CASE StopOff      BY <1>5 DEF StopOff, engine, wakeup
<1>6. CASE Clear        BY <1>6 DEF Clear, wakeup, power
<1>7. CASE Begin        BY <1>7 DEF Begin, wakeup, power
<1>8. CASE Apply        BY <1>8 DEF Apply, engine, wakeup
<1>9. CASE Arm          BY <1>9 DEF Arm, engine, power
<1>10. CASE CompleteOff BY <1>10 DEF CompleteOff, engine, wakeup
<1>11. CASE Complete    BY <1>11 DEF Complete, wakeup, power
<1>12. CASE Work        BY <1>12 DEF Work, NextSymbol, SequenceOver, power
<1>13. CASE Expire      BY <1>13 DEF Expire, engine, power
<1>14. CASE UNCHANGED vars BY <1>14 DEF vars
<1>15. QED
  BY <1>1, <1>2, <1>3, <1>4, <1>5, <1>6, <1>7, <1>8, <1>9, <1>10, <1>11, <1>12,
     <1>13, <1>14 DEF Next, Continue

LEMMA EngineStep ==
  ASSUME TypeOK, WakeupInv, EngineInv, [Next]_vars
  PROVE  EngineInv'
<1> USE SequenceData DEF TypeOK, WakeupInv, EngineInv, Stopping, Ending
<1>1. ASSUME NEW s \in Sequences, Start(s) PROVE EngineInv'
  BY <1>1 DEF Start, engine, wakeup
<1>2. CASE Stop         BY <1>2 DEF Stop, engine, wakeup, power
<1>3. CASE StopTimer    BY <1>3 DEF StopTimer, engine, power
<1>4. CASE CancelWork   BY <1>4 DEF CancelWork, engine, power
<1>5. CASE StopOff      BY <1>5 DEF StopOff, engine, wakeup
<1>6. CASE Clear        BY <1>6 DEF Clear, wakeup, power
<1>7. CASE Begin        BY <1>7 DEF Begin, wakeup, power
<1>8. CASE Apply        BY <1>8 DEF Apply, engine, wakeup
<1>9. CASE Arm          BY <1>9 DEF Arm, engine, power
<1>10. CASE CompleteOff BY <1>10 DEF CompleteOff, engine, wakeup
<1>11. CASE Complete    BY <1>11 DEF Complete, wakeup, power
<1>12. CASE Work
  <2>1. /\ pc = "idle" /\ active /\ elapsed /\ seq \in Sequences
        /\ index \in Nat /\ index < Len(seq.on) /\ arg = NoSeq
        /\ UNCHANGED <<arg, seq>>
    BY <1>12 DEF Work
  <2>2. Len(seq.on) \in Nat /\ Len(seq.on) >= 1 /\ seq # NoSeq
    BY <2>1
  <2>3. CASE NextSymbol    BY <2>1, <2>2, <2>3 DEF NextSymbol
  <2>4. CASE SequenceOver /\ ~(index + 1 < Len(seq.on) \/ seq.repeat)
    <3>1. index' = Len(seq.on)
      BY <2>1, <2>2, <2>4 DEF SequenceOver
    <3>2. QED
      BY <2>1, <2>2, <2>4, <3>1 DEF SequenceOver
  <2>5. QED  BY <1>12, <2>2, <2>3, <2>4 DEF Work
<1>13. CASE Expire      BY <1>13 DEF Expire, engine, power
<1>14. CASE UNCHANGED vars BY <1>14 DEF vars
<1>15. QED
  BY <1>1, <1>2, <1>3, <1>4, <1>5, <1>6, <1>7, <1>8, <1>9, <1>10, <1>11, <1>12,
     <1>13, <1>14 DEF Next, Continue

LEMMA PowerStep ==
  ASSUME TypeOK, WakeupInv, EngineInv, PowerInv, [Next]_vars
  PROVE  PowerInv'
<1> USE SequenceData DEF TypeOK, EngineInv, PowerInv, Stopping, Ending
<1>1. ASSUME NEW s \in Sequences, Start(s) PROVE PowerInv'
  BY <1>1 DEF Start, engine, wakeup
<1>2. CASE Stop         BY <1>2 DEF Stop, engine, wakeup, power
<1>3. CASE StopTimer    BY <1>3 DEF StopTimer, engine, power
<1>4. CASE CancelWork   BY <1>4 DEF CancelWork, engine, power
<1>5. CASE StopOff      BY <1>5, TxOffCount DEF StopOff, engine, wakeup
<1>6. CASE Clear        BY <1>6 DEF Clear, wakeup, power
<1>7. CASE Begin        BY <1>7 DEF Begin, wakeup, power
<1>8. CASE Apply        BY <1>8, TxOffCount, PaEnableCount DEF Apply, engine, wakeup
<1>9. CASE Arm          BY <1>9 DEF Arm, engine, power
<1>10. CASE CompleteOff BY <1>10, TxOffCount DEF CompleteOff, engine, wakeup
<1>11. CASE Complete    BY <1>11 DEF Complete, wakeup, power
<1>12. CASE Work
  <2>1. /\ pc = "idle" /\ active /\ seq \in Sequences /\ arg = NoSeq
        /\ index \in Nat /\ index < Len(seq.on)
        /\ UNCHANGED <<arg, seq, refcnt, tidy>>
    BY <1>12 DEF Work, WakeupInv, power
  <2>2. seq # NoSeq
    BY <2>1
  <2>3. ASSUME NextSymbol, tidy, On(seq, index'),
               index + 1 < Len(seq.on) \/ seq.repeat
        PROVE  refcnt = 0
    <3>1. ~On(seq, index)
      BY <2>1, <2>2, <2>3, NextKeyed DEF NextSymbol
    <3>2. QED  BY <2>1, <2>3, <3>1
  <2>4. CASE NextSymbol /\ (index + 1 < Len(seq.on) \/ seq.repeat)
    BY <2>1, <2>2, <2>3, <2>4 DEF NextSymbol
  <2>5. CASE SequenceOver    BY <2>1, <2>2, <2>5 DEF SequenceOver
  <2>6. QED  BY <1>12, <2>2, <2>4, <2>5 DEF Work
<1>13. CASE Expire      BY <1>13 DEF Expire, engine, power
<1>14. CASE UNCHANGED vars BY <1>14 DEF vars
<1>15. QED
  BY <1>1, <1>2, <1>3, <1>4, <1>5, <1>6, <1>7, <1>8, <1>9, <1>10, <1>11, <1>12,
     <1>13, <1>14 DEF Next, Continue
-----------------------------------------------------------------------------
LEMMA IInvStep == IInv /\ [Next]_vars => IInv'
BY TypeStep, WakeupStep, EngineStep, PowerStep DEF IInv

LEMMA Inductive == Spec => []IInv
BY InitIInv, IInvStep, PTL DEF Spec

\* Every variable keeps its type in every behaviour of the engine.
THEOREM TypeCorrect == Spec => []TypeOK
<1>1. IInv => TypeOK  BY DEF IInv
<1>2. QED             BY <1>1, Inductive, PTL

\* Between two calls exactly one of the timer and the work item is pending while
\* a sequence plays, and neither is once it is over or stopped.
THEOREM WakeupCorrect == Spec => []OneWakeup
<1>1. IInv => OneWakeup
  BY DEF IInv, TypeOK, WakeupInv, EngineInv, OneWakeup
<1>2. QED  BY <1>1, Inductive, PTL

\* With keyed sequences and a bus that works, the amplifier is powered between
\* two calls exactly when an on symbol is on the air.
THEOREM PowerCorrect == Spec => []PaFollowsKeying
<1>1. IInv => PaFollowsKeying
  <2> SUFFICES ASSUME IInv, pc = "idle", tidy
               PROVE  (refcnt > 0) = (active /\ On(seq, index))
    BY DEF PaFollowsKeying
  <2>1. CASE ~active
    BY <2>1 DEF IInv, TypeOK, PowerInv
  <2>2. CASE active
    <3>1. On(seq, index) \in BOOLEAN
      BY <2>2, SequenceData DEF IInv, TypeOK, EngineInv, Ending
    <3>2. QED
      BY <2>2, <3>1 DEF IInv, TypeOK, PowerInv
  <2>3. QED  BY <2>1, <2>2 DEF IInv, TypeOK
<1>2. QED  BY <1>1, Inductive, PTL
-----------------------------------------------------------------------------
LEMMA InitRefines == Init => Playing!Init
BY DEF Init, Playing!Init

\* Most steps of the thread leave the symbol on the air as it is.
LEMMA SilentStep ==
  ASSUME UNCHANGED <<seq, index, elapsed>>, Ending' <=> Ending
  PROVE  UNCHANGED Playing!vars
BY DEF Playing!vars, Ending

LEMMA Wrap ==
  ASSUME NEW n \in Nat, NEW i \in Nat, i < n
  PROVE  (IF i + 1 < n THEN i + 1 ELSE 0) = (i + 1) % n
OBVIOUS

LEMMA StepRefines ==
  ASSUME TypeOK, WakeupInv, EngineInv, [Next]_vars
  PROVE  [Playing!Next]_(Playing!vars)
<1> USE SequenceData DEF TypeOK, WakeupInv, EngineInv, Ending
<1>1. ASSUME NEW s \in Sequences, Start(s) PROVE UNCHANGED Playing!vars
  BY <1>1, SilentStep DEF Start, engine
<1>2. CASE Stop         BY <1>2, SilentStep DEF Stop, engine
<1>3. CASE StopTimer    BY <1>3, SilentStep DEF StopTimer, engine
<1>4. CASE CancelWork   BY <1>4, SilentStep DEF CancelWork, engine
<1>5. CASE StopOff      BY <1>5, SilentStep DEF StopOff, engine
<1>6. CASE Clear
  <2>1. CASE active
    <3>1. Playing!Cut
      BY <1>6, <2>1 DEF Clear, Playing!Cut, Playing!Silence
    <3>2. QED  BY <3>1 DEF Playing!Next
  <2>2. CASE ~active
    <3>1. seq = NoSeq /\ index = 0 /\ elapsed = FALSE /\ ~Ending
      BY <1>6, <2>2 DEF Clear
    <3>2. seq' = NoSeq /\ index' = 0 /\ elapsed' = FALSE /\ ~Ending'
      BY <1>6 DEF Clear
    <3>3. QED  BY <3>1, <3>2, SilentStep
  <2>3. QED  BY <2>1, <2>2
<1>7. CASE Begin
  <2>1. /\ seq = NoSeq /\ arg \in Sequences /\ pc' = "apply"
        /\ seq' = arg /\ index' = 0 /\ elapsed' = FALSE
    <3>1. seq = NoSeq /\ elapsed = FALSE /\ arg \in Sequences
      BY <1>7 DEF Begin
    <3>2. QED  BY <1>7, <3>1 DEF Begin
  <2>2. Playing!Play(arg)
    BY <2>1 DEF Playing!Play
  <2>3. QED  BY <2>1, <2>2 DEF Playing!Next
<1>8. CASE Apply        BY <1>8, SilentStep DEF Apply, engine
<1>9. CASE Arm          BY <1>9, SilentStep DEF Arm, engine
<1>10. CASE CompleteOff BY <1>10, SilentStep DEF CompleteOff, engine
<1>11. CASE Complete
  <2>1. /\ seq \in Sequences /\ elapsed /\ index = Len(seq.on) /\ ~seq.repeat
        /\ pc = "complete" /\ pc' = "idle"
        /\ seq' = NoSeq /\ index' = 0 /\ elapsed' = FALSE
    BY <1>11 DEF Complete
  <2>2. index - 1 + 1 = Len(seq.on) /\ seq # NoSeq
    BY <2>1
  <2>3. Playing!Complete
    BY <2>1, <2>2 DEF Playing!Complete, Playing!Last, Playing!Silence
  <2>4. QED  BY <2>3 DEF Playing!Next
<1>12. CASE Work
  <2>1. /\ pc = "idle" /\ active /\ elapsed /\ seq \in Sequences /\ seq # NoSeq
        /\ index \in Nat /\ index < Len(seq.on) /\ seq' = seq
        /\ Len(seq.on) \in Nat /\ Len(seq.on) >= 1
    BY <1>12 DEF Work
  <2>2. CASE NextSymbol /\ (index + 1 < Len(seq.on) \/ seq.repeat)
    <3>1. index' = (index + 1) % Len(seq.on)
      <4>1. index' = IF index + 1 < Len(seq.on) THEN index + 1 ELSE 0
        BY <2>2 DEF NextSymbol
      <4>2. QED  BY <2>1, <4>1, Wrap
    <3>2. ~Playing!Last(seq, index)
      BY <2>1, <2>2 DEF Playing!Last
    <3>3. pc' = "apply" /\ elapsed' = FALSE
      BY <2>2 DEF NextSymbol
    <3>4. Playing!Advance
      BY <2>1, <3>1, <3>2, <3>3 DEF Playing!Advance
    <3>5. QED  BY <3>4 DEF Playing!Next
  <2>3. CASE SequenceOver
    <3>1. /\ pc' = "complete_off" /\ elapsed' = elapsed
          /\ index' = index + 1 /\ index' - 1 = index
      BY <2>1, <2>3 DEF SequenceOver
    <3>2. QED  BY <2>1, <3>1 DEF Playing!vars
  <2>4. QED  BY <1>12, <2>1, <2>2, <2>3 DEF Work
<1>13. CASE Expire
  <2>1. Playing!Elapse
    BY <1>13 DEF Expire, engine, Playing!Elapse
  <2>2. QED  BY <2>1 DEF Playing!Next
<1>14. CASE UNCHANGED vars
  BY <1>14, SilentStep DEF vars
<1>15. QED
  BY <1>1, <1>2, <1>3, <1>4, <1>5, <1>6, <1>7, <1>8, <1>9, <1>10, <1>11, <1>12,
     <1>13, <1>14 DEF Next, Continue

\* The engine implements Keying: no symbol is skipped, cut short or taken from
\* another sequence, and nothing plays after the last one.
THEOREM Refinement == Spec => PlaysInOrder
<1>1. IInv /\ [Next]_vars => [Playing!Next]_(Playing!vars)
  BY StepRefines DEF IInv
<1>2. QED
  BY <1>1, InitRefines, Inductive, PTL DEF Spec, PlaysInOrder, Playing!Spec
=============================================================================
