---------------------------------- MODULE Clock ----------------------------------
(***************************************************************************)
(* The clock generator and its driver (drivers/clock_control/              *)
(* clock_si5351a.c): the driver's calls in any order, on a bus whose       *)
(* accesses may fail, and resets of the microcontroller, which the chip    *)
(* does not notice.  main makes all of them, and the work queue, in        *)
(* tx_off, disables an output whatever main is at.                         *)
(*                                                                         *)
(* An access that fails leaves the chip as it was.  A PLL or a divider is  *)
(* set to a + b/c, as p1, p2 and p3 in its registers; frequencies are in   *)
(* MHz, and of outputs in fractions of it (Milli), so that TLC's integers  *)
(* hold the products.                                                      *)
(***************************************************************************)
EXTENDS Integers

CONSTANTS
  Plls,        \* {"A", "B"}
  Outputs,     \* the outputs that are used
  PllFreqs,    \* what callers ask of a PLL
  MsFreqs,     \* and of an output
  Xtal,        \* xtal_freq
  VcoMin,      \* si5351a_PLL_VCO_MIN
  VcoMax,      \* si5351a_PLL_VCO_MAX
  Milli,       \* parts of a unit, 1000 in the code
  Denominator, \* RFRAC_DENOM
  Word,        \* 2^32, what a divider is cut to before it is looked at
  Bus          \* how an access can end: a set of BOOLEANs

VARIABLES
  known,    \* plla_freq and pllb_freq: what the driver takes the PLLs to run at
  pll,      \* the chip: the registers of each PLL
  ms,       \* the registers of each divider
  ctrl,     \* the control register of each output: its PLL, integer mode, power
  disabled, \* the outputs whose bit is set in the output enable register
  enabling, \* for each thread in si5351a_enable_output, what it is about to write to
            \* that register: a set of at most one value
  asked     \* history: frequency and PLL of the last call for an output that succeeded,
            \* until one fails half way or something it depends on is set

vars == <<known, pll, ms, ctrl, disabled, enabling, asked>>

Threads == {"main", "work"}

Unset    == [p1 |-> 0, p2 |-> 0, p3 |-> 1]
Down     == [pll |-> "A", integer |-> FALSE, powered |-> FALSE]
NotAsked == [freq |-> 0, pll |-> "A"]

Init ==
  /\ known = [p \in Plls |-> 0]
  /\ pll = [p \in Plls |-> Unset] /\ ms = [m \in Outputs |-> Unset]
  /\ ctrl = [m \in Outputs |-> Down]
  /\ disabled = Outputs /\ enabling = [t \in Threads |-> {}]
  /\ asked = [m \in Outputs |-> NotAsked]
-----------------------------------------------------------------------------
(* si5351a_set_pll, si5351a_set_pll_freq *)

\* What goes into the registers for a + b/c, as wide as they are.
Registers(a, b, c) ==
  [p1 |-> (128 * a + (128 * b) \div c - 512) % 2 ^ 18,
   p2 |-> (128 * b - c * ((128 * b) \div c)) % 2 ^ 20,
   p3 |-> c % 2 ^ 20]

\* The frequency the driver stores is computed in floating point and cut off: when
\* the exact one is a whole number it may come out one lower.
Stored(a, b, c) ==
  LET exact == (Xtal * (a * c + b)) \div c
  IN IF b # 0 /\ (Xtal * b) % c = 0 THEN {exact, exact - 1} ELSE {exact}

\* Mutant: the frequency is stored before the registers are written.
SetPllEarly(p, a, b, c) ==
  \E ok \in Bus, freq \in Stored(a, b, c) :
    /\ known' = [known EXCEPT ![p] = freq]
    /\ IF ok THEN /\ pll' = [pll EXCEPT ![p] = Registers(a, b, c)]
                  /\ asked' = [m \in Outputs |-> IF asked[m].pll = p THEN NotAsked ELSE asked[m]]
             ELSE UNCHANGED <<pll, asked>>

SetPll(p, a, b, c) ==
  /\ a \in 15 .. 90
  /\ \E ok \in Bus, freq \in Stored(a, b, c) :
       IF ok THEN /\ pll' = [pll EXCEPT ![p] = Registers(a, b, c)]
                  /\ known' = [known EXCEPT ![p] = freq]
                  /\ asked' = [m \in Outputs |-> IF asked[m].pll = p THEN NotAsked ELSE asked[m]]
             ELSE UNCHANGED <<known, pll, asked>>

SetPllFreq(p, freq) ==
  /\ freq \in VcoMin .. VcoMax
  /\ LET rest == freq % Xtal
     IN IF rest = 0 THEN SetPll(p, freq \div Xtal, 0, 1)
        ELSE SetPll(p, freq \div Xtal, (rest * Denominator) \div Xtal, Denominator)
  /\ UNCHANGED <<ms, ctrl, disabled, enabling>>
-----------------------------------------------------------------------------
(* si5351a_set_ms, si5351a_set_ms_freq: the divider and then the control *)
(* register, in two accesses.                                            *)

Control(p, b) == [pll |-> p, integer |-> b = 0, powered |-> TRUE]

\* Mutant: the control register is written only when the output's PLL changes.
SetMsOnce(m, a, b, c, p, freq) ==
  /\ a \in 6 .. 1800
  /\ \E divider, control \in Bus :
       /\ ms' = IF divider THEN [ms EXCEPT ![m] = Registers(a, b, c)] ELSE ms
       /\ ctrl' = IF divider /\ control /\ ctrl[m].pll # p
                  THEN [ctrl EXCEPT ![m] = Control(p, b)] ELSE ctrl
       /\ asked' = [asked EXCEPT ![m] = IF ~ divider THEN @ ELSE IF ~ control THEN NotAsked
                                        ELSE [freq |-> freq, pll |-> p]]

SetMs(m, a, b, c, p, freq) ==
  /\ a \in 6 .. 1800
  /\ \E divider, control \in Bus :
       /\ ms' = IF divider THEN [ms EXCEPT ![m] = Registers(a, b, c)] ELSE ms
       /\ ctrl' = IF divider /\ control THEN [ctrl EXCEPT ![m] = Control(p, b)] ELSE ctrl
       /\ asked' = [asked EXCEPT ![m] = IF ~ divider THEN @ ELSE IF ~ control THEN NotAsked
                                        ELSE [freq |-> freq, pll |-> p]]

SetMsFreq(m, freq, p) ==
  /\ known[p] # 0 /\ freq # 0
  /\ LET dividend == known[p] * Milli
     IN SetMs(m, (dividend \div freq) % Word, ((dividend % freq) * Denominator) \div freq,
              Denominator, p, freq)
  /\ UNCHANGED <<known, pll, disabled, enabling>>
-----------------------------------------------------------------------------
(* si5351a_enable_output: a read, a change and a write of the register.  A read *)
(* that fails ends it.                                                          *)

EnableRead(t, m, enable) ==
  /\ enabling[t] = {} /\ TRUE \in Bus
  /\ enabling' = [enabling EXCEPT ![t] = {IF enable THEN disabled \ {m} ELSE disabled \cup {m}}]
  /\ UNCHANGED <<known, pll, ms, ctrl, disabled, asked>>

EnableWrite(t) ==
  /\ \E value \in enabling[t], ok \in Bus : disabled' = IF ok THEN value ELSE disabled
  /\ enabling' = [enabling EXCEPT ![t] = {}]
  /\ UNCHANGED <<known, pll, ms, ctrl, asked>>
-----------------------------------------------------------------------------
\* A reset of the microcontroller, which clears the driver's data, and si5351a_init:
\* all outputs off, then powered down one after the other until an access fails.
Reset ==
  /\ known' = [p \in Plls |-> 0] /\ enabling' = [t \in Threads |-> {}]
  /\ \E off \in Bus, done \in {8} \cup {m \in 0 .. 7 : FALSE \in Bus} :
       IF ~ off THEN UNCHANGED <<ctrl, disabled, asked>>
       ELSE /\ disabled' = Outputs
            /\ ctrl'  = [m \in Outputs |-> IF m < done THEN Down ELSE ctrl[m]]
            /\ asked' = [m \in Outputs |-> IF m < done THEN NotAsked ELSE asked[m]]
  /\ UNCHANGED <<pll, ms>>

Calls ==
  \/ \E p \in Plls, freq \in PllFreqs : SetPllFreq(p, freq)
  \/ \E m \in Outputs, freq \in MsFreqs, p \in Plls : SetMsFreq(m, freq, p)
  \/ \E m \in Outputs : EnableRead("main", m, TRUE)

Next ==
  \/ enabling["main"] = {} /\ Calls
  \/ \E m \in Outputs : EnableRead("work", m, FALSE)
  \/ \E t \in Threads : EnableWrite(t)
  \/ Reset

Spec == Init /\ [][Next]_vars
-----------------------------------------------------------------------------
(* What the registers make of the crystal: a PLL or a divider of (p1 + 512) * p3 *)
(* + p2 over 128 * p3; in integer mode the fraction p2 must be 0.                *)

Ratio(r) == (r.p1 + 512) * r.p3 + r.p2

TypeOK ==
  /\ known \in [Plls -> Nat]
  /\ pll \in [Plls -> [p1 : Nat, p2 : Nat, p3 : Nat]]
  /\ ms \in [Outputs -> [p1 : Nat, p2 : Nat, p3 : Nat]]
  /\ ctrl \in [Outputs -> [pll : Plls, integer : BOOLEAN, powered : BOOLEAN]]
  /\ disabled \subseteq Outputs /\ enabling \in [Threads -> SUBSET SUBSET Outputs]
  /\ asked \in [Outputs -> [freq : MsFreqs \cup {0}, pll : Plls]]

\* What the driver takes a PLL to run at, and divides by, is what it runs at to
\* less than two units, after any calls, failures and resets; or it does not know.
PllKnown ==
  \A p \in Plls : known[p] # 0 =>
    /\ 128 * pll[p].p3 * known[p] <= Xtal * Ratio(pll[p])
    /\ 128 * pll[p].p3 * (known[p] + 2) > Xtal * Ratio(pll[p])

\* An output runs at what the last successful call asked for, whatever failed
\* before it and whatever other outputs were set to: it is powered, from the right
\* PLL, in integer mode exactly if it divides by a whole number; its frequency is
\* not below the one asked for, and with a divider of one step more and a PLL of
\* two units less it would be.
OutputAsAsked ==
  \A m \in Outputs : asked[m].freq # 0 =>
    LET freq == asked[m].freq
        from == pll[asked[m].pll]
        vco  == Xtal * Ratio(from)
    IN /\ ctrl[m].powered /\ ctrl[m].pll = asked[m].pll
       /\ ctrl[m].integer = (Ratio(ms[m]) % (128 * ms[m].p3) = 0)
       /\ vco * Milli * ms[m].p3 >= freq * Ratio(ms[m]) * from.p3
       /\ (vco - 256 * from.p3) * Milli * ms[m].p3 < freq * (Ratio(ms[m]) + 128) * from.p3
=============================================================================
