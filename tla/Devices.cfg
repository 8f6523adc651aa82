SPECIFICATION Spec
CONSTANTS
  Outputs = {0, 1}
  PllFreqs = {590, 600, 613, 901}
  MsFreqs = {0, 3, 37, 1000}
  Xtal = 25
  VcoMin = 600
  VcoMax = 900
  Milli = 10
  Denominator = 20
  Word = 65536
  Times <- MCTimes
  Freqs <- MCFreqs
  Levels = {0, 1, 4, 5, 18, 19}
  Durations <- MCDurations
  Requests <- MCRequests
  Bus = {TRUE, FALSE}
INVARIANTS PllKnown OutputAsAsked RoundTrip SignalAsAsked
PROPERTIES RefusedChangesNothing
CHECK_DEADLOCK FALSE
