SPECIFICATION Spec
CONSTANTS
  Run = 4
  Packets <- MCPackets
  Damaged <- MCDamaged
INVARIANTS TypeOK RoundTrip NoDelimiterInside Overhead DecodedShorter
CHECK_DEADLOCK FALSE
