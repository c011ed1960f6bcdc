\* Every dependency graph over three issues, each open or closed, each with or
\* without an excluding label, every blocked set and caps 1 and 2.
SPECIFICATION Spec
CONSTANTS
  Numbers = {1, 2, 3}
  LabelSets <- PlainOrExcluded
  MaxCap = 2
INVARIANTS
  LayersAreLongestChains
  RaisesExactlyOnCycles
  BlockersAreInFlight
  
\* A plan ends in "picked" or "raised".
CHECK_DEADLOCK FALSE
