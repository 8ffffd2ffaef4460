CONSTANTS
  NBins = 32
  Stride = 3
  Samples <- MCSamples
  MaxSamples = 2
SPECIFICATION Spec
\* add2bin may stop being called at any point: the histogram then rests.
CHECK_DEADLOCK FALSE
INVARIANTS
  TypeOK
  StatsMatchSamples
