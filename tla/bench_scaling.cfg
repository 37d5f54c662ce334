\* 2^32, 10^9 iterations and up to 9 seconds, a million times smaller.
SPECIFICATION FairSpec
CONSTANTS
  Width = 4295
  MaxIters = 1000
  MaxDurs <- SomeMaxDurs
  Durations <- SomeDurations
INVARIANTS
  BenchInv
PROPERTIES
  LeastRound Grows Ends
