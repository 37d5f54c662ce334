\* A child that dies before setpgid() leaves the parent polling for good: the
\* model stops where the program spins.
CHECK_DEADLOCK FALSE
SPECIFICATION FairSpec
CONSTANTS
  ExitCodes = {0, 255}
  Signals = {6, 9, 15}
  NTests = 1
  NJobs = 1
  Decls <- Scheduled
  Mishaps = {"earlyDeath"}
  Port = 3
  Index = {0, 1}
  Width = 4
PROPERTIES
  AwaitEnds
