\* A child that dies before setpgid() leaves the parent in Fork::fork's wait
\* for good: the run really stops there.
CHECK_DEADLOCK FALSE
SPECIFICATION Spec
CONSTANTS
  ExitCodes = {0, 255}
  Signals = {6, 9, 15}
  NTests = 2
  NJobs = 2
  Decls <- Judged
  Mishaps = {"straggler", "earlyDeath", "binLost"}
  Port = 3
  Index = {0, 1}
  Width = 4
INVARIANTS
  IInv
PROPERTIES
  FailureShows
