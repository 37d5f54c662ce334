SPECIFICATION Spec
CONSTANTS
  ExitCodes = {0, 255}
  Signals = {6, 9, 15}
  NTests = 2
  NJobs = 1
  Decls <- Scheduled
  Mishaps = {"straggler"}
  Port = 3
  Index = {0, 1}
  Width = 4
INVARIANTS
  Isolation
