SPECIFICATION SigSpec
CONSTANTS
  ExitCodes = {0, 255}
  Signals = {6, 9, 15}
  NTests = 3
  NJobs = 2
  Decls <- Enabled
  Mishaps = {}
INVARIANTS
  NoOrphans
