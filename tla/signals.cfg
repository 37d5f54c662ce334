SPECIFICATION FairSigSpec
CONSTANTS
  ExitCodes = {0, 255}
  Signals = {6, 9, 15}
  NTests = 3
  NJobs = 2
  Decls <- Enabled
  Mishaps = {"earlyDeath"}
INVARIANTS
  OnlyNewbornEscapes SigInv
PROPERTIES
  HandlerEnds
ACTION_CONSTRAINT QuietTests
