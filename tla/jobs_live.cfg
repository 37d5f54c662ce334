SPECIFICATION FairSpec
CONSTANTS
  ExitCodes = {0, 255}
  Signals = {6, 9, 15}
  NTests = 2
  NJobs = 2
  Decls <- Scheduled
  Mishaps = {"binLost"}
  Port = 3
  Index = {0, 1}
  Width = 4
PROPERTIES
  LateTestsEnd KeepsPromise
