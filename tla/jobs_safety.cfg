SPECIFICATION Spec
CONSTANTS
  ExitCodes = {0, 255}
  Signals = {6, 9, 15}
  NTests = 3
  NJobs = 2
  Decls <- Scheduled
  Mishaps = {}
  Port = 3
  Index = {0, 1}
  Width = 4
INVARIANTS
  NothingLost ChildrenOwned NoWaitError KeepsBusy GroupReady SoleWriter
  Isolation TruthfulExit PortsUnique
PROPERTIES
  OnlyLateTimedOut Implements
