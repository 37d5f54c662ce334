SPECIFICATION FairSpec
CONSTANTS
  ExitCodes = {0, 255}
  Signals = {6, 9, 15}
  Cap = 3
  Buff = 2
  Quota <- SomeQuota
  Decls <- SomeDecls
INVARIANTS
  OutputTaken ReportRight CaptureInv
PROPERTIES
  Unblocks Collected
