SPECIFICATION Spec
CONSTANTS
  ExitCodes = {0, 255}
  Signals = {6, 9, 15}
  NTests = 2
  Depth = 2
  Decls <- Declared
INVARIANTS
  ComplaintFails
