\* Widths of 6, 4 and 3 bits for 64, 32 and 16.
SPECIFICATION MainSpec
CONSTANTS
  ExitCodes = {0, 255}
  Signals = {6, 9, 15}
  Declared <- SomeTests
  FilterLists <- SomeFilters
  Environments <- SomeEnvironments
  CommandLines <- SomeCommandLines
  Cpus = 4
  UIntMax = 15
  PortMax = 7
  ULongWidth = 64
  Junk = Junk
  Huge = Huge
  Unknown = Unknown
INVARIANTS
  LastSourceWins SourcesAddUp NoBlankFilter UsageExactly OptsTypeOK
  AsAsked SelectsWanted BindsEach CountsBound
