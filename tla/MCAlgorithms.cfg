SPECIFICATION InputSpec
CONSTANTS
  MaxTotalBytes = 5
  MaxInt = 7
  MaxComponents = 2
  MaxPieces = 4
  MaxRows = 2
  MaxAllRows = 5
INVARIANTS
  StatementIsReplaced
  GateOpensForTheDump
  SelectionIsSafe
  ReportIsHonest
  ManifestIsUsable
CHECK_DEADLOCK FALSE
