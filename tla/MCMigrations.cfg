SPECIFICATION RetriedSpec
CONSTANTS
  service = service
  cli = cli
  SchemaVersion = 3
  Parts = 2
  Processes <- TwoProcesses
  MaxFailures = 2
INVARIANTS
  LedgerIsTrue
  SchemaExistsOnOpen
  Reversible
PROPERTIES
  UpgradeCompletes
