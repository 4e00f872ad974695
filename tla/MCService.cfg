SPECIFICATION Spec
CONSTANTS
  Names = {"local", "paid"}
  Local = "local"
  Models = {"m1", "m2"}
  Editors = {"shell"}
  Workers = {w1}
  MaxRetries = 1
  MaxEdits = 2
INVARIANTS
  RolesResolve
  OneConfiguration
  RetriesAreBounded
PROPERTIES
  EveryRequestIsAnswered
CHECK_DEADLOCK FALSE
