SPECIFICATION Spec
CONSTANTS
  Kinds = {"cached"}
  Tasks <- TwoSteps
  Plans <- StepsPlanned
  Resembles <- Alike
  Setups <- Caching
  Facts <- Preconditions
  Live <- Probed
  Needs <- Required
  Ttl = 0
  StepMaxRetries = 1
  RunMaxDepth = 1
  MaxAsks = 2
  MaxLives = 1
  MaxDrifts = 1
INVARIANTS
  NoToolWithoutApproval
