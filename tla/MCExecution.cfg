SPECIFICATION Spec
CONSTANTS
  Kinds = {"hook", "interceptor", "session", "decorator"}
  Tasks <- TwoSteps
  Plans <- StepsPlanned
  Resembles <- Alike
  Setups <- Honest
  Facts <- Preconditions
  Live <- Probed
  Needs <- Required
  Ttl = 0
  StepMaxRetries = 1
  RunMaxDepth = 1
  MaxAsks = 2
  MaxLives = 2
  MaxDrifts = 1
INVARIANTS
  NoToolWithoutApproval
  GateIsSound
  TrailIsComplete
PROPERTIES
  ExecutionEnds
