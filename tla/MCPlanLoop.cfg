SPECIFICATION Spec
CONSTANTS
  Codes <- MCCodes
  Tasks <- MCTasks
  Plans <- MCPlans
  NoPlan = "none"
  Gates <- MCGates
  Reordered <- MCReordered
  Closed <- MCClosed
  Signature <- MCSignature
  Fingerprint <- MCFingerprint
  Merged <- MCMerged
  CriticFindings <- MCCriticFindings
  Repeats <- MCRepeats
  Goals <- MCGoals
  Configs <- AllConfigs
INVARIANTS
  PriorVerdictBelongsToPriorPlan
  EscalationIsWarranted
  ApprovedPlanPassesGates
  ApprovedOnItsOwnVerdict
  SpendIsBounded
PROPERTIES
  Terminates
  ImplementsPlanningRun
CHECK_DEADLOCK FALSE
