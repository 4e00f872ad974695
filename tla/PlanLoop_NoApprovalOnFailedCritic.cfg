SPECIFICATION Spec
CONSTANTS
  Codes <- MCCodes
  Tasks <- MCTasks
  Plans <- MCPlans
  NoPlan = "none"
  Gates <- MCGates
  Reordered <- MCReordered
  Closed <- MCClosed
  Signature <- MCSignature
  Fingerprint <- MCFingerprint
  Merged <- MCMerged
  CriticFindings <- MCCriticFindings
  Repeats <- MCRepeats
  Goals <- MCGoals
  Configs <- ModeConfigs
INVARIANTS
  NoApprovalOnFailedCritic
CHECK_DEADLOCK FALSE
