SPECIFICATION Spec
CONSTANTS
  p1 = p1
  p2 = p2
  p3 = p3
  u1 = u1
  u2 = u2
  NoPlan = NoPlan
  Plans <- ThreePlans
  Uris <- TwoUris
  Strategies <- LockStrategy
  LockTimeout = 1
  WaitDeadline = 2
INVARIANTS
  MutualExclusion
  ConflictIsReal
PROPERTIES
  OnlyLateReleaseBreaksExclusion
  AcquireReturns
