SPECIFICATION Spec
CONSTANTS
  run1 = run1
  run2 = run2
  alice = alice
  bob = bob
  Plans <- OnePlan
  Goals <- OneGoal
  GoalOf <- OnePlanGoal
  Rank <- OnePlanRank
  MaxVersion = 2
  Bodies <- TwoBodies
  Clean <- CleanBody
  NoBody = "none"
  Runners <- TwoRunners
  Reviewers <- TwoReviewers
  Surfaces <- NoCli
SYMMETRY WriterSymmetry
INVARIANTS
  NoOrphanEscalation
  FindingsDescribeRevision
PROPERTIES
  DecisionsStand
  ImplementsLifecycle
