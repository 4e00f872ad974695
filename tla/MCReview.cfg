SPECIFICATION Spec
CONSTANTS
  Codes <- ReasonCode
  Tasks <- MCTasks
  Facts <- MCFacts
  EnvFacts <- MCEnvFacts
  Templates <- MCTemplates
  PreStateChecks <- MCPreStateChecks
  Quota <- MCQuota
  Cost <- MCCost
  BudgetCap = 100
  Rules <- MCRules
  Contexts <- MCContexts
  Drafts <- MCDrafts
  Revisions <- MCRevisions
  Cap = 3
INVARIANTS
  VerificationIsNotVacuous
  FailureIsContained
  GroundedWhenStarted
  NothingNewEscapesTheCritic
  PackObligationsMet
PROPERTIES
  FixesOnlyHelp
CHECK_DEADLOCK FALSE
