\* The owner cancels at any moment.
SPECIFICATION Spec
CONSTANTS
  Coder = Coder
  Strong = Strong
  Critical = Critical
  Check = Check
  Shell = Shell
  None = None
  NoResource = NoResource
  Resources <- SmallResources
  Checks <- SmallChecks
  FirstInTier <- SmallCatalog
  Configured <- NoneConfigured
  NeedsReview = {1, 2, 3}
  MaxAgentCalls = 2
  MaxAttempts = 1
  MaxConsecutiveFailures = 1
  MaxReviewFailures = 2
  Litter <- CleanChecks
  AgentsMoveHead = FALSE
  MaxCrashes = 1
PROPERTIES
  CancelIsDurable
CHECK_DEADLOCK FALSE
