\* A crash between a blocking review and the removal of its checkout.
SPECIFICATION Spec
CONSTANTS
  Coder = Coder
  Strong = Strong
  Critical = Critical
  Check = Check
  Shell = Shell
  None = None
  NoResource = NoResource
  Resources <- SmallResources
  Checks = {}
  FirstInTier <- SmallCatalog
  Configured <- NoneConfigured
  NeedsReview = {1, 2, 3}
  MaxAgentCalls = 5
  MaxAttempts = 3
  MaxConsecutiveFailures = 3
  MaxReviewFailures = 2
  Litter <- CleanChecks
  AgentsMoveHead = FALSE
  MaxCrashes = 1
INVARIANT
  ReviewCanBeHeld
CHECK_DEADLOCK FALSE
