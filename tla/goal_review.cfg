\* Three failed attempts escalate the writer up to the tier of the reviewer.
SPECIFICATION Spec
CONSTANTS
  Coder = Coder
  Strong = Strong
  Critical = Critical
  Check = Check
  Shell = Shell
  None = None
  NoResource = NoResource
  Resources <- SmallResources
  Checks <- SmallChecks
  FirstInTier <- SmallCatalog
  Configured <- NoneConfigured
  NeedsReview = {1, 2, 3}
  MaxAgentCalls = 4
  MaxAttempts = 4
  MaxConsecutiveFailures = 3
  MaxReviewFailures = 2
  Litter <- CleanChecks
  AgentsMoveHead = FALSE
  MaxCrashes = 1
INVARIANT
  IndependentReview
CHECK_DEADLOCK FALSE
