\* Crashes, a cancelling owner, agents that fail or commit on their own.
SPECIFICATION FairSpec
CONSTANTS
  Coder = Coder
  Strong = Strong
  Critical = Critical
  Check = Check
  Shell = Shell
  None = None
  NoResource = NoResource
  Resources <- SmallResources
  Checks <- SmallChecks
  FirstInTier <- GapCatalog
  Configured <- NoneConfigured
  NeedsReview = {1}
  MaxAgentCalls = 3
  MaxAttempts = 2
  MaxConsecutiveFailures = 2
  MaxReviewFailures = 2
  Litter <- LitteryChecks
  AgentsMoveHead = TRUE
  MaxCrashes = 1
INVARIANTS
  LoadableState
  Attributed
  AchievedOnEvidence
  ResumeAccepted
  NoLateWork
PROPERTIES
  RunEnds
  KeepsGoalContract
CHECK_DEADLOCK FALSE
