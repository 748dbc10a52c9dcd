\* Failing writes, cancellations and failing fakes on a plan with two barriers.
SPECIFICATION FairSpec
CONSTANTS
  ProposerA = ProposerA
  ProposerB = ProposerB
  ReviewerA = ReviewerA
  ReviewerB = ReviewerB
  Judge = Judge
  None = None
  Nodes <- LayeredNodes
  DependsOn <- LayeredDependsOn
  Role <- LayeredRole
  Ceiling <- LayeredCeiling
  MaxCalls = 4
  MaxTotalTokens = 10
  MaxCostMicrousd = 20
  InputPrice = 1
  OutputPrice = 3
  TokensPerPriceUnit = 2
  Reported <- FakeReports
  Texts = {"plain"}
  Verdicts = {"valid"}
  BackendFaults = {"exception"}
  LiveBackend = FALSE
  StorageFaults = {"put", "lost", "kept"}
  Cancellations = {"owner", "leaked"}
INVARIANTS
  JournalReplays
  TerminalFileReplays
  DocumentsMatchFile
  JournalAccountsForSpending
  CausalOrder
  HardCaps
PROPERTIES
  RunEnds
  KeepsContract
CHECK_DEADLOCK FALSE
