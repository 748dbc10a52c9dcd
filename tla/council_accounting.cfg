\* The council-v1 plan against tight caps and every outcome of a live provider.
SPECIFICATION Spec
CONSTANTS
  ProposerA = ProposerA
  ProposerB = ProposerB
  ReviewerA = ReviewerA
  ReviewerB = ReviewerB
  Judge = Judge
  None = None
  Nodes <- CouncilNodes
  DependsOn <- CouncilDependsOn
  Role <- CouncilRole
  Ceiling <- CouncilCeiling
  MaxCalls = 5
  MaxTotalTokens = 13
  MaxCostMicrousd = 24
  InputPrice = 1
  OutputPrice = 3
  TokensPerPriceUnit = 2
  Reported <- AnyReports
  Texts = {"plain", "unencodable"}
  Verdicts = {"valid", "invalid", "unencodable"}
  BackendFaults = {"unbilled", "exception", "billed"}
  LiveBackend = TRUE
  StorageFaults = {"lost"}
  Cancellations = {"leaked"}
INVARIANTS
  TypeOK
  ReservationsExact
  CompletedWithinCaps
SYMMETRY Symmetry
CHECK_DEADLOCK FALSE
