\* A candidate or a view: deaths at every step, one intrusion of any kind.
SPECIFICATION Spec
CONSTANTS
  Nonces <- FourNonces
  LastCommit = 2
  Intrusions = {"squat", "displace", "replace", "branch", "move", "write"}
  MaxAbandoned = 1
  MaxDeaths = 2
INVARIANTS
  RefusalHasCause
  HandleBacked
PROPERTIES
  BoundCommitAdvances
  NothingLost
  Delivered
