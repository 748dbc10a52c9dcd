\* A run, its mishaps and resumption, the owner's cancel, and ids given out again.
SPECIFICATION Spec
CONSTANTS
  Pids <- TwoPids
  Systems = {"command", "none"}
  Mishaps = {"death", "interrupt"}
  MaxAgents = 3
  MaxMishaps = 2

  
  
PROPERTIES
  
  CancelTakes
