\* Every short journal over a small alphabet, folded as it is read.
SPECIFICATION ReaderSpec
CONSTANTS
  Unset = Unset
  ExpectedNodes = 1
  CapCalls = 2
  CapTokens = 3
  CapCost = 9
  Alphabet <- SmallAlphabet
  MaxFrames = 9
INVARIANTS
  SpendingIsDispatched
  CancellationIsBilled
  CompletedRunCompleted
  TerminalIsFinal
  DecisionIsJudged
CHECK_DEADLOCK FALSE
