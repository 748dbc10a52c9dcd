\* A ring of three slots through its sequence numbers, and migrations to it.
SPECIFICATION Spec
CONSTANTS
  Documents = {"a", "b"}
  Nothing = "nothing"
  Slots = 3
  SequenceModulus = 6
  MigrationFaults <- OneKindOfFault
INVARIANT
  Recoverable
PROPERTIES
  ActsAsRegister
