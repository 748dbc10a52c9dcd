\* Every short text in every division, with a secret registered late.
SPECIFICATION Spec
CONSTANTS
  Chars <- FourChars
  Texts <- ShortTexts
  Registries <- SomeRegistries
  LateSecrets <- LateSecret
  Limits = {1, 3, 9}
INVARIANTS
  SplitInvariant
  NothingRevealed
CHECK_DEADLOCK FALSE
