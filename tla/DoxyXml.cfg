SPECIFICATION Spec
CONSTANTS
  Files <- MCFiles
  Addresses <- MCAddresses
  Rounds = 2
INVARIANTS
  ConformingUnchanged
  DescriptionComplete
PROPERTY
  WrittenFileSettled
CHECK_DEADLOCK FALSE
