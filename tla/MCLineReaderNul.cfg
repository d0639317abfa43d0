\* Lines with a NUL in them.
SPECIFICATION ReaderSpec
CONSTANTS
  Capacity = 4
  Inputs <- MCInputs
  Rejected = Rejected
  Characters = {"a", "NUL", "newline"}
  MaxLength = 6
INVARIANTS
  EachLineAnswered
CHECK_DEADLOCK FALSE
