\* Lines as long as the buffer is, less one character.
SPECIFICATION ReaderSpec
CONSTANTS
  Capacity = 4
  Inputs <- MCInputs
  Rejected = Rejected
  Characters = {"a", "b", "newline"}
  MaxLength = 6
INVARIANTS
  RejectedIsTooLong
CHECK_DEADLOCK FALSE
