\* Strings of more than the three characters a token holds.
SPECIFICATION CliSpec
CONSTANTS
  Characters = {" ", ";", ",", "*", "=", "(", ")", "-", "quote", "0", "1", "2",
                "s", "S", "i", "f", "w", "o", "v", "c", "r", "q", "d", "n"}
  Spaces = {" "}
  Puncts = {";", ",", "*", "=", "(", ")"}
  Digits = {"0", "1", "2"}
  Letters = {"s", "S", "i", "f", "w", "o", "v", "c", "r", "q", "d", "n"}
  Lower <- MCLower
  Keywords <- MCKeywords
  PunctTypes <- MCPunctTypes
  Capacity = 14
  TokenValueMax = 3
  Inputs <- MCInputs
  WordMax = 4
  TableNameMax = 2
  Statements <- MCStatements
  Commands <- MCCommands
  SelectAllFrom <- MCSelectAllFrom
  Identifiers <- MCIdentifiers
  Numbers <- MCNumbers
  Strings <- MCStrings
  Oversized <- MCOversized
  InRange <- MCInRange
  IdColumn <- MCIdColumn
  NameColumn <- MCNameColumn
  NoValue <- MCNoValue
  MaxColumns = 2
  MaxText = 1
  MaxRest = 5
  MaxBehindCommas = 0
INVARIANTS
  UnterminatedIsReported
\* A line is handled once.
CHECK_DEADLOCK FALSE
