\* Statements whose lists of columns all fit.
SPECIFICATION CliSpec
CONSTANTS
  Characters = {" ", ";", ",", "*", "=", "(", ")", "-", "quote", "0", "1", "2",
                "s", "S", "i", "f", "w", "o", "v", "c", "r", "q", "d", "n"}
  Spaces = {" "}
  Puncts = {";", ",", "*", "=", "(", ")"}
  Digits = {"0", "1", "2"}
  Letters = {"s", "S", "i", "f", "w", "o", "v", "c", "r", "q", "d", "n"}
  Lower <- MCLower
  Keywords <- MCKeywords
  PunctTypes <- MCPunctTypes
  Capacity = 14
  TokenValueMax = 4
  Inputs <- MCInputs
  WordMax = 4
  TableNameMax = 2
  Statements <- MCStatements
  Commands <- MCCommands
  SelectAllFrom <- MCSelectAllFrom
  Identifiers <- MCIdentifiers
  Numbers <- MCNumbers
  Strings <- MCStrings
  Oversized <- MCOversized
  InRange <- MCInRange
  IdColumn <- MCIdColumn
  NameColumn <- MCNameColumn
  NoValue <- MCNoValue
  MaxColumns = 3
  MaxText = 1
  MaxRest = 1
  MaxBehindCommas = 0
INVARIANTS
  GrammarIsAccepted
\* A line is handled once.
CHECK_DEADLOCK FALSE
