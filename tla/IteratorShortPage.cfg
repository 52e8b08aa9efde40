SPECIFICATION Spec
CONSTANTS
  DefaultPageSize = 3
  MaxTransactions = 5
  Sizes <- MCSizes
  LastRow <- MCLastRow
  ShortPages = TRUE
INVARIANTS
  EndsWithEverything
