SPECIFICATION Spec
CONSTANTS
  DefaultPageSize = 3
  Records = 7
  Sizes <- MCSizes
  Passed <- MCPassed
  EmptyPages = TRUE
INVARIANTS
  EndsWithEverything
