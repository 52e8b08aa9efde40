SPECIFICATION Spec
CONSTANTS
  Scripts <- MCScripts
  MaxAttempts = 2
  MaxCalls = 2
INVARIANTS
  TypeOK
  MovedOnce
  AnsweredInOrder
  FinalStands
\* A caller that is done, or was refused, makes no further call.
CHECK_DEADLOCK FALSE
