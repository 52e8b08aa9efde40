SPECIFICATION Spec
CONSTANTS
  HalfWord = 32
  Second = 1
  Statuses <- MCStatuses
  Claims = {0, 422, 503}
  Codes <- MCCodes
  Documented <- MCDocumented
  Policy <- MCPolicy
INVARIANTS
  TypeOK
  CodeIsFromAWholeBody
  ClassIsTheWires
  RetryableIsRecognised
\* A call returns in the end.
CHECK_DEADLOCK FALSE
