SPECIFICATION Spec
CONSTANTS
  HalfWord = 32
  Second = 5
  Policies <- MCPolicies
  Headers <- MCHeaders
INVARIANTS
  TypeOK
  WaitWithinCap
PROPERTIES
  BackoffIsCappedDoubling
  RetryAfterHonoured
\* A call that handed its failure back has stopped.
CHECK_DEADLOCK FALSE
