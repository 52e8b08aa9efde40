SPECIFICATION Spec
CONSTANTS
  HalfWord = 32
  Second = 5
  Policies <- MCUsualPolicies
  Headers <- MCWideHeaders
PROPERTIES
  RetryAfterHonoured
CHECK_DEADLOCK FALSE
