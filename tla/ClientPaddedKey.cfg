SPECIFICATION Spec
CONSTANTS
  HalfWord = 32
  Second = 1
  Graphic = {"k"}
  Blank = " "
  Other = {"LF"}
  maxIdempotencyKeyLen = 2
  p1 = p1
  p2 = p2
  first = first
  second = second
  other = other
  plain = plain
  read = read
  broken = broken
  padded = padded
  NoKey <- EmptyKey
  Calls = {first, padded}
  Keys <- MCPaddedKeys
  ValidKeys <- MCValidKeys
  Payloads = {p1, p2}
  Statuses = {200, 503}
  Headers <- MCNoHeaders
  CallOf <- MCCallOf
  Carried <- MCCarried
  Policy <- MCPolicy2
INVARIANTS
  KeyedOnTheWire
\* The calls of an instance have all returned in the end.
CHECK_DEADLOCK FALSE
