SPECIFICATION FairSpec
CONSTANTS
  HalfWord = 32
  Second = 1
  Graphic = {"k"}
  Blank = " "
  Other = {"LF"}
  maxIdempotencyKeyLen = 2
  p1 = p1
  p2 = p2
  first = first
  second = second
  other = other
  plain = plain
  read = read
  broken = broken
  padded = padded
  NoKey <- EmptyKey
  Calls = {plain, read, broken}
  Keys <- MCKeys
  ValidKeys <- MCValidKeys
  Payloads = {p1, p2}
  Statuses = {200, 302, 422, 429, 503}
  Headers <- MCHeaders
  CallOf <- MCCallOf
  Carried <- MCCarried
  Policy <- MCPolicy2
INVARIANTS
  AtMostOnce
  RefusalIsFinal
  OutOnlyOnSuccess
  IInv
PROPERTIES
  Terminates
  WalletSpec
\* The calls of an instance have all returned in the end.
CHECK_DEADLOCK FALSE
