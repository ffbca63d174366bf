SPECIFICATION Spec
CONSTANTS
  a = a
  b = b
  MaxRequests = 3
  Keys <- OneKey
  Calls <- Disabled
  Volatile <- OneKey
  Capacity = 1
  DefaultTtl = 1
  MaxNow = 1
  MaxVersion = 1
INVARIANT ConfiguredLifetime
CHECK_DEADLOCK FALSE
