SPECIFICATION FairSpec
CONSTANTS
  a = a
  b = b
  MaxRequests = 3
  Keys <- MCKeys
  Calls <- ShortLived
  Volatile <- OneKey
  Capacity = 1
  DefaultTtl = 1
  MaxNow = 2
  MaxVersion = 1
INVARIANT SingleFlight
INVARIANT InflightExact
INVARIANT CacheHonest
INVARIANT BoundedStaleness
PROPERTY MonotoneReads
PROPERTY EveryCallReturns
CHECK_DEADLOCK FALSE
