SPECIFICATION FairSpec
CONSTANTS
  ann = ann
  bob = bob
  p = p
  u1 = u1
  u2 = u2
  NoRoute = NoRoute
  Users = {ann, bob}
  Paths <- OnePath
  Rows <- TwoRows
  FirstRow <- StartsWithAnn
  Calls <- MixedCalls
  Names <- AB
  Capacity = 1
  Statuses = {200, 502}
  MaxChanges = 1
  MaxRestarts = 1
INVARIANT LoggedOnce
INVARIANT OneRoute
INVARIANT SharedAnswer
INVARIANT ReportsAgree
PROPERTY SettlesDown
CHECK_DEADLOCK FALSE
