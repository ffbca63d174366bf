SPECIFICATION Spec
CONSTANTS
  c1 = c1
  c2 = c2
  Keys <- OneKey
  Shapes <- Varied
  Second = 2
  IdleTtl = 4
  TickSizes <- SteppedBack
  MaxNow = 6
  MaxGrants = 3
INVARIANT TypeOK
INVARIANT WindowRate
INVARIANT RetryHonoured
INVARIANT PruneHarmless
CHECK_DEADLOCK FALSE
