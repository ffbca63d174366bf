SPECIFICATION Spec
CONSTANTS
  c1 = c1
  c2 = c2
  Keys <- MCKeys
  Shapes <- Plain
  Second = 2
  IdleTtl = 4
  TickSizes <- Forward
  MaxNow = 7
  MaxGrants = 3
PROPERTY ImplementsEager
CHECK_DEADLOCK FALSE
