SPECIFICATION Spec
CONSTANTS
  k1 = k1
  k2 = k2
  k3 = k3
  Head = Head
  Tail = Tail
  Null = Null
  Keys <- MCKeys
  Ttls <- MCTtls
  Capacity = 2
  MaxNow = 2
  MaxOps = 5
INVARIANT ListIsMap
PROPERTY Accounting
PROPERTY ImplementsPolicy
CHECK_DEADLOCK FALSE
