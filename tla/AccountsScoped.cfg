SPECIFICATION Spec
CONSTANTS
  tab = tab
  ann = ann
  bob = bob
  Ann = Ann
  w1 = w1
  w2 = w2
  short = short
  Nobody = Nobody
  Unloaded = Unloaded
  Pages <- OnePage
  Users = {ann, bob}
  Addresses = {Ann, bob}
  Normal <- TypedAs
  FirstUsers <- BothExist
  Passwords = {w1, w2, short}
  Short = {short}
  Asked <- LoginOnly
  MaxCalls = 2
  MaxFaults = 0
INVARIANT ScopedToUser
CHECK_DEADLOCK FALSE
