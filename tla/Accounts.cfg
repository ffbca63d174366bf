SPECIFICATION FairSpec
CONSTANTS
  tab = tab
  ann = ann
  bob = bob
  Ann = Ann
  w1 = w1
  w2 = w2
  short = short
  Nobody = Nobody
  Unloaded = Unloaded
  Pages <- OnePage
  Users = {ann, bob}
  Addresses = {Ann, bob}
  Normal <- TypedAs
  FirstUsers <- AnnExists
  Passwords = {w1, w2, short}
  Short = {short}
  Asked <- AllKinds
  MaxCalls = 3
  MaxFaults = 1
INVARIANT TypeOK
INVARIANT CurrentPassword
INVARIANT ChangesStand
INVARIANT OwnWritesShown
PROPERTY PagesSettle
CHECK_DEADLOCK FALSE
