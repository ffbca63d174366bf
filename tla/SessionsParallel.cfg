SPECIFICATION Spec
CONSTANTS
  ann = ann
  b1 = b1
  b2 = b2
  r1 = r1
  r2 = r2
  r3 = r3
  None = None
  Users <- OneUser
  Browsers <- OneBrowser
  UserOf <- SameUser
  Requests <- TwoRequests
  BrowserOf <- AllOfB1
  PageCalls <- OnlyApi
  MaxFaults = 0
INVARIANT NeverSeesExpiry
CHECK_DEADLOCK FALSE
