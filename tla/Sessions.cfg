SPECIFICATION FairSpec
CONSTANTS
  ann = ann
  b1 = b1
  b2 = b2
  r1 = r1
  r2 = r2
  r3 = r3
  None = None
  Users <- OneUser
  Browsers <- TwoBrowsers
  UserOf <- SameUser
  Requests <- ThreeRequests
  BrowserOf <- SplitBrowserOf
  PageCalls <- EitherWay
  MaxFaults = 1
INVARIANT TypeOK
INVARIANT SessionSurvives
INVARIANT RevokedStaysDead
INVARIANT SingleUse
PROPERTY EveryRequestEnds
CHECK_DEADLOCK FALSE
