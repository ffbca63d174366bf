SPECIFICATION FairSpec
CONSTANTS
  ann = ann
  bob = bob
  h1 = h1
  h2 = h2
  t1 = t1
  t2 = t2
  s1 = s1
  s2 = s2
  old1 = old1
  old2 = old2
  boot = boot
  none = none
  Users <- MCUsers
  RoutePrefixes <- MCPrefixes
  Paths <- MCPaths
  Upstreams = {s1, s2}
  OldIds = {old1, old2}
  Handlers <- MCHandlers
  Timers <- OneTimer
  Startup = boot
  Calls <- MCCalls
  OldTables <- MCTables
  NoRoute = none
  MaxFaults = 1
INVARIANT TypeOK
INVARIANT RegistryIsPast
INVARIANT MatchesLongest
PROPERTY AnsweredLive
PROPERTY EventuallyCurrent
