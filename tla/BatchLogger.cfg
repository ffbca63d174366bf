SPECIFICATION FairSpec
CONSTANTS
  MaxSize = 2
  MaxEntries = 4
  MaxOrphans = 1
  MaxBlind = 1
  Signals <- BothSignals
  Outcomes <- AnyOutcome
INVARIANT TypeOK
INVARIANT ExactlyOnce
INVARIANT AtLeastOnce
INVARIANT QuietExitFlushes
PROPERTY EveryEntryStored
PROPERTY ShutdownEnds
CHECK_DEADLOCK FALSE
