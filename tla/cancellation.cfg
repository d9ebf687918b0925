SPECIFICATION FairSpec
CONSTANTS
  r1 = r1
  r2 = r2
  Requests = {r1, r2}
  OpenAtStart = {r2}
  EarlierPeriod = 0
  Periods = {0, 1}
  StartPeriod = 1
  Ratio = 2
  U32Max = 1
  MaxActiveHeight = 1
  MaxBitcoinHeight = 1
  MaxOpenHeight = 0
  MaxInactive = 0
  ChannelCapacity = 1
  MaxPeriodChanges = 1
  MaxFaults = 1
  RestartInterval = 1
  LateSubscription = TRUE
INVARIANTS TypeOK ValidListIsComplete CancelsOnlyExpired
PROPERTIES ExpiredRequestIsSettled
