SPECIFICATION Spec
CONSTANTS
  r1 = r1
  Requests = {r1}
  OpenAtStart = {}
  EarlierPeriod = 0
  Periods = {0}
  StartPeriod = 0
  Ratio = 2
  U32Max = 9
  MaxActiveHeight = 1
  MaxBitcoinHeight = 1
  MaxOpenHeight = 1
  MaxInactive = 0
  ChannelCapacity = 1
  MaxPeriodChanges = 0
  MaxFaults = 1
  RestartInterval = 0
  LateSubscription = FALSE
INVARIANTS FailedQueryLeavesListInvalid
