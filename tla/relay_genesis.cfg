SPECIFICATION FairSpec
CONSTANTS
  StartHeights = {0}
  max_batch_size = 2
  btc_confirmations = 0
  ForkLead = 2
  InitialHeight = 1
  MaxHeight = 2
  MaxReorgs = 0
  MaxFaults = 0
  OtherVaults = FALSE
PROPERTIES RelayCatchesUp
