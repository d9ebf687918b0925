SPECIFICATION FairSpec
CONSTANTS
  StartHeights = {}
  max_batch_size = 2
  btc_confirmations = 1
  ForkLead = 2
  InitialHeight = 2
  MaxHeight = 5
  MaxReorgs = 2
  MaxFaults = 1
  OtherVaults = TRUE
INVARIANTS TypeOK SubmitsOnlyConfirmed SubmissionConnects
PROPERTIES RelayCatchesUp
