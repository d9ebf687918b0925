SPECIFICATION FairSpec
CONSTANTS
  i1 = i1
  i2 = i2
  Issues = {i1, i2}
  num_confirmations = 2
  Unmanaged = {i2}
  MaxHeight = 3
  MaxPayments = 1
  MaxFaults = 1
INVARIANTS TypeOK PendingIsWatched ExecutesOnceWithProof
PROPERTIES PaidIssueIsExecuted DepositIsSpendable
