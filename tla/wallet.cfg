SPECIFICATION FairSpec
CONSTANTS
  Payments = {1, 2}
  Funds = {600, 4000}
  NumCoins = 2
  Amount = 1000
  num_confirmations = 1
  MaxVersions = 2
  MaxFaults = 2
INVARIANTS TypeOK FundedIsFresh OnePaymentMined FeeIsPaid
PROPERTIES PaymentConfirms
CHECK_DEADLOCK FALSE
