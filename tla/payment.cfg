SPECIFICATION FairSpec
CONSTANTS
  r1 = r1
  Requests = {r1}
  MaxBumps = 1
  MaxPayments = 3
  MaxFailures = 2
INVARIANTS TypeOK UnexposedPaidOnce
PROPERTIES PaysOnlyPending ImplementsSettlement MinedPaymentIsExecuted OpenRequestIsPaid
