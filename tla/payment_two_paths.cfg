SPECIFICATION Spec
CONSTANTS
  r1 = r1
  Requests = {r1}
  MaxBumps = 0
  MaxPayments = 3
  MaxFailures = 1
INVARIANTS AtMostOnePayment
