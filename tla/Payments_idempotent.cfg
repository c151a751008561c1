\* A charge whose outcome the service did not learn, and a retry.
CONSTANTS
  Payments = {p1}
  Charges = {c1, c2}
  Gateways = {"STRIPE"}
  Workers = {w1}
  Clients = {a}
  Verified = {"STRIPE"}
  Price = 58
  Refunds = {0, 29}
  LosesCent = {29, 57, 58}
  MaxRetries = 1
  MaxFaults = 1
SPECIFICATION Spec
INVARIANTS
  PaidAtMostOnce
CHECK_DEADLOCK FALSE
