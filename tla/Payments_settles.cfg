\* Without failures every payment leaves PENDING and PROCESSING.
CONSTANTS
  Payments = {p1}
  Charges = {c1, c2}
  Gateways = {"STRIPE"}
  Workers = {w1}
  Clients = {a, b}
  Verified = {"STRIPE"}
  Price = 58
  Refunds = {0, 29}
  LosesCent = {29, 57, 58}
  MaxRetries = 2
  MaxFaults = 0
SPECIFICATION FairSpec
PROPERTIES
  PaymentSettles
CHECK_DEADLOCK FALSE
