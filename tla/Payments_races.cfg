\* Retries, refunds, webhooks and failures race over one payment.
CONSTANTS
  Payments = {p1}
  Charges = {c1, c2}
  Gateways = {"STRIPE", "PAYPAL"}
  Workers = {w1, w2}
  Clients = {a, b}
  Verified = {"STRIPE"}
  Price = 58
  Refunds = {0, 29}
  LosesCent = {29, 57, 58}
  MaxRetries = 1
  MaxFaults = 2
SPECIFICATION Spec
SYMMETRY Interchangeable
INVARIANTS
  PaymentsIInv
  ChargedOncePerActivation
  SucceededIsTraceable
  SucceededWasCharged
  RefundsAreBacked
  OutcomesAreLogged
CHECK_DEADLOCK FALSE
