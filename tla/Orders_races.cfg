\* Four requests race over one order; two fail before their commit.
CONSTANTS
  Orders = {o1}
  Requests = {a, b, c, d}
  MaxFaults = 2
SPECIFICATION Spec
SYMMETRY Interchangeable
INVARIANTS
  OrdersIInv
  StagesAreNotSkipped
PROPERTY
  Lifecycle
CHECK_DEADLOCK FALSE
