\* Requests on two transfers race with customers, an administrator and a failure.
CONSTANTS
  Warehouses = {w1, w2}
  Stocked = {w1}
  Transfers = {t1, t2}
  Handlers = {a, b}
  Quantities = {1}
  InitialStock = 1
  Counts = {1}
  MaxFaults = 1
SPECIFICATION Spec
SYMMETRY Interchangeable
INVARIANTS
  ArrivesOnce
  HoldsWhileInTransit
  ExactUnlessDisturbed
  AccountIInv
  CompletedHasArrived
CHECK_DEADLOCK FALSE
