\* Two requests on one row, low or not after each of them, and one failure.
CONSTANTS
  Requests = {a, b}
  Counts = {0, 2}
  ReorderPoints = {0, 1}
  Quantities = {1}
  MaxEntries = 4
  MaxFaults = 1
SPECIFICATION Spec
SYMMETRY Interchangeable
INVARIANTS
  HistoryAddsUp
  ViewsAreCurrent
  OneActiveAlert
  LowStockIsNoticed
CHECK_DEADLOCK FALSE
