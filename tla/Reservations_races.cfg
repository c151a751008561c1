\* Two requests, the clean-up, an administrator and one failure.
CONSTANTS
  Items = {i1}
  Resvs = {r1, r2}
  Owners = {o1}
  Requests = {a, b}
  Sweepers = {t1}
  Quantities = {1}
  InitialStock = 2
  Counts = {1}
  MaxFaults = 1
SPECIFICATION Spec
SYMMETRY Interchangeable
INVARIANTS
  AccountIInv
  GoneMeansFreed
  ReservedIsAccountedFor
  ShortfallOnlyFromDoubleFree
PROPERTY
  OverdrawnOnlyByAdjustment
CHECK_DEADLOCK FALSE
