\* Liveness of the clean-up with two failures inside its loop.
CONSTANTS
  Items = {i1}
  Resvs = {r1, r2}
  Owners = {o1}
  Requests = {a}
  Sweepers = {t1}
  Quantities = {1}
  InitialStock = 2
  Counts = {}
  MaxFaults = 2
SPECIFICATION FairSpec
PROPERTY
  OverdueIsSettled
CHECK_DEADLOCK FALSE
