\* Three checks at a time, limits they can reach, and the end of a month.
CONSTANTS
  Checks = {a, b, c}
  Limits = {0, 1}
  Default = 1
  DaysPerMonth = 2
  MaxDay = 3
  MaxUses = 4
SPECIFICATION QuotaSpec
SYMMETRY Interchangeable
INVARIANTS
  OverrunIsBounded
  
