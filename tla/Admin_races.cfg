\* Two administrators, a third user to come, and two requests at once.
CONSTANTS
  Users = {u1, u2, u3}
  Admins = {u1, u2}
  Merchants = {m1}
  Types = {"number", "boolean"}
  Values = {"number", "boolean"}
  Requests = {a, b}
  MaxWrites = 3
SPECIFICATION Spec
SYMMETRY Interchangeable
INVARIANTS
  AuditLostOnlyWithItsActor
  AuthorsAreLogged
  ConfigFitsItsType
  SomeAdminRemains
CHECK_DEADLOCK FALSE
