\* Two requests on one account, two seconds, one failure.
CONSTANTS
  Requests = {a, b}
  Secrets = {s1, s2}
  MaxTime = 1
  MaxSignIns = 2
  MaxRaces = 2
  MaxFaults = 1
SPECIFICATION Spec
SYMMETRY Interchangeable
INVARIANTS
  SessionsDoNotMultiply
  EndedStaysEnded
  EnabledSecretWasProved
  MfaProtectsLogin
CHECK_DEADLOCK FALSE
