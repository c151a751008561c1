\* Two calls at once, two searches, two logins and one reload.
CONSTANTS
  Calls = {c1, c2}
  Retries = 2
  MaxCalls = 3
  MaxLogins = 2
  Queries = {"", "shoe"}
  MaxReloads = 1
SPECIFICATION StorefrontSpec
INVARIANTS
  WritesRunOnce
  WaitersHaveARefresh
  TokensAgree
  ListAnswersTheFilter
PROPERTIES
  EverythingSettles
CHECK_DEADLOCK FALSE
