SPECIFICATION IdentitySpec
CONSTANTS
  Requests = {r1, r2}
  CodeTTL = 2
  ResendAfter = 1
  MaxAttempts = 1
  MaxTime = 3
  MaxCodes = 2
  Callers = {r1, r2}
  IPKeys = {"client_ip", "passwordless_ip"}
  OtherKeys = {"email"}
  KeyLists <- MCKeyLists
  Window = 2
  Limit = 1
  IPLimit = 2
  MaxEntries = 2
  MaxWatch = 2
  SignIns = {1, 2}
  Browsers = {r1, r2}
  Providers = {p1}
  Hits = {r1, r2}
  Capacity = 1
  SessionTTL = 1
  ExchangeTTL = 1
  MaxSpan = 1
  Visits = {r1, r2}
  Assuming = {fb}
  Stating = {gg}
  LinkByEmail = TRUE
  OtherRoles = {"ops"}
  GrantTries = 2
  MaxWrites = 3
SYMMETRY IdentitySymmetry
INVARIANTS  ThrottleHolds  DecisionsHold
PROPERTIES UnlinkLeavesAWayIn
CHECK_DEADLOCK FALSE
