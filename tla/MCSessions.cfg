SPECIFICATION Spec
CONSTANTS
  Pods = {"p1", "p2"}
  Users = {"ann"}
  Logins = {"l1"}
  IdTokens <- MCIdTokens
  ClientID = "web"
  Skip = ""
  Operator = "admin"
  SessionLifetime = 2
  MintedLifetime = 1
  MaxTime = 3
  MaxRotations = 1
  MaxSessions = 1
INVARIANTS TypeOK RevocationTakesEffect RotationEndsOldSessions FreshSessionsLast SessionsHaveAnIdentity
PROPERTY LoginEndsOnceKeysCame
CHECK_DEADLOCK FALSE
