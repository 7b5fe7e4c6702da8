SPECIFICATION Spec
CONSTANTS
  m1 = m1
  m2 = m2
  u0 = u0
  u1 = u1
  p1 = p1
  p2 = p2
  k1 = k1
  k2 = k2
  Msg <- MCMsg
  Logins <- MCLogins
  AuthMayFail = FALSE
  NoUser = u0
  NoMsg = NoMsg
  MaxConns = 2
INVARIANTS
  NotWrittenAfterFailure
CHECK_DEADLOCK FALSE
