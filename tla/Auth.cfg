CONSTANTS
  u1 = u1
  u2 = u2
  t1 = t1
  t2 = t2
  t3 = t3
  Users = {u1, u2}
  Requests = {r1, r2}
  Tokens = {t1, t2, t3}
  Owner <- Owners
  MfaTokens = {t1, t2}
  NoOne = NoOne
  NoToken = NoToken
  NoState = NoState
  NoCall = NoCall
  Active = {u1}
  Revocable = {t1}
  MaxRestarts = 1
SYMMETRY Symmetry
SPECIFICATION Spec
INVARIANTS
  TypeOK
  ServedUserHasToken
  TokensStayWithTheirUser
PROPERTIES
  AdmissionIsRecent
  ImplementsAdmission
CHECK_DEADLOCK FALSE
