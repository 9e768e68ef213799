CONSTANTS
  Users = {u1, u2}
  Tokens = {t1}
  NoToken = NoToken
  NoAddress = NoAddress
  MaxClusters = 2
  DeleteStoppedPods = TRUE
  AllowedFaults = {"createFail"}
  MaxFaultKinds = 1
SPECIFICATION Spec
INVARIANT AddressIsForTheUser
CHECK_DEADLOCK FALSE
