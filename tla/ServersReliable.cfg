CONSTANTS
  Users = {u1, u2}
  Tokens = {t1}
  NoToken = NoToken
  NoAddress = NoAddress
  MaxClusters = 2
  DeleteStoppedPods = TRUE
  AllowedFaults = {"prepareFail", "createFail", "createLost", "deleteLost", "replyLost", "stopFail"}
  MaxFaultKinds = 1
SPECIFICATION FairSpec
PROPERTIES
  ImplementsLease
  IdleServerEnds
  SpawnResolves
CHECK_DEADLOCK FALSE
