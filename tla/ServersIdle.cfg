CONSTANTS
  Users = {u1}
  Tokens = {t1}
  NoToken = NoToken
  NoAddress = NoAddress
  MaxClusters = 2
  DeleteStoppedPods = TRUE
  AllowedFaults = {"crash"}
  MaxFaultKinds = 1
SPECIFICATION FairSpec
PROPERTY IdleServerStopped
CHECK_DEADLOCK FALSE
