CONSTANTS
  Users = {u1, u2}
  Tokens = {t1}
  NoToken = NoToken
  NoAddress = NoAddress
  MaxClusters = 2
  DeleteStoppedPods = TRUE
  AllowedFaults = {"crash", "evict", "expire", "prepareFail", "createFail",
                   "createLost", "deleteFail", "deleteLost", "replyLost", "launchTimeout", "stopFail"}
  MaxFaultKinds = 2
SYMMETRY Symmetry
SPECIFICATION Spec
INVARIANTS
  TypeOK
  TrackedServerIsStoppable
  ClusterEndsWithServer
  UntrackedPodNeedsFault
  ForeignAddressNeedsFailedCreate
  OwnAddressIsLive
  HubAddressIsLive
CHECK_DEADLOCK FALSE
