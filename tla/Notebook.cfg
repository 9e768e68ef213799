CONSTANTS
  Notebooks = {n1, n2}
  Server = Server
  Outside = Outside
  NoMaster = NoMaster
  Foreign = Foreign
  NoSession = NoSession
  AnswersGetLost = TRUE
  MaxClusters = 3
  MaxKeys = 2
  MaxDatabases = 2
SPECIFICATION Spec
INVARIANTS
  TypeOK
  EnvironmentIsCurrent
  SessionsAreHeld
PROPERTIES
  NewSessionWorks
SYMMETRY Symmetry
CHECK_DEADLOCK FALSE
