CONSTANTS
  NoConfig = NoConfig
  NoContainer = NoContainer
  Roles <- TwoRoles
  MaxFaultKinds = 2
SPECIFICATION FairSpec
INVARIANTS
  TypeOK
  ServerFollowsSetup
  ServedContainerIsConfigured
  UntrackedContainerNeedsFault
PROPERTIES
  IdleContainerEnds
  SpawnResolves
