CONSTANTS
  Starters = {s1, s2}
  NoStarter = NoStarter
  Home = Home
  Shared = Shared
  Others = {other}
  Choices = {{other}, {Home, other}}
  MaxInterrupts = 1
  MaxSaves = 1
SPECIFICATION FairSpec
INVARIANTS
  TypeOK
  IncompleteVenvNeedsInterrupt
  TornDotfileNeedsInterrupt
  TornReadNeedsCause
  FavoritesKept
PROPERTIES
  StartListsHomeOnce
  ImplementsFavoritesFile
  StartEnds
CHECK_DEADLOCK FALSE
