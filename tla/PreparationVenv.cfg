CONSTANTS
  Starters = {s1}
  NoStarter = NoStarter
  Home = Home
  Shared = Shared
  Others = {other}
  Choices = {{other}, {Home, other}}
  MaxInterrupts = 1
  MaxSaves = 0
SPECIFICATION Spec
INVARIANT StartedServerHasVenv
CHECK_DEADLOCK FALSE
