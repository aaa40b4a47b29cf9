SPECIFICATION Spec
CONSTANTS
  Models = {m1}
  Prefs = {p1}
  Pids = {1}
  NoConfig = NoConfig
  MaxStarts = 2
  MaxStops = 2
  MaxCancels = 1
  MaxTests = 0
  MaxUnloads = 0
  MaxReloads = 0
  MaxExits = 1
  MaxCommands = 4
  MaxIdle = 0
  MaxCrashes = 0
INVARIANTS
  TypeOK
  OneDictation
  OverlayShowsWork
  OneFate
  NothingForgotten
  StaleRequestIsInterrupted
PROPERTIES
  StaleSilence
CHECK_DEADLOCK FALSE
