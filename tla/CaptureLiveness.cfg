SPECIFICATION FairSpec
CONSTANTS
  Models = {m1}
  Prefs = {p1}
  Pids = {1}
  NoConfig = NoConfig
  MaxStarts = 2
  MaxStops = 1
  MaxCancels = 0
  MaxTests = 0
  MaxUnloads = 0
  MaxReloads = 0
  MaxExits = 0
  MaxCommands = 3
  MaxIdle = 0
  MaxCrashes = 1
PROPERTIES
  DictationConcludes
  Supervised
CHECK_DEADLOCK FALSE
