SPECIFICATION Spec
CONSTANTS
  Models = {m1}
  Prefs = {p1, p2}
  Pids = {1}
  NoConfig = NoConfig
  MaxStarts = 3
  MaxStops = 1
  MaxCancels = 0
  MaxTests = 1
  MaxUnloads = 1
  MaxReloads = 1
  MaxExits = 0
  MaxCommands = 3
  MaxIdle = 1
  MaxCrashes = 0
SYMMETRY Symmetry
INVARIANTS
  FrozenModel
PROPERTIES
  IdleCheckSparesDictation
  ObsoleteStartStandsDown
CHECK_DEADLOCK FALSE
