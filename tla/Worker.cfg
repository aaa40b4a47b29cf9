SPECIFICATION FairSpec
CONSTANTS
  Threads = {t1, t2}
  Coordinators = {k1, k2}
  Models = {m1}
  Prefs = {p1, p2}
  Pids = {1, 2}
  Free = Free
  Caretaker = Caretaker
  NoConfig = NoConfig
INVARIANTS
  TypeOK
  ChildIsTracked
  RequestMatchesConfig
  ReadyIsPrimed
PROPERTIES
  RequestOwnsWorker
  HungRequestIsBroken
  ShutdownReturns
