SPECIFICATION Spec
CONSTANTS
  Threads = {t1, t2}
  Daemon = {}
  Nobody = Nobody
  MaxOps = 3
  MaxTimeouts = 0
  MaxNoise = 0
  MaxLives = 1
  HistoryLimit = 3
  Commands = {"toggle", "cancel"}
PROPERTIES
  CancelledNeverArrives
CHECK_DEADLOCK FALSE
