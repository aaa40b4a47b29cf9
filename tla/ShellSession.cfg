SPECIFICATION Spec
CONSTANTS
  Threads = {t1, t2}
  Daemon = {t1, t2}
  Nobody = Nobody
  MaxOps = 4
  MaxTimeouts = 1
  MaxNoise = 1
  MaxLives = 2
  HistoryLimit = 3
  Commands = {"toggle", "cancel", "retry", "shutdown"}
SYMMETRY Symmetry
INVARIANTS
  TypeOK
  MicrophoneIsKnown
  NoForeignText
  OutcomeIsVisible
PROPERTIES
  CancelledStaysCancelled
CHECK_DEADLOCK FALSE
