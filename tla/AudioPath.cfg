SPECIFICATION FairSpec
CONSTANTS
  Devices = {usb, builtin}
  Default = Default
  FrameLimit = 1
  Retries = 2
  MaxSessions = 2
  MaxStreams = 2
  MaxChanges = 1
INVARIANTS
  ListensOnlyToRecord
  OneEar
PROPERTIES
  HealthyStreamKept
  BrokenStreamLeaves
CHECK_DEADLOCK FALSE
