SPECIFICATION Spec
CONSTANTS
    Threads = {1, 2}
    Backends = {"portal", "x11"}
    Modes = {"hold", "toggle"}
    MaxPresses = 3
    MaxClosures = 1
INVARIANTS ClosingEndsRetries DeliversReleased
PROPERTY DeliveryEnds
CHECK_DEADLOCK FALSE
