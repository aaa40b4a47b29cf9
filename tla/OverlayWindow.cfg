SPECIFICATION Spec
CONSTANTS
    Primaries = {"Transcribing"}
    Levels = {1, 3}
    Texts = {"a", "b"}
    Locales = {"en", "ar"}
    MaxCommands = 5
    MaxAnswers = 3
INVARIANTS BufferFits NothingLeftToPaint
PROPERTY OverlayCatchesUp
CHECK_DEADLOCK FALSE
