SPECIFICATION Spec
CONSTANTS
    Models = {m1}
    Installed = {}
    Servers = {s1, s2}
    Pages = {p1, p2}
    Outside = {o1}
    Downloads = {d1, d2}
    Capture = capture
    Nobody = Nobody
    NoFile = NoFile
    Malformed = Malformed
    NoHash = NoHash
    NoRecord = NoRecord
    Done = Done
    MaxAsked = 1
    Budget <- MCBudget
INVARIANTS ModelsAreWhole
PROPERTIES NoBlindWrite SetupKeepsChoice
SYMMETRY Symmetry
CHECK_DEADLOCK FALSE
