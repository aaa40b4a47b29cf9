SPECIFICATION Spec
CONSTANTS
    Models = {m1}
    Installed = {}
    Servers = {s1}
    Pages = {p1}
    Outside = {o1}
    Downloads = {d1}
    Capture = capture
    Nobody = Nobody
    NoFile = NoFile
    Malformed = Malformed
    NoHash = NoHash
    NoRecord = NoRecord
    Done = Done
    MaxAsked = 1
    Budget <- MCBudget
INVARIANT LoadingKeepsSaves
SYMMETRY Symmetry
CHECK_DEADLOCK FALSE
