SPECIFICATION Spec
CONSTANTS
    ann = ann
    bob = bob
    Players = {ann, bob}
    NumHoles = 3
    AnyStart = TRUE
    MaxCalm = 4
    MaxRequests = 3
SYMMETRY PlayerSymmetry
INVARIANTS
    ScoreLandsWhereShown
CHECK_DEADLOCK FALSE
