SPECIFICATION Spec
CONSTANTS
    ann = ann
    bob = bob
    Players = {ann, bob}
    NumHoles = 3
    AnyStart = FALSE
    MaxCalm = 8
    MaxRequests = 4
SYMMETRY PlayerSymmetry
INVARIANTS
    ScoreLandsWhereShown
    CompletedHasReason
    SettlesOnStored
    MovesWithGroup
CHECK_DEADLOCK FALSE
