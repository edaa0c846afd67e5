SPECIFICATION Spec
CONSTANTS
    ann = ann
    bob = bob
    NoOne = NoOne
    Users = {ann, bob}
    NumItems = 3
    NumCourses = 2
    Visits <- MCVisits
    MaxRounds = 3
    MaxLayouts = 4
    MaxCups = 2
SYMMETRY UserSymmetry
INVARIANTS
    RoundPageShowsItsRound
    HomeShowsActiveRound
    FeedStaysWhole
    LatestChoiceIsShown
    
    SessionIsOne
CHECK_DEADLOCK FALSE
