SPECIFICATION Spec
CONSTANTS
    ann = ann
    bob = bob
    NoOne = NoOne
    Users = {ann, bob}
    Ids = {1}
    NumItems = 3
    Courses = {"oak", "elm"}
    Oak = "oak"
    NumYears = 2
    Visits <- MCVisits
    MaxLayouts = 3
    MaxCups = 2
SYMMETRY UserSymmetry
INVARIANTS
    DetailsAgree
    FeedAgrees
    PagesShowWhatTheyAsk
    
    EditsStayInTheirLayout
CHECK_DEADLOCK FALSE
