SPECIFICATION FairSpec
CONSTANTS
    p1 = p1
    p2 = p2
    h1 = h1
    h2 = h2
    r1 = r1
    r2 = r2
    Users = {p1, p2}
    Creator = p1
    Holes = {h1, h2}
    InitialHoles = {h1}
    Requests = {r1, r2}
    Worker = worker
    Kinds = {"score", "complete", "saveCourse", "delete"}
    MinStrokes = 1
    MaxRequests = 3
    Concurrent = TRUE
    Crashes = FALSE
PROPERTIES
    EventuallyClosed
    CompletionIsAnnounced
CHECK_DEADLOCK FALSE
