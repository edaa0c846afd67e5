SPECIFICATION Spec
CONSTANTS
    p1 = p1
    p2 = p2
    h1 = h1
    h2 = h2
    r1 = r1
    Users = {p1, p2}
    Creator = p1
    Holes = {h1, h2}
    InitialHoles = {h1}
    Requests = {r1}
    Worker = worker
    Kinds = {"score", "complete", "leave", "delete", "addHole", "deleteHole", "saveCourse", "spectate", "unspectate", "evaluate"}
    MinStrokes = 2
    MaxRequests = 5
    Concurrent = FALSE
    Crashes = TRUE
INVARIANTS
    OnlySparseRoundsDeleted
PROPERTIES
    LastSignatureCompletes
    ImplementsLifecycle
CHECK_DEADLOCK FALSE
