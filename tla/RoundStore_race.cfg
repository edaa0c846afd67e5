SPECIFICATION Spec
CONSTANTS
    p1 = p1
    p2 = p2
    h1 = h1
    h2 = h2
    r1 = r1
    r2 = r2
    Users = {p1, p2}
    Creator = p1
    Holes = {h1, h2}
    InitialHoles = {h1}
    Requests = {r1, r2}
    Worker = worker
    Kinds = {"score", "complete", "leave", "delete", "addHole", "deleteHole", "saveCourse", "spectate", "unspectate", "evaluate"}
    MinStrokes = 1
    MaxRequests = 3
    Concurrent = TRUE
    Crashes = TRUE
INVARIANTS
    CompletedIsJustified
    AnnouncedWhenSigned
    AnnouncedOncePerRequest
    DeletedOnce
    NoOrphanRows
    SameHolesForAll
SYMMETRY RequestSymmetry
CHECK_DEADLOCK FALSE
