SPECIFICATION Spec
CONSTANTS
    u1 = u1
    u2 = u2
    r1 = r1
    r2 = r2
    emoji = emoji
    lastEmailSent = lastEmailSent
    x = x
    y = y
    Users = {u1, u2}
    Columns = {emoji, lastEmailSent}
    EmailSent = lastEmailSent
    Values = {x, y}
    Requests = {r1, r2}
    Bus = bus
    Mailer = mailer
    MaxRequests = 4
INVARIANTS
    FriendsAreMutual
    EloMatchesHistory
    AnnouncedAreFriends
PROPERTIES
    ImplementsUserTable
SYMMETRY RequestSymmetry
CHECK_DEADLOCK FALSE
